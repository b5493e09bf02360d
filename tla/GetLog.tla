------------------------------- MODULE GetLog -------------------------------
(* The answers of a historyprovider3 site from its cache directory:        *)
(* SiteNode::getLog, which begins to read at the newest file that suffices *)
(* for the time asked for (sitenode.cpp 398-457), and SiteNode::alarmLog,  *)
(* which turns that log into the alarms at its begin and their changes     *)
(* (459-523).                                                              *)
(* The directory grows the way ShvJournalNode lets it: signals go to the   *)
(* dirty log, a sync brings what the device has logged, in the last file   *)
(* or in a new one, which begins with a snapshot, and trims the dirty log  *)
(* (FileSync).  A path has one alarm, active while its value is 1.         *)
EXTENDS Integers, Sequences, FiniteSets, SequencesExt, FiniteSetsExt

CONSTANTS
  Paths,
  MaxTime,   \* bound: milliseconds
  MaxEntries \* bound: entries logged

GetLogAssumption == MaxTime \in Nat \ {0} /\ MaxEntries \in Nat

VARIABLES
  records,  \* what the files hold, read one after the other in the order of their names
  journals, \* the files but the dirty log: their names, and where their records begin
  dirtyAt,  \* where those of the dirty log begin; it comes last, if it exists
  now       \* time of the last entry

glVars == <<records, journals, dirtyAt, now>>

Values == {0, 1}
Dirty == MaxTime + 1 \* the name "dirtylog" comes after those made of times
Always == -1         \* no since
SinceLast == -2      \* since is "last"

Record == [at : 1..MaxTime, path : Paths, value : Values, inSnapshot : BOOLEAN]
Entry(p, v, t) == [at |-> t, path |-> p, value |-> v, inSnapshot |-> FALSE]

(* The last values of the records at the positions of I, by path.          *)
State(rs, I) ==
  {<<rs[i].path, rs[i].value>> : i \in {k \in I : \A j \in I : rs[j].path = rs[k].path => j <= k}}

Snapshot(state, t) ==
  LET pairs == SetToSeq(state)
  IN [i \in DOMAIN pairs |->
        [at |-> t, path |-> pairs[i][1], value |-> pairs[i][2], inSnapshot |-> TRUE]]

Init == records = <<>> /\ journals = <<>> /\ dirtyAt = 1 /\ now = 1

Logged == Cardinality({i \in DOMAIN records : ~records[i].inSnapshot})

(* onRpcMessageReceived: a changed value comes to the dirty log.           *)
Changed(p, v, t) ==
  /\ Logged < MaxEntries
  /\ t \in now..MaxTime
  /\ now' = t
  /\ records' = Append(records, Entry(p, v, t))
  /\ UNCHANGED <<journals, dirtyAt>>

(* A sync has brought the entries of the dirty log up to the one at last,  *)
(* with all that have its time; the device wrote them to the last file, or *)
(* to a new one, which begins with a snapshot of all before.               *)
Synced(last, inNew) ==
  LET name == records[dirtyAt].at
      snapshot == Snapshot(State(records, 1..dirtyAt - 1), name)
  IN /\ last \in dirtyAt..Len(records)
     /\ last < Len(records) => records[last].at < records[last + 1].at
     /\ journals = <<>> => inNew
     /\ inNew => \A i \in 1..dirtyAt - 1 : records[i].at < name
     /\ IF inNew
          THEN /\ records' = SubSeq(records, 1, dirtyAt - 1) \o snapshot
                               \o SubSeq(records, dirtyAt, Len(records))
               /\ journals' = Append(journals, [name |-> name, begin |-> dirtyAt])
               /\ dirtyAt' = last + Len(snapshot) + 1
          ELSE dirtyAt' = last + 1 /\ UNCHANGED <<records, journals>>
     /\ UNCHANGED now

Next ==
  \/ \E p \in Paths, v \in Values, t \in now..MaxTime : Changed(p, v, t)
  \/ \E last \in DOMAIN records, inNew \in BOOLEAN : Synced(last, inNew)

Spec == Init /\ [][Next]_glVars

-----------------------------------------------------------------------------
(* Mutant: the loop returns the file at which it breaks.                   *)
NewestMatchingFileNext(since) ==
  IF since = SinceLast THEN Len(journals)
  ELSE Min({k \in DOMAIN journals : journals[k].name >= since} \cup {Len(journals)})

(* newest_matching_file_it, when there are files beside the dirty log.     *)
NewestMatchingFile(since) ==
  IF since = SinceLast THEN Len(journals)
  ELSE Max({1} \cup {k \in DOMAIN journals : journals[k].name < since})

(* Where the files begin that are read.                                    *)
FirstRead(since) ==
  IF since = Always \/ journals = <<>> THEN 1 ELSE journals[NewestMatchingFile(since)].begin

(* The elements of q at the positions of I, in their order.                *)
Picked(q, I) == [k \in 1..Cardinality(I) |-> q[CHOOSE i \in I : Cardinality({j \in I : j <= i}) = k]]

(* shv::core::utils::getLog of the records from first on: the values when  *)
(* since began and the entries after since and before until; for "last"    *)
(* the values at the end.                                                  *)
LogOf(first, since, until) ==
  LET positions == {i \in first..Len(records) : records[i].at < until}
  IN [snapshot |-> State(records, {i \in positions : since = SinceLast \/ records[i].at <= since}),
      events |-> IF since = SinceLast THEN <<>>
                 ELSE Picked(records, {i \in positions : records[i].at > since /\ ~records[i].inSnapshot})]

Answer(since, until) == LogOf(FirstRead(since), since, until)

-----------------------------------------------------------------------------
(* get_changed_alarms and update_alarms: alarms is the set of paths with   *)
(* an active alarm.                                                        *)
Active(state) == {x[1] : x \in {y \in state : y[2] = 1}}
IsChange(alarms, r) == (r.value = 1) # (r.path \in alarms)
Updated(alarms, r) == IF r.value = 1 THEN alarms \cup {r.path} ELSE alarms \ {r.path}

(* An entry that is not in the snapshot.                                   *)
ReadEvent(log, r) ==
  [saved |-> TRUE,
   snapshot |-> IF log.saved THEN log.snapshot ELSE log.current,
   events |-> IF IsChange(log.current, r) THEN Append(log.events, r) ELSE log.events,
   current |-> Updated(log.current, r)]

Reading(start, events) ==
  LET read[n \in 0..Len(events)] == IF n = 0 THEN start ELSE ReadEvent(read[n - 1], events[n])
  IN read

(* alarmLog: the snapshot is saved when the first event comes.             *)
AlarmLog(since, until) ==
  LET log == Answer(since, until)
      start == [saved |-> FALSE, snapshot |-> {}, events |-> <<>>, current |-> Active(log.snapshot)]
  IN Reading(start, log.events)[Len(log.events)]

-----------------------------------------------------------------------------
TypeOK ==
  /\ records \in Seq(Record)
  /\ journals \in Seq([name : 1..MaxTime, begin : 1..Len(records)])
  /\ dirtyAt \in 1..Len(records) + 1
  /\ now \in 1..MaxTime

Sinces == {Always, SinceLast} \cup 0..MaxTime
Untils == 1..Dirty

(* getLog answers from the files it chooses what it would answer from all  *)
(* of them, wherever files begin and however much is in the dirty log; the *)
(* interval is not empty, and one since "last" has no end.                 *)
ChosenSuffice ==
  \A since \in Sinces, until \in Untils :
    (IF since = SinceLast THEN until = Dirty ELSE since < until) =>
      Answer(since, until) = LogOf(1, since, until)

(* The alarms after each of the events.                                    *)
After(alarms, events) ==
  LET after[n \in 0..Len(events)] == IF n = 0 THEN alarms ELSE Updated(after[n - 1], events[n])
  IN after

(* The alarms active when the interval begins, and their changes one by    *)
(* one, lead to the alarms at its end, if there is an entry in it at all:  *)
(* the snapshot of a quiet interval is empty whatever alarms there are.    *)
AlarmLogRebuilds ==
  \A since \in 0..MaxTime, until \in Untils :
    LET log == AlarmLog(since, until)
        after == After(log.snapshot, log.events)
        active(t) == Active(State(records, {i \in DOMAIN records : records[i].at <= t}))
    IN since < until /\ Answer(since, until).events # <<>> =>
         /\ log.snapshot = active(since)
         /\ after[Len(log.events)] = active(until - 1)
         /\ \A n \in 1..Len(log.events) : IsChange(after[n - 1], log.events[n])
=============================================================================
