------------------------------ MODULE LogMerge ------------------------------
(* getLog of the old history provider for a site with several devices: the *)
(* logs of the devices below the path asked for are merged, oldest entry   *)
(* first (shvhistoryprovider/src/getlogmerge.cpp 19-173), after the        *)
(* parameters were checked (rootnode.cpp 466-497).  A reader gives the     *)
(* entries of a device from its first file that since needs on; what it    *)
(* reads from which file is CheckLog's concern.                            *)
EXTENDS Integers, Sequences, FiniteSets, Functions, FiniteSetsExt

CONSTANTS
  Devices,   \* how many devices are below the path
  MaxTime,   \* bound: milliseconds
  MaxLen,    \* bound: entries of a device
  MaxLimit   \* DEFAULT_GET_LOG_RECORD_COUNT_LIMIT

Always == 0             \* no since
SinceLast == -1         \* since is "last"
Forever == MaxTime + 1  \* no until

Entry == [at : 1..MaxTime, matches : BOOLEAN] \* does it match the path pattern?
Chronological(log) == \A i, j \in DOMAIN log : i < j => log[i].at <= log[j].at
DeviceLogs == {log \in UNION {[1..n -> Entry] : n \in 0..MaxLen} : Chronological(log)}

VARIABLES
  logs,     \* what the reader of each device gives
  params,   \* m_logParams: since, until and recordCountLimit
  readers,  \* the readers that have begun, in the order of the devices
  pos,      \* position of each
  merged,   \* m_mergedLog, as pairs of a device and a position
  count,    \* record_count
  phase     \* of the request: "asked", "merging", "answered" or "refused"

lmVars == <<logs, params, readers, pos, merged, count, phase>>

Init ==
  /\ logs \in [1..Devices -> DeviceLogs]
  /\ params \in [since : {Always, SinceLast} \cup 1..MaxTime, until : 1..Forever, limit : 1..MaxLimit + 1]
  /\ readers = <<>> /\ pos = [d \in 1..Devices |-> 1]
  /\ merged = <<>> /\ count = 0 /\ phase = "asked"

(* RootNode::getLog: the interval is checked.                              *)
Refuse ==
  /\ phase = "asked" /\ params.since > params.until
  /\ phase' = "refused"
  /\ UNCHANGED <<logs, params, readers, pos, merged, count>>

(* The limit is cut to the default, and the readers that have an entry at  *)
(* all begin.                                                              *)
Begin ==
  /\ phase = "asked" /\ params.since <= params.until
  /\ params' = [params EXCEPT !.limit = Min({@, MaxLimit})]
  /\ readers' = SelectSeq([d \in 1..Devices |-> d], LAMBDA d : logs[d] # <<>>)
  /\ phase' = "merging"
  /\ UNCHANGED <<logs, pos, merged, count>>

Usable == {d \in Range(readers) : pos[d] <= Len(logs[d])}

At(d) == logs[d][pos[d]]

(* The usable reader whose entry is oldest, the first one of several.      *)
Oldest ==
  LET oldest == Min({At(d).at : d \in Usable})
  IN Min({d \in Usable : At(d).at = oldest})

(* One more record than the limit is read: so getLog knows there is more.  *)
OverLimit(n) == n > params.limit

(* Does the entry count?                                                   *)
Counts(e) == e.matches /\ params.since # SinceLast /\ e.at >= params.since

(* One round of the loop: the oldest entry is taken.                       *)
Merge ==
  /\ phase = "merging" /\ Usable # {} /\ At(Oldest).at < params.until
  /\ LET d == Oldest
         e == At(d)
         n == IF Counts(e) THEN count + 1 ELSE count
     IN /\ count' = n
        /\ merged' = IF e.matches THEN Append(merged, <<d, pos[d]>>) ELSE merged
        /\ IF Counts(e) /\ OverLimit(n)
             THEN phase' = "answered" /\ UNCHANGED pos
             ELSE pos' = [pos EXCEPT ![d] = @ + 1] /\ UNCHANGED phase
  /\ UNCHANGED <<logs, params, readers>>

(* All is read, or what is left is not asked for.                          *)
Finish ==
  /\ phase = "merging" /\ (Usable # {} => At(Oldest).at >= params.until)
  /\ phase' = "answered"
  /\ UNCHANGED <<logs, params, readers, pos, merged, count>>

Next == Refuse \/ Begin \/ Merge \/ Finish

Spec == Init /\ [][Next]_lmVars

-----------------------------------------------------------------------------
EntryOf(x) == logs[x[1]][x[2]]

(* The positions of all entries that match, before until.                  *)
Wanted ==
  {x \in (1..Devices) \X (1..MaxLen) :
     x[2] \in DOMAIN logs[x[1]] /\ EntryOf(x).matches /\ EntryOf(x).at < params.until}

Answered(x) == params.since # SinceLast /\ EntryOf(x).at >= params.since

(* ShvMemoryJournal::getLog: the records of the answer, at most limit, and *)
(* whether there are more.                                                 *)
Records == SelectSeq(merged, Answered)
Answer == [records |-> SubSeq(Records, 1, Min({Len(Records), params.limit})),
           limitHit |-> Len(Records) > params.limit]

(* The answer holds the oldest records of all devices, in the order of     *)
(* their times and, of a device, in that of its log, up to the limit, and  *)
(* tells whether there are more; what comes before since, for the          *)
(* snapshot, is complete.                                                  *)
MergedRight ==
  phase = "answered" =>
    LET inAnswer == {x \in Wanted : Answered(x)}
        got == Range(Answer.records)
    IN /\ IsInjective(merged)
       /\ \A i, j \in DOMAIN merged : i < j =>
            /\ EntryOf(merged[i]).at <= EntryOf(merged[j]).at
            /\ merged[i][1] = merged[j][1] => merged[i][2] < merged[j][2]
       /\ Wanted \ inAnswer \subseteq Range(merged)
       /\ got \subseteq inAnswer /\ Cardinality(got) = Min({params.limit, Cardinality(inAnswer)})
       /\ \A x \in got, y \in inAnswer \ got : EntryOf(x).at <= EntryOf(y).at
       /\ Answer.limitHit <=> Cardinality(inAnswer) > params.limit
=============================================================================
