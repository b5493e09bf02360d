----------------------------- MODULE SiteAlarms -----------------------------
(***************************************************************************)
(* The alarms and the online status of one site: class SiteNode of         *)
(* sitenode.cpp in historyprovider3, but for getLog and pushLog.           *)
(*                                                                         *)
(* The site has properties, each with some alarms (the fields of the       *)
(* property that typeInfo declares to be alarms); a value is abstracted to *)
(* the set of alarms active in it.  A smaller severity is a worse one.     *)
(***************************************************************************)
EXTENDS Integers, Sequences, FiniteSets, SequencesExt

CONSTANTS
  Properties, \* the properties, in the order the log returns them
  AlarmsOf,   \* AlarmsOf[p]: the alarms of property p, in typeInfo's order
  Severity,   \* of every alarm, site-offline included
  SiteOffline,\* SITE_OFFLINE_ALARM_KEY
  MaxCalls    \* bound: dir calls outstanding at a time

Props == ToSet(Properties)
Names == UNION {ToSet(AlarmsOf[p]) : p \in Props}
Values(p) == SUBSET ToSet(AlarmsOf[p])
Invalid == 0 \* Severity::Invalid, the overall alarm when there is none

SiteAlarmsAssumption ==
  /\ Properties \in Seq(Props) /\ IsInjective(Properties)
  /\ AlarmsOf \in [Props -> Seq(Names)] /\ \A p \in Props : IsInjective(AlarmsOf[p])
  /\ \A p, q \in Props : p # q => ToSet(AlarmsOf[p]) \cap ToSet(AlarmsOf[q]) = {}
  /\ SiteOffline \notin Names
  /\ Severity \in [Names \cup {SiteOffline} -> Nat \ {0}]
  /\ MaxCalls \in Nat \ {0}

VARIABLES
  alarms,   \* m_alarms
  overall,  \* m_overallAlarm
  status,   \* m_onlineStatus
  loaded,   \* m_typeInfo holds a ShvTypeInfo and valueChanged is connected
  calls,    \* the outstanding dir calls, each with what may come of it
  alive,    \* does the site answer?
  late,     \* is a value of the site still on its way although it does not?
  known,    \* the last value of each property in the log, if there is one
  sent,     \* the signals sent in the last step
  fresh     \* history: alarms seen active since the site last went offline

node == <<alarms, overall, status, loaded, sent>>
env == <<calls, alive, late, known>>
vars == <<node, env, fresh>>

Alarm == [alarm : Names \cup {SiteOffline}, stale : BOOLEAN]
None == {SiteOffline} \* no value: not a set of alarms of any property

Listed(as) == {as[i].alarm : i \in 1..Len(as)}
Stale(as) == {as[i].alarm : i \in {j \in 1..Len(as) : as[j].stale}}

Init ==
  /\ alarms = <<>>
  /\ overall = Invalid
  /\ status = "Unknown"
  /\ loaded = FALSE
  /\ calls = <<>>
  /\ alive = TRUE
  /\ late = FALSE
  /\ known \in {f \in [Props -> UNION {Values(p) : p \in Props} \cup {None}] :
                  \A p \in Props : f[p] \in Values(p) \cup {None}}
  /\ sent = {}
  /\ fresh = {}

(* The elements of q at the positions of I, in their order.                *)
Picked(q, I) == [k \in 1..Cardinality(I) |-> q[CHOOSE i \in I : Cardinality({j \in I : j <= i}) = k]]

Without(as, names) == Picked(as, {i \in 1..Len(as) : as[i].alarm \notin names})

-----------------------------------------------------------------------------
(* setOnlineStatus on a node state st.                                     *)

NodeState == [alarms |-> alarms, overall |-> overall, status |-> status, sent |-> {}]

(* Mutant: the alarm of an earlier outage is not removed.                  *)
OnlineKeepsAlarm(st) ==
  IF st.status = "Online" THEN st
  ELSE [st EXCEPT !.status = "Online", !.sent = @ \cup {"onlinestatuschng"}]

(* Online: the site-offline alarm goes; the others stay as stale as they   *)
(* are.                                                                    *)
Online(st) ==
  IF st.status = "Online" THEN st
  ELSE [st EXCEPT
    !.alarms = Without(@, {SiteOffline}),
    !.status = "Online",
    !.sent = @ \cup {"onlinestatuschng"} \cup
             (IF SiteOffline \in Listed(st.alarms) THEN {"alarmmod"} ELSE {})]

(* Offline: every alarm becomes stale and site-offline is appended.        *)
Offline(st) ==
  IF st.status = "Offline" THEN st
  ELSE [st EXCEPT
    !.alarms = Append([i \in 1..Len(@) |-> [@[i] EXCEPT !.stale = TRUE]],
                      [alarm |-> SiteOffline, stale |-> FALSE]),
    !.status = "Offline",
    !.sent = @ \cup {"onlinestatuschng", "alarmmod"}]

-----------------------------------------------------------------------------
(* update_alarms_and_overall_alarm for property p with the alarms of       *)
(* active, on a node state st.                                             *)

(* The alarms that the value turns on or off.                              *)
Changed(st, p, active) ==
  {a \in ToSet(AlarmsOf[p]) : (a \in active) # (a \in Listed(st.alarms))}

Refreshed(as, active) ==
  [i \in 1..Len(as) |-> [as[i] EXCEPT !.stale = @ /\ as[i].alarm \notin active]]

(* update_alarms: changed alarms are removed, active ones put at the end.  *)
Updated(as, p, changed, active) ==
  LET on == Picked(AlarmsOf[p], {i \in 1..Len(AlarmsOf[p]) : AlarmsOf[p][i] \in changed \cap active})
  IN Without(as, changed) \o [i \in 1..Len(on) |-> [alarm |-> on[i], stale |-> FALSE]]

(* Sorting by severity; the sort of the code is free in the order of equal *)
(* ones.                                                                   *)
NotAfter(as, j, i) ==
  \/ Severity[as[j].alarm] < Severity[as[i].alarm]
  \/ Severity[as[j].alarm] = Severity[as[i].alarm] /\ j <= i

Sorted[as \in Seq(Alarm)] ==
  LET place(k) == CHOOSE i \in 1..Len(as) : Cardinality({j \in 1..Len(as) : NotAfter(as, j, i)}) = k
  IN [k \in 1..Len(as) |-> as[place(k)]]

Worst(as) == IF as = <<>> THEN Invalid ELSE Severity[as[1].alarm]

(* alarmmod is sent when an alarm changes or is no longer stale; the list  *)
(* is sorted and the overall alarm recomputed only in the first case.      *)
Update(st, p, active) ==
  LET changed == Changed(st, p, active)
      now == Sorted[Updated(Refreshed(st.alarms, active), p, changed, active)]
      mod == IF changed # {} \/ active \cap Stale(st.alarms) # {} THEN {"alarmmod"} ELSE {}
  IN IF changed = {} THEN [st EXCEPT !.alarms = Refreshed(@, active), !.sent = @ \cup mod]
     ELSE [st EXCEPT !.alarms = now, !.overall = Worst(now),
                     !.sent = @ \cup mod \cup
                              (IF Worst(now) # st.overall THEN {"overall"} ELSE {})]

Becomes(st) ==
  /\ alarms' = st.alarms
  /\ overall' = st.overall
  /\ status' = st.status
  /\ sent' = st.sent
  /\ fresh' = IF st.status = "Offline" /\ status # "Offline" THEN {} ELSE fresh

-----------------------------------------------------------------------------
(* A chng signal, logged by the journal node and emitted as valueChanged   *)
(* by the value cache: first the online status, then the alarms.           *)
Value(p, active) ==
  /\ alive \/ late
  /\ late' = FALSE
  /\ known' = [known EXCEPT ![p] = active]
  /\ \E online \in {Online(NodeState)} :
       \E st \in {IF loaded THEN Update(online, p, active) ELSE online} :
         alarms' = st.alarms /\ overall' = st.overall /\ sent' = st.sent /\ status' = st.status
  /\ fresh' = fresh \cup (IF loaded THEN active ELSE {})
  /\ UNCHANGED <<loaded, calls, alive>>

(* The answer of the read call for typeInfo: the values of the log are     *)
(* replayed.                                                               *)
Replay(st, p) == IF known[p] = None THEN st ELSE Update(st, p, known[p])

Load ==
  /\ ~loaded
  /\ loaded' = TRUE
  /\ Becomes(FoldLeft(Replay, NodeState, Properties))
  /\ UNCHANGED env

(* site_online_timer.  A dir call that the site gets is answered.          *)
Tick ==
  /\ Len(calls) < MaxCalls
  /\ calls' = Append(calls, {IF alive THEN "answer" ELSE "timeout"})
  /\ sent' = {}
  /\ UNCHANGED <<alarms, overall, status, loaded, alive, late, known, fresh>>

(* Mutant: a call that timed out is left alone.                            *)
ResultIgnored(outcome) == NodeState

(* MethodCallTimeout and MethodNotFound mean offline, all else online.     *)
Result(outcome) ==
  IF outcome = "timeout" THEN Offline(NodeState) ELSE Online(NodeState)

DirResult(i) ==
  /\ i \in 1..Len(calls)
  /\ \E outcome \in calls[i] : Becomes(Result(outcome))
  /\ calls' = RemoveAt(calls, i)
  /\ UNCHANGED <<loaded, alive, late, known>>

-----------------------------------------------------------------------------
(* The site stops: what is on its way may still arrive, or not.            *)
Stop ==
  /\ alive
  /\ alive' = FALSE
  /\ late' \in BOOLEAN
  /\ calls' = [i \in 1..Len(calls) |-> calls[i] \cup {"timeout"}]
  /\ sent' = {}
  /\ UNCHANGED <<alarms, overall, status, loaded, known, fresh>>

Start ==
  /\ ~alive
  /\ alive' = TRUE
  /\ sent' = {}
  /\ UNCHANGED <<alarms, overall, status, loaded, calls, late, known, fresh>>

SomeValue == \E p \in Props : \E active \in Values(p) : Value(p, active)

Next ==
  \/ SomeValue \/ Load \/ Tick
  \/ \E i \in 1..MaxCalls : DirResult(i)
  \/ Stop \/ Start

Spec == Init /\ [][Next]_vars

(* A value restarts the timer, so one of the two happens; every call is    *)
(* answered or times out.                                                  *)
Fairness ==
  /\ WF_vars(SomeValue \/ Tick)
  /\ WF_vars(\E i \in 1..MaxCalls : DirResult(i))

FairSpec == Spec /\ Fairness

-----------------------------------------------------------------------------
(* Types; the list does not grow beyond the alarms there are.              *)
TypeOK ==
  /\ alarms \in Seq(Alarm) /\ Len(alarms) <= Cardinality(Names) + 1
  /\ overall \in {Invalid} \cup {Severity[a] : a \in Names \cup {SiteOffline}}
  /\ status \in {"Unknown", "Offline", "Online"}
  /\ loaded \in BOOLEAN /\ alive \in BOOLEAN /\ late \in BOOLEAN
  /\ calls \in Seq(SUBSET {"answer", "timeout"}) /\ Len(calls) <= MaxCalls
  /\ \A p \in Props : known[p] \in Values(p) \cup {None}
  /\ sent \subseteq {"onlinestatuschng", "alarmmod", "overall"}
  /\ fresh \subseteq Names

(* The alarm table names every alarm once, and exactly those that the last *)
(* value of their property sets, whether it came from the log or live,     *)
(* before or after the type info.                                          *)
AlarmsMatch ==
  /\ IsInjective([i \in 1..Len(alarms) |-> alarms[i].alarm])
  /\ loaded => Listed(alarms) \ {SiteOffline}
                 = UNION {known[p] : p \in {q \in Props : known[q] # None}}

(* The virtual alarm site-offline is there exactly while the site is       *)
(* Offline, as the comment in setOnlineStatus says, and never twice.       *)
OfflineAlarm == SiteOffline \in Listed(alarms) <=> status = "Offline"

(* An alarm that was seen active since the site last went offline is not   *)
(* stale.                                                                  *)
FreshNotStale == fresh \cap Stale(alarms) = {}

(* No client misses a change of the alarm table: alarmmod comes with every *)
(* change of it, of staleness too.                                         *)
AlarmModSent ==
  [][ToSet(alarms') # ToSet(alarms) => "alarmmod" \in sent']_vars

(* A site that stays silent is found Offline, one that stays up is found   *)
(* Online, whatever late answers and values are still to come.             *)
StatusSettles ==
  /\ <>[](~alive) => <>[](status = "Offline")
  /\ <>[]alive => <>[](status = "Online")
=============================================================================
