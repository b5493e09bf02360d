----------------------------- MODULE AgentTester ------------------------------
(***************************************************************************)
(* shvagent: the tester script, a list of steps run one after the other    *)
(* (tester_processShvCalls of shvagentapp.cpp), and the property of a      *)
(* tester node it sets and reads (testernode.cpp).  A call step goes on    *)
(* when its result comes; a sigTrap step waits for a signal, but the next  *)
(* step, which should cause it, is started at once.  "skip" tells how far  *)
(* a step goes on when it succeeds.  A trap is taken away with deleteLater *)
(* when it passes or its time is over: until the event loop comes to that, *)
(* signals pass it, again.                                                 *)
(*                                                                         *)
(* The broker carries calls, results and signals in order, answers a call  *)
(* with an error or never, and forgets a lost connection.  Others set the  *)
(* property too.                                                           *)
(***************************************************************************)
EXTENDS Integers, Sequences, FiniteSets, FiniteSetsExt

CONSTANTS
  Script,     \* a sequence of [cmd, skip]; cmd is "subscribe", "set", "get" or "sigTrap"
  MaxFaults   \* bound: lost connections, errors, late answers and settings by others

AgentTesterAssumption ==
  /\ \A i \in DOMAIN Script : /\ Script[i].cmd \in {"subscribe", "set", "get", "sigTrap"}
                              /\ Script[i].skip \in Nat
  /\ MaxFaults \in Nat

VARIABLES
  connected,
  index,              \* m_currentTestIndex
  queued,             \* tester_processShvCalls that are queued
  calls, traps,       \* the places in started of those that wait for a result or a signal
  ended,              \* the traps that go before anything queued is run
  toBroker, toTester, \* messages on their way
  subscribed, value,  \* of the property: is its signal subscribed, was it set?
  started,            \* the steps in the order they were started
  strayed,            \* history: a signal passed a trap again, or before it was to be caused
  failed, atFaults

atVars == <<connected, index, queued, calls, traps, ended, toBroker, toTester, subscribed, value,
            started, strayed, failed, atFaults>>

(* numeric_limits::max(), beyond every step.                               *)
Aborted == Len(Script) + 1

Init ==
  /\ connected = FALSE /\ index = 0 /\ queued = 0 /\ calls = {} /\ traps = {} /\ ended = {}
  /\ toBroker = <<>> /\ toTester = <<>> /\ subscribed = FALSE /\ value = FALSE
  /\ started = <<>> /\ strayed = FALSE /\ failed = FALSE /\ atFaults = 0

(* Mutant: the increment of m_currentTestIndex is forgotten.               *)
OnSuccessTooEarly(i) == i + Script[i].skip - 2

(* on_success_ix of step i, computed when it starts.                       *)
OnSuccess(i) == i + Script[i].skip - 1

(* tester_processShvCalls with q of it left in the queue.                  *)
Process(q) ==
  LET i == index + 1
      n == Len(started) + 1
  IN
  IF connected' /\ index < Len(Script)
  THEN /\ index' = i /\ started' = Append(started, i)
       /\ IF Script[i].cmd = "sigTrap"
          THEN /\ traps' = traps \cup {n} /\ queued' = q + 1
               /\ UNCHANGED <<calls, toBroker>>
          ELSE /\ calls' = calls \cup {n} /\ toBroker' = Append(toBroker, n)
               /\ queued' = q /\ UNCHANGED traps
  ELSE queued' = q /\ UNCHANGED <<index, started, traps, calls, toBroker>>

ProcessQueued ==
  /\ queued > 0 /\ ended = {} /\ UNCHANGED connected
  /\ Process(queued - 1)
  /\ UNCHANGED <<ended, toTester, subscribed, value, strayed, failed, atFaults>>

TrapsDeleted ==
  /\ ended # {} /\ ended' = {} /\ traps' = traps \ ended
  /\ UNCHANGED <<connected, index, queued, calls, toBroker, toTester, subscribed, value, started,
                 strayed, failed, atFaults>>

(* The script goes on where it was.  What is queued runs before a login is *)
(* through.                                                                *)
Connect ==
  /\ ~connected /\ queued = 0 /\ connected' = TRUE
  /\ Process(0)
  /\ UNCHANGED <<ended, toTester, subscribed, value, strayed, failed, atFaults>>

Disconnect ==
  /\ connected /\ atFaults < MaxFaults /\ atFaults' = atFaults + 1
  /\ connected' = FALSE /\ toBroker' = <<>> /\ toTester' = <<>> /\ subscribed' = FALSE
  /\ UNCHANGED <<index, queued, calls, traps, ended, value, started, strayed, failed>>

-----------------------------------------------------------------------------
(* The broker, and the property: a set is signalled if it is a change.     *)

Result(n, ok) == [rq |-> n, ok |-> ok]
Signal == [rq |-> 0, ok |-> TRUE]

BrokerTakes ==
  /\ toBroker # <<>> /\ toBroker' = Tail(toBroker)
  /\ LET n == Head(toBroker)
         cmd == Script[started[n]].cmd
         signals == cmd = "set" /\ ~value /\ subscribed
     IN /\ subscribed' = (subscribed \/ cmd = "subscribe")
        /\ value' = (value \/ cmd = "set")
        /\ toTester' = (IF signals THEN Append(toTester, Signal) ELSE toTester)
                       \o <<Result(n, cmd = "get" => value)>>
  /\ UNCHANGED <<connected, index, queued, calls, traps, ended, started, strayed, failed, atFaults>>

BrokerRefuses ==
  /\ toBroker # <<>> /\ toBroker' = Tail(toBroker)
  /\ atFaults < MaxFaults /\ atFaults' = atFaults + 1
  /\ toTester' = Append(toTester, Result(Head(toBroker), FALSE))
  /\ UNCHANGED <<connected, index, queued, calls, traps, ended, subscribed, value, started, strayed, failed>>

(* Somebody else sets the property to something else, or to what the       *)
(* script does, perhaps from there and back.                               *)
OthersSet ==
  /\ atFaults < MaxFaults /\ atFaults' = atFaults + 1
  /\ value' \in BOOLEAN
  /\ toTester' = IF value' /\ subscribed THEN Append(toTester, Signal) ELSE toTester
  /\ UNCHANGED <<connected, index, queued, calls, traps, ended, toBroker, subscribed, started, strayed, failed>>

-----------------------------------------------------------------------------
(* on_success_fn of the steps at the places s, in order; and on_error_fn.  *)
Succeed(s) ==
  LET going == {n \in s : Script[started[n]].skip > 0} IN
  /\ index' = IF going = {} THEN index ELSE OnSuccess(started[Max(going)])
  /\ queued' = queued + Cardinality(going)
  /\ UNCHANGED failed

Fails == index' = Aborted /\ failed' = TRUE /\ UNCHANGED queued

ResultReceived ==
  /\ toTester # <<>> /\ toTester' = Tail(toTester)
  /\ LET r == Head(toTester) IN
     /\ r.rq # 0
     /\ calls' = calls \ {r.rq}
     /\ IF r.rq \notin calls THEN UNCHANGED <<index, queued, failed>>
        ELSE IF r.ok THEN Succeed({r.rq}) ELSE Fails
  /\ UNCHANGED <<connected, traps, ended, toBroker, subscribed, value, started, strayed, atFaults>>

(* The signal is the one that every trap waits for.                        *)
SignalReceived ==
  /\ toTester # <<>> /\ toTester' = Tail(toTester)
  /\ Head(toTester).rq = 0
  /\ ended' = traps
  /\ strayed' = (strayed \/ ended # {} \/ Len(started) \in traps)
  /\ Succeed(traps)
  /\ UNCHANGED <<connected, calls, traps, toBroker, subscribed, value, started, atFaults>>

(* Neither result nor signal in time; a fault if the call or the result is *)
(* on its way.  A trap waits for less than the 5 seconds of a call.        *)
OnItsWay(n) ==
  \/ \E k \in DOMAIN toBroker : toBroker[k] = n
  \/ \E k \in DOMAIN toTester : toTester[k].rq = n

Expires(n) ==
  /\ n \in calls \cup (traps \ ended)
  /\ n \in calls => \A j \in traps \ ended : j > n
  /\ calls' = calls \ {n} /\ ended' = ended \cup (traps \cap {n})
  /\ Fails
  /\ IF OnItsWay(n) THEN atFaults < MaxFaults /\ atFaults' = atFaults + 1
                    ELSE UNCHANGED atFaults
  /\ UNCHANGED <<connected, traps, toBroker, toTester, subscribed, value, started, strayed>>

Next ==
  \/ ProcessQueued \/ TrapsDeleted \/ Connect \/ Disconnect \/ BrokerTakes \/ BrokerRefuses
  \/ OthersSet \/ ResultReceived \/ SignalReceived
  \/ \E n \in DOMAIN started : Expires(n)

Spec == Init /\ [][Next]_atVars

-----------------------------------------------------------------------------
(* The steps are started in the order of the script and none twice, though *)
(* a trap and the step after it are under way together, each goes on by    *)
(* itself, the connection is lost between them and others set the          *)
(* property; unless a trap passed twice in a turn, or by somebody else's   *)
(* signal before the step that is to cause it was started.                 *)
StepsInOrder ==
  ~strayed => \A j, k \in DOMAIN started : j < k => started[j] < started[k]

(* Once a step has failed, no other is started: "abort" is the default for *)
(* an error and for a timeout.                                             *)
AbortStays == [][failed => started' = started]_atVars

=============================================================================
