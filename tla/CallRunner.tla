------------------------------ MODULE CallRunner -----------------------------
(***************************************************************************)
(* revitestdevice: the calls of a file that are made after each connection *)
(* (revitestapp.cpp), one after the other: the next one when the one       *)
(* before has passed, or at once.                                          *)
(*                                                                         *)
(* A call passes with the expected result.  A trap passes with the         *)
(* expected signal, and belongs to no connection: it waits over a loss of  *)
(* the connection until its own time is over.  It is taken away with       *)
(* deleteLater: signals that come in the same turn of the event loop pass  *)
(* it again, and its time may be over in that turn too.                    *)
(***************************************************************************)
EXTENDS Integers, Sequences, FiniteSets

CONSTANTS
  Script,      \* the calls of the file: [cmd, onExec, onSuccess]
  MaxSessions  \* bound: connections

Steps == DOMAIN Script

CallRunnerAssumption ==
  /\ MaxSessions \in Nat
  /\ \A k \in Steps : /\ Script[k].cmd \in {"call", "sigTrap"}
                      /\ {Script[k].onExec, Script[k].onSuccess} \subseteq BOOLEAN

VARIABLES
  up, session,   \* isBrokerConnected, and which connection it is
  shvCalls,      \* m_shvCalls: the steps to come
  waiting,       \* calls and traps under way: [step, session]
  ended,         \* those of the traps that go at the end of this turn
  started, passed,  \* history: the steps of this connection that started, that passed
  strayed        \* history: in this connection, a trap of a former one passed, or one passed again

crVars == <<up, session, shvCalls, waiting, ended, started, passed, strayed>>

TypeOK ==
  /\ {up, strayed} \subseteq BOOLEAN /\ session \in 0 .. MaxSessions
  /\ shvCalls \in Seq(Steps) /\ waiting \subseteq [step : Steps, session : 1 .. MaxSessions]
  /\ ended \subseteq {w \in waiting : Script[w.step].cmd = "sigTrap"}
  /\ {started, passed} \subseteq SUBSET Steps

Init ==
  /\ up = FALSE /\ session = 0 /\ shvCalls = <<>> /\ waiting = {} /\ ended = {}
  /\ started = {} /\ passed = {} /\ strayed = FALSE

(* How many steps of the queue q a call of processShvCalls starts: up to   *)
(* the first one that is to be waited for.                                 *)
Waits(q) == {k \in DOMAIN q : ~Script[q[k]].onExec}
Batch(q) == IF Waits(q) = {} THEN Len(q) ELSE CHOOSE k \in Waits(q) : \A l \in Waits(q) : k <= l

(* processShvCalls with the queue q, when others are waiting and were      *)
(* started already.  It would drop the queue without a connection, but     *)
(* nothing passes then.                                                    *)
ProcessShvCalls(q, others, already) ==
  LET first == {q[k] : k \in 1 .. Batch(q)}
  IN  /\ shvCalls' = SubSeq(q, Batch(q) + 1, Len(q))
      /\ waiting' = others \cup {[step |-> k, session |-> session'] : k \in first}
      /\ started' = already \cup first

(* onBrokerConnectedChanged: the list of the file replaces what was left.  *)
BrokerConnected ==
  /\ ~up /\ session < MaxSessions
  /\ up' = TRUE /\ session' = session + 1
  /\ ProcessShvCalls([k \in Steps |-> k], waiting, {})
  /\ passed' = {} /\ strayed' = FALSE
  /\ UNCHANGED ended

BrokerDisconnected ==
  /\ up /\ up' = FALSE
  /\ UNCHANGED <<session, shvCalls, waiting, ended, started, passed, strayed>>

(* The answer of a call of this connection, or a signal for any trap.      *)
Hears(w) == up /\ (w.session = session \/ Script[w.step].cmd = "sigTrap")

(* A call is taken away when it passes or fails, a trap at the end of the  *)
(* turn.                                                                   *)
Kept(w) == IF Script[w.step].cmd = "sigTrap" THEN waiting ELSE waiting \ {w}
Ending(w) == IF Script[w.step].cmd = "sigTrap" THEN ended \cup {w} ELSE ended

Pass(w) ==
  /\ Hears(w)
  /\ passed' = IF w.session = session THEN passed \cup {w.step} ELSE passed
  /\ strayed' = (strayed \/ w.session # session \/ w.step \in passed)
  /\ ended' = Ending(w)
  /\ UNCHANGED <<up, session>>
  /\ IF Script[w.step].onSuccess THEN ProcessShvCalls(shvCalls, Kept(w), started)
     ELSE waiting' = Kept(w) /\ UNCHANGED <<shvCalls, started>>

(* A wrong result, an error, or nothing in time.                           *)
Fail(w) ==
  /\ w \notin ended
  /\ waiting' = Kept(w) /\ ended' = Ending(w)
  /\ UNCHANGED <<up, session, shvCalls, started, passed, strayed>>

EndOfTurn ==
  /\ ended # {} /\ ended' = {} /\ waiting' = waiting \ ended
  /\ UNCHANGED <<up, session, shvCalls, started, passed, strayed>>

Next == BrokerConnected \/ BrokerDisconnected \/ EndOfTurn \/ \E w \in waiting : Pass(w) \/ Fail(w)

Spec == Init /\ [][Next]_crVars

(* In a file whose steps go on either at once or with success, never both, *)
(* a step has started only if the one before it goes on at once or has     *)
(* passed, unless a trap of an earlier connection went off in this one or  *)
(* a trap passed twice in a turn.                                          *)
CallsInTurn ==
  ~strayed => \A k \in started \ {1} :
    IF Script[k - 1].onExec THEN k - 1 \in started
    ELSE k - 1 \in passed /\ Script[k - 1].onSuccess
=============================================================================
