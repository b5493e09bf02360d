------------------------------ MODULE HolyScope ------------------------------
(***************************************************************************)
(* hscope: scripts in Lua test a remote agent and set the status of their  *)
(* nodes (hscopeapp.cpp, hscopenode.cpp).  Scripts register handlers in    *)
(* tables of the Lua registry: for a new connection, for the end of the    *)
(* initialisation, for answers, signals and timers.  All handlers share    *)
(* one Lua stack, and most address its elements from the bottom.           *)
(*                                                                         *)
(* A script tests as those of etc/shv/lua-lib do: it calls the agent, and  *)
(* the answer makes the status.                                            *)
(***************************************************************************)
EXTENDS Integers, Sequences, FiniteSets, SequencesExt, FiniteSetsExt

CONSTANTS
  Dirs,       \* the directories below instances, as sequences of names
  Script,     \* what the hscope.lua of a directory does, see ScriptOf
  MaxConnects,\* bound: connections
  MaxMounts,  \* bound: how often the agent comes or goes
  MaxQueue    \* bound: messages on their way

(* result: what evaluating the file comes to; watches: a handler for new   *)
(* connections subscribes mntchng of the agent and tests on it; firstRun:  *)
(* a test when initialised; timer: none, one that tests, or one that       *)
(* subscribes, which is an error while there is no connection.             *)
ScriptOf == [result : {"none", "error", "nothing", "tester"}, watches : BOOLEAN,
             firstRun : BOOLEAN, timer : {"none", "tests", "subscribes"}]

HolyScopeAssumption ==
  /\ IsFiniteSet(Dirs) /\ Script \in [Dirs -> ScriptOf]
  /\ MaxConnects \in Nat /\ MaxMounts \in Nat /\ MaxQueue \in Nat

VARIABLES
  running,    \* the process lives
  connected,  \* m_isBrokerConnected
  up,         \* is the agent mounted at the broker?
  callbacks,  \* registry.subscribe_callbacks, as the scripts they belong to
  subscribed, \* does the broker know a subscription of this connection?
  asked,      \* scripts whose calls the agent has to answer
  inbox,      \* messages from the broker, in order
  lost,       \* registry.rpc_call_handlers whose answers will not come
  stack,      \* the tables handlers have left on the Lua stack
  status,     \* the status node of each tester
  connects, mounts

vars == <<running, connected, up, callbacks, subscribed, asked, inbox, lost, stack, status,
          connects, mounts>>

(* resolveConfTree: every directory is entered but those called status and *)
(* what is below; a file that cannot be evaluated or returns nothing has   *)
(* registered its handlers but has no tester.                              *)
Nodes == {d \in Dirs : "status" \notin ToSet(d)}
Evaluated == {d \in Nodes : Script[d].result # "none"}
Testers == {d \in Nodes : Script[d].result = "tester"}
Watchers == {d \in Evaluated : Script[d].watches}
Timers == {d \in Evaluated : Script[d].timer # "none"}

Init ==
  /\ running = TRUE /\ connected = FALSE
  /\ up \in BOOLEAN
  /\ callbacks = <<>> /\ subscribed = FALSE
  /\ asked = <<>> /\ inbox = <<>> /\ lost = {} /\ stack = 0
  /\ status = [d \in Testers |-> "unknown"]
  /\ connects = 0 /\ mounts = 0

Answer(d, ok) == [kind |-> "answer", script |-> d, ok |-> ok]
Mntchng == [kind |-> "mntchng"]

(* rpc_call of the scripts S from their tests: the broker answers itself   *)
(* for an agent that is not there.                                         *)
Called(S, in) ==
  IF up THEN asked' = asked \o SetToSeq(S) /\ inbox' = in
  ELSE asked' = asked /\ inbox' = in \o SetToSeq({Answer(d, FALSE) : d \in S})

(* Mutant: the handlers run for the first connection only.                 *)
HandlersRunOnce ==
  IF connects = 0
  THEN /\ callbacks' = callbacks \o SetToSeq(Watchers)
       /\ subscribed' = (Watchers # {})
       /\ Called(Testers \cup {d \in Evaluated : Script[d].firstRun}, <<>>)
  ELSE UNCHANGED <<callbacks, subscribed, asked, inbox>>

(* call_each_of_registry_table, three times: for the new connection, which *)
(* adds to the callbacks there are, all testers, and for the end of the    *)
(* initialisation.                                                         *)
HandlersRun ==
  /\ callbacks' = callbacks \o SetToSeq(Watchers)
  /\ subscribed' = (Watchers # {})
  /\ Called(Testers \cup {d \in Evaluated : Script[d].firstRun}, <<>>)

Connect ==
  /\ running /\ ~connected /\ connects < MaxConnects
  /\ connected' = TRUE
  /\ HandlersRun
  /\ connects' = connects + 1
  /\ UNCHANGED <<running, up, lost, stack, status, mounts>>

(* onBrokerConnectedChanged does nothing; answers on their way never come. *)
Disconnect ==
  /\ connected
  /\ connected' = FALSE /\ subscribed' = FALSE
  /\ lost' = lost \cup ToSet(asked) \cup {m.script : m \in {x \in ToSet(inbox) : x.kind = "answer"}}
  /\ asked' = <<>> /\ inbox' = <<>>
  /\ UNCHANGED <<running, up, callbacks, stack, status, connects, mounts>>

(* The agent comes or goes; calls it has not answered are lost.            *)
AgentMoves ==
  /\ mounts < MaxMounts /\ Len(inbox) < MaxQueue
  /\ up' = ~up
  /\ inbox' = IF connected /\ subscribed THEN Append(inbox, Mntchng) ELSE inbox
  /\ lost' = IF up THEN lost \cup ToSet(asked) ELSE lost
  /\ asked' = IF up THEN <<>> ELSE asked
  /\ mounts' = mounts + 1
  /\ UNCHANGED <<running, connected, callbacks, subscribed, stack, status, connects>>

AgentAnswers ==
  /\ asked # <<>> /\ Len(inbox) < MaxQueue
  /\ inbox' = Append(inbox, Answer(Head(asked), TRUE))
  /\ asked' = Tail(asked)
  /\ UNCHANGED <<running, connected, up, callbacks, subscribed, lost, stack, status, connects,
                 mounts>>

(* The callback of a test calls set_status, which nodes without a tester   *)
(* ignore.                                                                 *)
SetStatus(d, ok) ==
  status' = IF d \in Testers THEN [status EXCEPT ![d] = IF ok THEN "ok" ELSE "error"] ELSE status

(* onRpcMessageReceived, a response: with a table left on the stack it is  *)
(* looked up in that one, and what is found there is not a handler.        *)
ResponseReceived ==
  /\ inbox # <<>> /\ Head(inbox).kind = "answer"
  /\ inbox' = Tail(inbox)
  /\ IF stack = 0 THEN SetStatus(Head(inbox).script, Head(inbox).ok) ELSE UNCHANGED status
  /\ UNCHANGED <<running, connected, up, callbacks, subscribed, asked, lost, stack, connects,
                 mounts>>

(* A signal: every callback whose path fits tests again.  With a table     *)
(* left on the stack lua_getfield meets a number instead of an entry, an   *)
(* error that nothing protects from: the process aborts.                   *)
SignalReceived ==
  /\ inbox # <<>> /\ Head(inbox).kind = "mntchng"
  /\ \/ /\ stack = 0
        /\ Called(ToSet(callbacks), Tail(inbox))
        /\ UNCHANGED <<running, connected, subscribed, lost>>
     \/ /\ stack > 0
        /\ running' = FALSE /\ connected' = FALSE /\ subscribed' = FALSE
        /\ asked' = <<>> /\ inbox' = <<>> /\ lost' = {}
  /\ UNCHANGED <<up, callbacks, stack, status, connects, mounts>>

(* addTimer: an error of the callback leaves registry.timers on the stack. *)
TimerFires(d) ==
  /\ running /\ Len(inbox) + Len(asked) < MaxQueue
  /\ \/ /\ Script[d].timer = "tests"
        /\ IF connected THEN Called({d}, inbox) /\ UNCHANGED lost
           ELSE lost' = lost \cup {d} /\ UNCHANGED <<asked, inbox>>
        /\ UNCHANGED <<callbacks, subscribed, stack>>
     \/ /\ Script[d].timer = "subscribes" /\ connected /\ Len(callbacks) < MaxQueue
        /\ callbacks' = Append(callbacks, d) /\ subscribed' = TRUE
        /\ UNCHANGED <<asked, inbox, lost, stack>>
     \/ /\ Script[d].timer = "subscribes" /\ ~connected /\ stack < MaxQueue
        /\ stack' = stack + 1
        /\ UNCHANGED <<callbacks, subscribed, asked, inbox, lost>>
  /\ UNCHANGED <<running, connected, up, status, connects, mounts>>

(* The method run of a node with a tester.                                 *)
Run(d) ==
  /\ connected /\ Len(inbox) + Len(asked) < MaxQueue
  /\ Called({d}, inbox)
  /\ UNCHANGED <<running, connected, up, callbacks, subscribed, lost, stack, status, connects,
                 mounts>>

Next ==
  \/ Connect \/ Disconnect \/ AgentMoves \/ AgentAnswers
  \/ ResponseReceived \/ SignalReceived
  \/ \E d \in Timers : TimerFires(d)
  \/ \E d \in Testers : Run(d)

Spec == Init /\ [][Next]_vars

(* Messages are delivered and the agent answers; timers and run calls are  *)
(* not relied upon.                                                        *)
Fairness ==
  /\ WF_vars(Connect) /\ WF_vars(AgentAnswers)
  /\ WF_vars(ResponseReceived) /\ WF_vars(SignalReceived)

FairSpec == Spec /\ Fairness

-----------------------------------------------------------------------------
TypeOK ==
  /\ running \in BOOLEAN /\ connected \in BOOLEAN /\ up \in BOOLEAN /\ subscribed \in BOOLEAN
  /\ callbacks \in Seq(Evaluated) /\ asked \in Seq(Evaluated)
  /\ lost \subseteq Evaluated /\ stack \in Nat
  /\ status \in [Testers -> {"unknown", "ok", "error"}]

(* The status of a test that watches its agent tells whether the agent is  *)
(* there, without waiting for a timer: a new connection subscribes and     *)
(* tests again whatever the old one has lost, and a mount or unmount meets *)
(* a subscription or a test that is still to be answered; but for a timer  *)
(* whose callback has failed, see StackEmpty.                              *)
StatusFollows ==
  <>[](connected /\ stack = 0) =>
    <>[](\A d \in Testers \cap Watchers : status[d] = IF up THEN "ok" ELSE "error")

(* Between two handlers the Lua stack is empty: "<empty stack>" is what    *)
(* the comment at the end of addTimer's handler says, and what the         *)
(* handlers of answers and signals count on.  It does not hold: the pop    *)
(* takes the error of a callback that fails and leaves the table.          *)
StackEmpty == stack = 0

=============================================================================
