----------------------------- MODULE StatusTree ------------------------------
(***************************************************************************)
(* hscope-old: a tree of nodes with a status each, from the brokers down   *)
(* to the tests of an agent (hnode.cpp, hnodebroker.cpp, hnodeagent.cpp,   *)
(* hnodetest.cpp).  Every node shows the worst status at or below it.      *)
(* Tests are scripts the agent runs: the hash is sent first, the script    *)
(* only if the agent does not know it.                                     *)
(*                                                                         *)
(* One broker with one agent.  A call is answered by the agent, answered   *)
(* by the broker with an error, or lost until its callback expires.        *)
(***************************************************************************)
EXTENDS Integers, FiniteSets, FiniteSetsExt

CONSTANTS
  Tests,       \* the tests of the agent, strings
  Periodic,    \* those with runEvery
  MaxFaults,   \* bound: lost connections, unmounts and lost answers
  MaxReloads,  \* bound: changes of the configuration and reloads
  MaxRuns      \* bound: runs of a test, or checks, on their way at a time

(* enum class Level: the worst is the least.                               *)
Error == 0
Warning == 1
Ok == 2
Disabled == 3
Unknown == 4

(* fromRpcValue of the value in what a script prints: a number is a level, *)
(* a word begins with the number or the letter of one, and there the least *)
(* number is Ok.                                                           *)
FromRpcValue(printed) ==
  LET v == printed.value
  IN CASE printed.type = "int" -> v
       [] printed.type = "string" /\ v \in {"0", "o", "O"} -> Ok
       [] printed.type = "string" /\ v \in {"1", "w", "W"} -> Warning
       [] printed.type = "string" /\ v \in {"2", "e", "E"} -> Error
       [] OTHER -> Unknown

CONSTANT Printed  \* the type and the value, or its first letter, that the script of a test prints

Result == [t \in Tests |-> FromRpcValue(Printed[t])]

StatusTreeAssumption ==
  /\ Tests \cap {"brokers", "broker", "agents", "agent", "tests"} = {}
  /\ Periodic \subseteq Tests /\ Result \in [Tests -> Error .. Unknown]
  /\ MaxFaults \in Nat /\ MaxReloads \in Nat /\ MaxRuns \in Nat \ {0}

Nodes == {"brokers", "broker", "agents", "agent", "tests"} \cup Tests

Parent(n) ==
  CASE n = "broker" -> "brokers" [] n = "agents" -> "broker" [] n = "agent" -> "agents"
    [] n = "tests" -> "agent" [] OTHER -> "tests"

VARIABLES
  connected,  \* the connection of the broker node
  up,         \* is the agent mounted at the broker?
  known,      \* the scripts in the cache of the agent
  status, overall,
  disabled,   \* the nodes whose configuration says disabled
  idle,       \* the tests with m_disabled
  loaded,     \* do the tests exist?
  fresh,      \* tests whose first run is queued
  ran,        \* tests with m_runCount > 0
  calls,      \* how many calls of a kind are on their way
  stFaults, reloads

vars == <<connected, up, known, status, overall, disabled, idle, loaded, fresh, ran, calls,
          stFaults, reloads>>

(* A check or a subscription of the agent node, or a run of a test with    *)
(* its hash or its script, and who answers it.                             *)
Check == <<"agent", "check">>
Subscribe == <<"agent", "subscribe">>
Calls == ({Check, Subscribe} \cup (Tests \X {"hash", "script"})) \X {"agent", "broker", "nobody"}

(* Tests that were not loaded count as Unknown, which changes nothing.     *)
Children(n) == {c \in Nodes \ {"brokers"} : Parent(c) = n}

-----------------------------------------------------------------------------
(* HNode.                                                                  *)

(* updateOverallStatus: a disabled node does not look at its children.     *)
Worst(st, ov, n) ==
  IF n \in disabled THEN st[n] ELSE Min({st[n], Unknown} \cup {ov[c] : c \in Children(n)})

(* A level that the parent is not told yet.                                *)
NodeUpdated(st, ov, n) == [ov EXCEPT ![n] = Worst(st, ov, n)]

(* setOverallStatus: a change is told to the parent.                       *)
Updated(st, ov0, n0) ==
  LET told[x \in Nodes \X [Nodes -> Error .. Unknown]] ==
        LET n == x[1]
            new == NodeUpdated(st, x[2], n)
        IN IF new[n] = x[2][n] THEN x[2]
           ELSE IF n = "brokers" THEN new ELSE told[<<Parent(n), new>>]
  IN told[<<n0, ov0>>]

(* setStatus: only a change of the level counts.                           *)
SetStatus(n, level) ==
  /\ status' = [status EXCEPT ![n] = level]
  /\ overall' = IF level = status[n] THEN overall ELSE Updated(status', overall, n)

-----------------------------------------------------------------------------
(* Calls.                                                                  *)

By == IF up THEN "agent" ELSE "broker"

(* Every member of the set S is called once more.                          *)
Called(cs, S) ==
  [c \in Calls |-> IF c \in {<<s, By>> : s \in S} THEN cs[c] + 1 ELSE cs[c]]

Done(c) == [calls EXCEPT ![c] = @ - 1]

(* All that wait for an answer of Who wait in vain.                        *)
Lost(cs, Who) ==
  LET vain(s) == (IF "agent" \in Who THEN cs[<<s, "agent">>] ELSE 0)
                 + (IF "broker" \in Who THEN cs[<<s, "broker">>] ELSE 0)
  IN  [c \in Calls |-> IF c[2] = "nobody" THEN cs[c] + vain(c[1]) ELSE IF c[2] \in Who THEN 0 ELSE cs[c]]

OnItsWay(S) == MapThenSumSet(LAMBDA c : calls[c], {c \in Calls : c[1] \in S})
Runs(t) == {<<t, "hash">>, <<t, "script">>}
HashesOf(S) == {<<t, "hash">> : t \in S}

Existing == IF loaded THEN Tests ELSE {}

Init ==
  /\ connected = FALSE /\ up \in BOOLEAN /\ known = {}
  /\ disabled \in SUBSET ({"agent"} \cup Tests)
  /\ loaded = ("agent" \notin disabled)
  /\ idle = IF loaded THEN disabled \cap Tests ELSE {}
  /\ status = [n \in Nodes |-> IF n = "agent" /\ ~loaded THEN Disabled
                               ELSE IF n \in idle THEN Ok ELSE Unknown]
  /\ overall = [n \in Nodes |->
       IF n \in Tests \/ (n = "tests" /\ ~loaded) THEN status[n]
       ELSE Min({status[m] : m \in Nodes})]
  /\ fresh = Existing \ idle /\ ran = {}
  /\ calls = [c \in Calls |-> 0]
  /\ stFaults = 0 /\ reloads = 0

(* The agent node subscribes and checks, the tests that did not run yet    *)
(* run.                                                                    *)
Connect ==
  /\ ~connected
  /\ connected' = TRUE
  /\ SetStatus("broker", Ok)
  /\ LET first == Existing \ (idle \cup ran)
     IN /\ calls' = Called(calls, HashesOf(first)
                                  \cup (IF "agent" \in disabled THEN {} ELSE {Check, Subscribe}))
        /\ ran' = ran \cup first
  /\ UNCHANGED <<up, known, disabled, idle, loaded, fresh, stFaults, reloads>>

ConnectionLost ==
  /\ connected /\ stFaults < MaxFaults
  /\ connected' = FALSE
  /\ calls' = Lost(calls, {"agent", "broker"})
  /\ stFaults' = stFaults + 1
  /\ UNCHANGED <<up, known, status, overall, disabled, idle, loaded, fresh, ran, reloads>>

ConnectionError ==
  /\ ~connected
  /\ SetStatus("broker", Error)
  /\ UNCHANGED <<connected, up, known, disabled, idle, loaded, fresh, ran, calls, stFaults, reloads>>

(* onParentBrokerRpcMessageReceived: mntchng of the agent.                 *)
AgentMounted ==
  /\ ~up /\ up' = TRUE
  /\ calls' = IF connected /\ "agent" \notin disabled
              THEN [calls EXCEPT ![<<Check, "agent">>] = @ + 1] ELSE calls
  /\ UNCHANGED <<connected, known, status, overall, disabled, idle, loaded, fresh, ran, stFaults,
                 reloads>>

AgentUnmounted ==
  /\ up /\ stFaults < MaxFaults
  /\ up' = FALSE /\ known' = {}
  /\ calls' = Lost(calls, {"agent"})
  /\ IF connected THEN SetStatus("agent", Error) ELSE UNCHANGED <<status, overall>>
  /\ stFaults' = stFaults + 1
  /\ UNCHANGED <<connected, disabled, idle, loaded, fresh, ran, reloads>>

(* checkAgentConnected, by its timer.                                      *)
CheckAgent ==
  /\ connected /\ "agent" \notin disabled /\ OnItsWay({Check}) < MaxRuns
  /\ calls' = Called(calls, {Check})
  /\ UNCHANGED <<connected, up, known, status, overall, disabled, idle, loaded, fresh, ran,
                 stFaults, reloads>>

(* The agent answers the check: if it was not connected before, all tests  *)
(* run, the disabled ones too.                                             *)
CheckAnswered ==
  /\ calls[<<Check, "agent">>] > 0
  /\ SetStatus("agent", Ok)
  /\ LET again == IF status["agent"] # Ok THEN Existing ELSE {}
     IN /\ calls' = Called(Done(<<Check, "agent">>), HashesOf(again))
        /\ ran' = ran \cup again
  /\ UNCHANGED <<connected, up, known, disabled, idle, loaded, fresh, stFaults, reloads>>

(* An error or nothing at all is the answer to the check; nothing to the   *)
(* subscription, which the broker does not refuse.                         *)
AgentCallFails ==
  /\ \E c \in {<<Check, "broker">>, <<Check, "nobody">>, <<Subscribe, "nobody">>} :
       /\ calls[c] > 0
       /\ calls' = Done(c)
  /\ SetStatus("agent", Error)
  /\ UNCHANGED <<connected, up, known, disabled, idle, loaded, fresh, ran, stFaults, reloads>>

Subscribed ==
  /\ \E w \in {"agent", "broker"} :
       /\ calls[<<Subscribe, w>>] > 0
       /\ calls' = Done(<<Subscribe, w>>)
  /\ UNCHANGED <<connected, up, known, status, overall, disabled, idle, loaded, fresh, ran,
                 stFaults, reloads>>

-----------------------------------------------------------------------------
(* Tests.                                                                  *)

(* runTest of t, if there is a connection.                                 *)
RunTest(t) ==
  /\ connected /\ t \in Existing
  /\ calls' = Called(calls, {<<t, "hash">>})
  /\ ran' = ran \cup {t}

(* runTestFirstTime, queued by load: not if the test is disabled or has    *)
(* run since.                                                              *)
RunTestFirstTime(t) ==
  /\ t \in fresh
  /\ fresh' = fresh \ {t}
  /\ IF connected /\ t \notin idle \cup ran THEN RunTest(t) ELSE UNCHANGED <<calls, ran>>
  /\ UNCHANGED <<connected, up, known, status, overall, disabled, idle, loaded, stFaults, reloads>>

RunAgain(t) ==
  /\ OnItsWay(Runs(t)) < MaxRuns
  /\ RunTest(t)
  /\ UNCHANGED <<connected, up, known, status, overall, disabled, idle, loaded, fresh, stFaults,
                 reloads>>

(* The run timer of t, which a disabled test does not have.                *)
RunTimer(t) == t \in Periodic \ idle /\ RunAgain(t)

(* The method runTest of t, disabled or not.                               *)
RunByHand(t) == RunAgain(t)

(* A hash the agent does not know: the script is sent.                     *)
NotInCache(t) ==
  /\ calls[<<<<t, "hash">>, "agent">>] > 0 /\ t \notin known
  /\ calls' = Called(Done(<<<<t, "hash">>, "agent">>), {<<t, "script">>})
  /\ UNCHANGED <<connected, up, known, status, overall, disabled, idle, loaded, fresh, ran,
                 stFaults, reloads>>

TestAnswered(t) ==
  /\ \E s \in {"hash", "script"} :
       /\ calls[<<<<t, s>>, "agent">>] > 0 /\ (s = "hash" => t \in known)
       /\ calls' = Done(<<<<t, s>>, "agent">>)
  /\ known' = known \cup {t}
  /\ SetStatus(t, Result[t])
  /\ UNCHANGED <<connected, up, disabled, idle, loaded, fresh, ran, stFaults, reloads>>

(* An error of the broker, or no answer in 20 seconds.                     *)
TestFails(t) ==
  /\ \E c \in Runs(t) \X {"broker", "nobody"} : calls[c] > 0 /\ calls' = Done(c)
  /\ SetStatus(t, Error)
  /\ UNCHANGED <<connected, up, known, disabled, idle, loaded, fresh, ran, stFaults, reloads>>

(* The agent does not answer a call in time.                               *)
AnswerLost ==
  /\ stFaults < MaxFaults
  /\ \E c \in Calls : /\ c[2] = "agent" /\ calls[c] > 0
                      /\ calls' = [calls EXCEPT ![c] = @ - 1, ![<<c[1], "nobody">>] = @ + 1]
  /\ stFaults' = stFaults + 1
  /\ UNCHANGED <<connected, up, known, status, overall, disabled, idle, loaded, fresh, ran, reloads>>

-----------------------------------------------------------------------------
(* Configuration.                                                          *)

(* The configuration of n says the opposite from now on.                   *)
Configure(n) ==
  /\ reloads < MaxReloads
  /\ disabled' = IF n \in disabled THEN disabled \ {n} ELSE disabled \cup {n}
  /\ reloads' = reloads + 1
  /\ UNCHANGED <<connected, up, known, status, overall, idle, loaded, fresh, ran, calls, stFaults>>

(* reload of a test: load.                                                 *)
ReloadTest(t) ==
  /\ reloads < MaxReloads /\ t \in Existing
  /\ ran' = ran \ {t}
  /\ idle' = IF t \in disabled THEN idle \cup {t} ELSE idle \ {t}
  /\ fresh' = IF t \in disabled THEN fresh ELSE fresh \cup {t}
  /\ IF t \in disabled THEN SetStatus(t, Ok) ELSE UNCHANGED <<status, overall>>
  /\ reloads' = reloads + 1
  /\ UNCHANGED <<connected, up, known, disabled, loaded, calls, stFaults>>

(* reload of the agent: its tests are deleted with their calls, and made   *)
(* anew unless it is disabled.  A disabled test reports Ok when it is      *)
(* loaded.                                                                 *)
ReloadAgent ==
  /\ reloads < MaxReloads
  /\ reloads' = reloads + 1
  /\ loaded' = ("agent" \notin disabled)
  /\ idle' = IF loaded' THEN disabled \cap Tests ELSE {}
  /\ fresh' = IF loaded' THEN Tests \ disabled ELSE {}
  /\ ran' = {}
  /\ calls' = [c \in Calls |-> IF c[1] \in {Check, Subscribe} THEN calls[c] ELSE 0]
  /\ LET st == [n \in Nodes |-> IF n \in idle' THEN Ok ELSE IF n \in Tests \cup {"tests"} THEN Unknown
                                ELSE IF n = "agent" /\ ~loaded' THEN Disabled ELSE status[n]]
         anew == [n \in Nodes |-> IF n \in Tests THEN st[n]
                                  ELSE IF n = "tests" THEN Min({Unknown} \cup {st[t] : t \in idle'})
                                  ELSE overall[n]]
     IN /\ status' = st
        /\ overall' = IF st["agent"] # status["agent"] \/ anew["tests"] # Unknown
                      THEN Updated(st, anew, "agent") ELSE anew
  /\ UNCHANGED <<connected, up, known, disabled, stFaults>>

Next ==
  \/ Connect \/ ConnectionLost \/ ConnectionError
  \/ AgentMounted \/ AgentUnmounted
  \/ CheckAgent \/ CheckAnswered \/ AgentCallFails \/ Subscribed \/ AnswerLost
  \/ \E t \in Tests :
       \/ RunTestFirstTime(t) \/ RunTimer(t) \/ RunByHand(t) \/ NotInCache(t) \/ TestAnswered(t) \/ TestFails(t)
       \/ ReloadTest(t)
  \/ \E n \in {"agent"} \cup Tests : Configure(n)
  \/ ReloadAgent

Spec == Init /\ [][Next]_vars

-----------------------------------------------------------------------------
TypeOK ==
  /\ connected \in BOOLEAN /\ up \in BOOLEAN /\ loaded \in BOOLEAN
  /\ known \subseteq Tests /\ idle \subseteq Tests /\ fresh \subseteq Tests /\ ran \subseteq Tests
  /\ status \in [Nodes -> Error..Unknown] /\ overall \in [Nodes -> Error..Unknown]
  /\ calls \in [Calls -> Nat]

(* Every node shows the worst status at or below it, however the answers   *)
(* and signals come, as long as nothing was reloaded or configured: then   *)
(* a node may show a child that is gone, until a status changes.           *)
OverallIsWorst ==
  reloads = 0 => \A n \in Nodes : overall[n] = Worst(status, overall, n)

(* While the connection is open, every test that is not disabled has run   *)
(* since it was loaded, or its first run is queued: it waits for no timer. *)
FirstRunsDone == connected => Existing \ (idle \cup ran) \subseteq fresh

=============================================================================
