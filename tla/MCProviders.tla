---------------------------- MODULE MCProviders -----------------------------
(* shvsitesprovider (SitesProvider, SitesReader) and the other programs    *)
(* that serve or run something: shvbrclabprovider, shvagent, shvrexec,     *)
(* revitestdevice, shv2mqtt, hscope.  They share no state: a behaviour is  *)
(* one of a part, and the others stay as they are.  The properties contain *)
(* the type invariants of their modules.                                   *)
EXTENDS SitesProvider, TLC

CONSTANTS
  LabUsers, LabPasswords, LabFaults,  \* of BrclabUsers
  MqttTopics, MqttChanges, MqttFaults, MqttRoom,  \* of MqttBridge
  AgentRequests, AgentCalls,          \* of AgentCommands
  PtyRoom, ShellBytes, ShellChunk     \* of ShellProcess

VARIABLES
  part,
  dirs, files, meta, todo, found, errors,
  file, readable, buUp, values, acked, tried, bad,
  value, published, mbUp, mbSubscribed, mbCalls, mqtt, wire, missed, mbFaults,
  atConnected, index, queued, calls, traps, atEnded, toBroker, toTester, atSubscribed, atValue,
  atStarted, atStrayed, failed, atFaults,
  crUp, session, shvCalls, waiting, ended, started, passed, strayed,
  call, process, responses, script, launched, running,
  kind, proc, typed, stdin, fed, hole, dropped, wrote, unread, sent, up, app,
  scopeRunning, connected, agentUp, callbacks, subscribed, asked, inbox, lost, stack, status,
  connects, mounts

(* SitesProvider: two sites, of which one gets files and the other goes; a *)
(* version whose entry "b" is a file; a template that is not merged.       *)
MCPaths == {
  <<"a">>, <<"a", "_meta.json">>, <<"a", "_files">>, <<"a", "_files", "x">>,
  <<"b">>, <<"b", "_meta.json">>,
  <<"_template">>, <<"_template", "_meta.json">>}

With(t) == t @@ Nothing

MCRepos == <<
  With(<<"a">> :> Dir @@ <<"a", "_meta.json">> :> "old" @@ <<"b">> :> Dir @@ <<"b", "_meta.json">> :> "old"),
  With(<<"a">> :> Dir @@ <<"a", "_meta.json">> :> "new" @@ <<"a", "_files">> :> Dir @@ <<"a", "_files", "x">> :> "new"
       @@ <<"_template">> :> Dir @@ <<"_template", "_meta.json">> :> "new"),
  With(<<"a">> :> Dir @@ <<"a", "_meta.json">> :> "new" @@ <<"b">> :> "new")>>

MCLocals == {
  Nothing,
  With(<<"a">> :> Dir @@ <<"a", "_files">> :> Dir @@ <<"a", "_files", "x">> :> "own" @@ <<"_template">> :> Dir)}

(* SitesReader: a site with files, and a directory that hides its meta.    *)
R == INSTANCE SitesReader WITH
  Dirs <- {<<>>, <<"a">>, <<"a", "b">>, <<"a", "_files">>, <<"a", "_metal">>},
  Files <- {<<"readme">>, <<"a", "_files", "f">>, <<"a", "_metal", "g">>},
  Metas <- {{<<>>}, {<<>>, <<"x">>, <<"x", "y">>, <<"type">>}}

B == INSTANCE BrclabUsers WITH
  Users <- LabUsers, Passwords <- LabPasswords, MaxBad <- LabFaults, up <- buUp

M == INSTANCE MqttBridge WITH
  Topics <- MqttTopics, MaxValue <- MqttChanges, MaxFaults <- MqttFaults, MaxWire <- MqttRoom,
  up <- mbUp, subscribed <- mbSubscribed, calls <- mbCalls, faults <- mbFaults

(* AgentTester: a trap, the call that sets it off, and ordinary steps.     *)
Step(cmd, skip) == [cmd |-> cmd, skip |-> skip]

T == INSTANCE AgentTester WITH
  Script <- <<Step("subscribe", 1), Step("sigTrap", 2), Step("set", 0),
              Step("get", 1), Step("get", 1), Step("get", 1)>>,
  MaxFaults <- 2,
  connected <- atConnected, subscribed <- atSubscribed, value <- atValue, started <- atStarted,
  ended <- atEnded, strayed <- atStrayed

(* CallRunner: traps that go on at once and traps that wait.               *)
Do(cmd, onExec, onSuccess) == [cmd |-> cmd, onExec |-> onExec, onSuccess |-> onSuccess]

C == INSTANCE CallRunner WITH
  Script <- <<Do("call", FALSE, TRUE), Do("sigTrap", TRUE, FALSE), Do("call", FALSE, TRUE),
              Do("sigTrap", FALSE, TRUE), Do("call", FALSE, TRUE)>>,
  MaxSessions <- 2, up <- crUp

(* AgentCommands: requests of four kinds.                                   *)
Request(method, params) == [method |-> method, params |-> params]

Commands == {
  Request("runCmd", <<"stdout", "string", "stderr", "stdout">>), Request("runCmd", <<"string", "other">>),
  Request("runScript", <<"string", "args", "stdout">>), Request("runSHA1", <<"string">>)}

A == INSTANCE AgentCommands WITH Requests <- AgentRequests, Calls <- AgentCalls

S == INSTANCE ShellProcess WITH
  PtySize <- PtyRoom, MaxBytes <- ShellBytes, MaxChunk <- ShellChunk

ASSUME ProvidersAssumption == M!MqttBridgeAssumption /\ S!ShellProcessAssumption

(* HolyScope: a directory without a test, whose timer subscribes; a test   *)
(* with a timer; and a directory named status, which is not entered.       *)
Lua(result, watches, firstRun, timer) ==
  [result |-> result, watches |-> watches, firstRun |-> firstRun, timer |-> timer]

H == INSTANCE HolyScope WITH
  Dirs <- {<<"a">>, <<"a", "b">>, <<"status">>},
  Script <- (<<"a">> :> Lua("nothing", TRUE, TRUE, "subscribes"))
            @@ (<<"a", "b">> :> Lua("tester", TRUE, FALSE, "tests"))
            @@ (<<"status">> :> Lua("tester", TRUE, FALSE, "tests")),
  MaxConnects <- 3, MaxMounts <- 2, MaxQueue <- 4,
  running <- scopeRunning, up <- agentUp

rVars == <<dirs, files, meta, todo, found, errors>>
bVars == <<file, readable, buUp, values, acked, tried, bad>>
mVars == <<value, published, mbUp, mbSubscribed, mbCalls, mqtt, wire, missed, mbFaults>>
tVars == <<atConnected, index, queued, calls, traps, atEnded, toBroker, toTester, atSubscribed, atValue,
           atStarted, atStrayed, failed, atFaults>>
cVars == <<crUp, session, shvCalls, waiting, ended, started, passed, strayed>>
aVars == <<call, process, responses, script, launched, running>>
sVars == <<kind, proc, typed, stdin, fed, hole, dropped, wrote, unread, sent, up, app>>
hVars == <<scopeRunning, connected, agentUp, callbacks, subscribed, asked, inbox, lost, stack,
           status, connects, mounts>>
allVars == <<part, vars, rVars, bVars, mVars, tVars, cVars, aVars, sVars, hVars>>

(* Of the parts that do not run, one initial state is enough.              *)
MCInit ==
  /\ part \in {"provider", "reader", "users", "mqtt", "tester", "runner", "commands", "shell", "scope"}
  /\ Init /\ (part # "provider" => local = Nothing)
  /\ R!Init /\ (part # "reader" => dirs = {<<>>} /\ meta[<<>>].kind = "none")
  /\ B!Init /\ M!Init /\ T!Init /\ C!Init
  /\ A!Init /\ (part # "commands" => \A r \in AgentRequests : call[r] = Request("runSHA1", <<"string">>))
  /\ S!Init
  /\ H!Init /\ (part # "scope" => agentUp)

MCNext ==
  \/ part = "provider" /\ Next
     /\ UNCHANGED <<part, rVars, bVars, mVars, tVars, cVars, aVars, sVars, hVars>>
  \/ part = "reader" /\ R!Next
     /\ UNCHANGED <<part, vars, bVars, mVars, tVars, cVars, aVars, sVars, hVars>>
  \/ part = "users" /\ B!Next
     /\ UNCHANGED <<part, vars, rVars, mVars, tVars, cVars, aVars, sVars, hVars>>
  \/ part = "mqtt" /\ M!Next
     /\ UNCHANGED <<part, vars, rVars, bVars, tVars, cVars, aVars, sVars, hVars>>
  \/ part = "tester" /\ T!Next
     /\ UNCHANGED <<part, vars, rVars, bVars, mVars, cVars, aVars, sVars, hVars>>
  \/ part = "runner" /\ C!Next
     /\ UNCHANGED <<part, vars, rVars, bVars, mVars, tVars, aVars, sVars, hVars>>
  \/ part = "commands" /\ A!Next
     /\ UNCHANGED <<part, vars, rVars, bVars, mVars, tVars, cVars, sVars, hVars>>
  \/ part = "shell" /\ S!Next
     /\ UNCHANGED <<part, vars, rVars, bVars, mVars, tVars, cVars, aVars, hVars>>
  \/ part = "scope" /\ H!Next
     /\ UNCHANGED <<part, vars, rVars, bVars, mVars, tVars, cVars, aVars, sVars>>

(* With the fairness of SitesProvider, MqttBridge and HolyScope.           *)
MCSpec ==
  /\ MCInit /\ [][MCNext]_allVars
  /\ WF_vars(part = "provider" /\ Timeout)
  /\ WF_vars(part = "provider" /\ GitFinished)
  /\ WF_vars(part = "provider" /\ \E i \in 1..Len(tars) : TarFinished(i))
  /\ WF_mVars(part = "mqtt" /\ M!BrokerConnected)
  /\ WF_mVars(part = "mqtt" /\ M!Subscribed)
  /\ WF_mVars(part = "mqtt" /\ M!MqttConnected)
  /\ WF_mVars(part = "mqtt" /\ M!OnSignal)
  /\ WF_hVars(part = "scope" /\ H!Connect)
  /\ WF_hVars(part = "scope" /\ H!AgentAnswers)
  /\ WF_hVars(part = "scope" /\ H!ResponseReceived)
  /\ WF_hVars(part = "scope" /\ H!SignalReceived)

-----------------------------------------------------------------------------
(* What faults left behind is caught up: the newest version of the sites   *)
(* arrives, whatever became of git, of tars and of the process before      *)
(* (SitesProvider); and in the end every path of the bridge is subscribed  *)
(* again (MqttBridge).                                                     *)
CaughtUp ==
  /\ part = "provider" => NewestArrives
  /\ part = "mqtt" => M!SubscribedAgain

(* A walk with ls, dir and get finds what getSites returns (SitesReader).  *)
WalkFindsSites == R!TypeOK /\ R!WalkFindsSites

(* What getUserGrants grants, now and after a restart, is what the last    *)
(* successful change of each user left, or a later one that got no answer  *)
(* (BrclabUsers).                                                          *)
GrantsAsAcked == B!GrantsAsAcked

(* A topic never goes back to an older value, and it is at the newest one  *)
(* once its signals are published, unless that change was missed for want  *)
(* of a connection (MqttBridge).                                           *)
PublishedInOrder == M!NeverBack /\ [](M!TypeOK /\ M!NewestPublished)

(* The steps of a script start in its order and none twice (AgentTester);  *)
(* and each only when the one before lets it (CallRunner).                 *)
StepsInTurn == C!TypeOK /\ T!StepsInOrder /\ C!CallsInTurn

(* A request to run a command is answered once, when its process has ended *)
(* (AgentCommands); and the end of a command closes its tunnel only when   *)
(* all it wrote is sent (ShellProcess).                                    *)
CallsAnswered == A!RespondedOnce /\ S!TypeOK /\ S!NothingUntold

(* The status of a test that watches its agent follows it (HolyScope).     *)
StatusFollows == []H!TypeOK /\ (part = "scope" => H!StatusFollows)
=============================================================================
