--------------------------- MODULE AgentCommands ----------------------------
(* runCmd and runScript of shvagent (shvagentapp.cpp 184-258, 426-512):    *)
(* a process per request, whose end is the response.  A script is kept in  *)
(* a file named by its SHA1, so that it can be called by that.  There is   *)
(* one script; what a process does is its own affair: it fails to start,   *)
(* crashes, or ends with an exit code and output on both channels.         *)
EXTENDS Integers, Sequences, FiniteSets, SequencesExt

CONSTANTS
  Requests,
  Calls      \* what a request may be: [method, params]

(* Params are a list of "string" (the command, the script or its SHA1),    *)
(* "args", "env", "stdout" and "stderr" (1 and 2), and "other"; "file" is  *)
(* the script's file as an argument of bash.                               *)
Streams == {"stdout", "stderr"}

VARIABLES
  call,      \* the call of each request
  process,   \* its SessionProcess: "none", "starting", "running", "crashed", "gone"
             \* or "killed" as the agent quit
  responses, \* the responses to it
  script,    \* is there the file in /tmp/shvagent?
  launched,  \* the params the process was launched with
  running    \* does the agent run?

acVars == <<call, process, responses, script, launched, running>>

Init ==
  /\ call \in [Requests -> Calls]
  /\ process = [r \in Requests |-> "none"]
  /\ responses = [r \in Requests |-> <<>>]
  /\ script = FALSE
  /\ launched = [r \in Requests |-> <<>>]
  /\ running = TRUE

Error == <<"error">>

New(r) == running /\ process[r] = "none" /\ responses[r] = <<>>

Respond(r, response) == responses' = [responses EXCEPT ![r] = Append(@, response)]

(* runScript: the params of the runCmd it comes to.                        *)
CmdParams(r) ==
  IF call[r].method = "runCmd" THEN call[r].params
  ELSE <<"string", "file">> \o SelectSeq(call[r].params, LAMBDA p : p \in Streams \cup {"env"})

(* The script is written, unless it is called by its SHA1.                 *)
Written(r) == script \/ call[r].method = "runScript"
NoSuchScript(r) == call[r].method = "runSHA1" /\ ~script

(* A param that is not known: the exception is the response.               *)
Refuse(r) ==
  /\ New(r) /\ ~NoSuchScript(r) /\ "other" \in ToSet(call[r].params)
  /\ script' = Written(r)
  /\ Respond(r, Error)
  /\ UNCHANGED <<call, process, launched, running>>

(* runScript of a SHA1 there is no file for.                               *)
NotExists(r) ==
  /\ New(r) /\ NoSuchScript(r)
  /\ Respond(r, Error)
  /\ UNCHANGED <<call, process, script, launched, running>>

(* The process is started, with the script written anew or as it is.       *)
RunCmd(r) ==
  /\ New(r) /\ ~NoSuchScript(r) /\ "other" \notin ToSet(call[r].params)
  /\ script' = Written(r)
  /\ launched' = [launched EXCEPT ![r] = CmdParams(r)]
  /\ process' = [process EXCEPT ![r] = "starting"]
  /\ UNCHANGED <<call, responses, running>>

Started(r) ==
  /\ running /\ process[r] = "starting"
  /\ process' = [process EXCEPT ![r] = "running"]
  /\ UNCHANGED <<call, responses, script, launched, running>>

(* errorOccurred: only a process that did not start is responded to here,  *)
(* for finished comes after a crash.                                       *)
ErrorOccurred(r, error) ==
  IF error = "FailedToStart" THEN Respond(r, Error) ELSE UNCHANGED responses

FailedToStart(r) ==
  /\ running /\ process[r] = "starting"
  /\ ErrorOccurred(r, "FailedToStart")
  /\ process' = [process EXCEPT ![r] = "gone"]
  /\ UNCHANGED <<call, script, launched, running>>

Crashed(r) ==
  /\ running /\ process[r] = "running"
  /\ ErrorOccurred(r, "Crashed")
  /\ process' = [process EXCEPT ![r] = "crashed"]
  /\ UNCHANGED <<call, script, launched, running>>

(* The result of a process that ended: for a list, the exit code for the   *)
(* string and what the streams hold, which is read once.                   *)
Result(ps) ==
  LET wanted == SelectSeq(ps, LAMBDA p : p \in Streams \cup {"string"})
  IN [i \in DOMAIN wanted |->
        IF wanted[i] = "string" THEN "exit code"
        ELSE IF \E j \in 1..(i - 1) : wanted[j] = wanted[i] THEN "nothing" ELSE wanted[i]]

(* finished, after which the process is deleted (SessionProcess).          *)
Finished(r) ==
  /\ running /\ process[r] \in {"running", "crashed"}
  /\ Respond(r, IF process[r] = "crashed" THEN Error ELSE Result(launched[r]))
  /\ process' = [process EXCEPT ![r] = "gone"]
  /\ UNCHANGED <<call, script, launched, running>>

(* The agent quits: the processes are killed, and nothing more is sent.    *)
Quit ==
  /\ running
  /\ running' = FALSE
  /\ process' = [r \in Requests |-> IF process[r] \in {"none", "gone"} THEN process[r] ELSE "killed"]
  /\ UNCHANGED <<call, responses, script, launched>>

Restart ==
  /\ ~running /\ running' = TRUE
  /\ UNCHANGED <<call, process, responses, script, launched>>

Next ==
  \/ Quit \/ Restart
  \/ \E r \in Requests : \/ Refuse(r) \/ NotExists(r) \/ RunCmd(r)
                         \/ Started(r) \/ FailedToStart(r) \/ Crashed(r) \/ Finished(r)

Spec == Init /\ [][Next]_acVars

-----------------------------------------------------------------------------
(* A request is responded to once and not before its process has ended,    *)
(* whether that fails to start, crashes or ends, and never twice; and when *)
(* the process is gone it was, unless the agent has quit.                  *)
RespondedOnce ==
  \A r \in Requests :
    /\ Len(responses[r]) <= 1
    /\ process[r] \in {"starting", "running", "crashed"} => responses[r] = <<>>
    /\ process[r] = "gone" => Len(responses[r]) = 1

(* "list is interpretted as launched process argument list", of runScript  *)
(* as of runCmd (shvagentapp.cpp:77, 88).                                  *)
ArgumentsPassed ==
  \A r \in Requests :
    launched[r] # <<>> /\ "args" \in ToSet(call[r].params) => "args" \in ToSet(launched[r])
=============================================================================
