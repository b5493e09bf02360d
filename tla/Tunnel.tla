------------------------------- MODULE Tunnel -------------------------------
(***************************************************************************)
(* A remote shell: shvrsh (the client) calls launchRexec of shvagent, the  *)
(* agent looks for a broker both can reach and starts shvrexec, shvrexec   *)
(* connects to that broker and opens a tunnel to the client, and the shell *)
(* and the terminal exchange data until either side goes away.             *)
(*                                                                         *)
(* The agent starts at most one shvrexec for a launchRexec request, and a  *)
(* client makes one request, so a shvrexec is named by the client whose    *)
(* request it was started for.  Its peer is the client it talks to.        *)
(*                                                                         *)
(* Data is counted in chunks.  The broker forwards messages between two    *)
(* connections in order and drops those for a connection that is gone.     *)
(***************************************************************************)
EXTENDS Naturals, Sequences, FiniteSets, Functions

CONSTANTS
  Clients,       \* shvrsh processes that use one agent
  Ids,           \* possible ids of the clients' launchRexec calls, which their connections count
  MaxTyped,      \* bound: chunks all users type
  MaxWritten,    \* bound: chunks all shells write
  MaxFaults      \* connections lost, processes killed, calls that fail or are not answered in time

ASSUME IdsAssumption == Ids \subseteq Nat
ASSUME BoundsAssumption == MaxTyped \in Nat /\ MaxWritten \in Nat /\ MaxFaults \in Nat

VARIABLES
  requestId, \* the request id of a client's launchRexec call
  client,    \* phase of a client: "idle", "asked", "open", "gone"
  writeTo,   \* the shvrexec its m_writeTunnelCallerIds lead to, <<>> before the tunnel is open
  typed,     \* chunks it sent
  buff,      \* m_channelBuffs
  shown,     \* chunks it wrote to its terminal
  calls,     \* clients whose launchRexec call is on its way to the agent
  callbacks, \* clients for whose requests an RpcResponseCallBack of the agent waits
  finding,   \* clients whose FindTunnelRequest or its response is on its way
  rexec,     \* phase of a shvrexec: "none", "started", "asking", "running", "failed", "closing", "gone"
  peer,      \* whom the findTunnelResponse given to it leads to (once it is started)
  written,   \* chunks its shell wrote
  sent,      \* chunks of them it read and sent
  fed,       \* chunks it wrote to the shell's standard input
  toClient,  \* messages for a client that carry its request id
  toRexec,   \* messages for a shvrexec that carry its m_readTunnelRequestId
  faults

clientVars == <<requestId, client, writeTo, typed, buff, shown>>
agentVars == <<calls, callbacks, finding>>
shellVars == <<written, sent, fed>>
rexecVars == <<rexec, peer, shellVars>>
vars == <<clientVars, agentVars, rexecVars, toClient, toRexec, faults>>

Total(count) == FoldFunction(+, 0, count)

Create(x) == [kind |-> "create", from |-> x]
Close(x) == [kind |-> "close", from |-> x]
Error(x) == [kind |-> "error", from |-> x]
Data(x, first, last) == [kind |-> "data", from |-> x, chunks |-> [i \in 1..(last - first + 1) |-> <<x, first + i - 1>>]]
Created == [kind |-> "created"]
Typed(c, n) == [kind |-> "data", chunk |-> <<c, n>>]

Init ==
  /\ requestId \in [Clients -> Ids]
  /\ client = [c \in Clients |-> "idle"]
  /\ writeTo = [c \in Clients |-> <<>>]
  /\ typed = [c \in Clients |-> 0]
  /\ buff = [c \in Clients |-> <<>>]
  /\ shown = [c \in Clients |-> <<>>]
  /\ calls = {}
  /\ callbacks = {}
  /\ finding = {}
  /\ rexec = [c \in Clients |-> "none"]
  /\ peer = [c \in Clients |-> c]
  /\ written = [c \in Clients |-> 0]
  /\ sent = [c \in Clients |-> 0]
  /\ fed = [c \in Clients |-> <<>>]
  /\ toClient = [c \in Clients |-> <<>>]
  /\ toRexec = [c \in Clients |-> <<>>]
  /\ faults = 0

Alive(x) == rexec[x] \in {"started", "asking", "running", "failed", "closing"}


\* The broker forwards m to client c, or drops it.
ToClient(c, m) == [toClient EXCEPT ![c] = IF client[c] = "gone" THEN @ ELSE Append(@, m)]
ToRexec(x, m) == [toRexec EXCEPT ![x] = IF Alive(x) THEN Append(@, m) ELSE @]

\* quit(): what is buffered for the terminal and what is on the way is lost.
ClientGone(c) ==
  /\ client' = [client EXCEPT ![c] = "gone"]
  /\ buff' = [buff EXCEPT ![c] = <<>>]
  /\ toClient' = [toClient EXCEPT ![c] = <<>>]

RexecGone(x) ==
  /\ rexec' = [rexec EXCEPT ![x] = "gone"]
  /\ toRexec' = [toRexec EXCEPT ![x] = <<>>]

Fault == faults < MaxFaults /\ faults' = faults + 1

-----------------------------------------------------------------------------
(* The client.                                                             *)

\* The login is done: launchRexec is called.
LaunchRemoteShell(c) ==
  /\ client[c] = "idle"
  /\ client' = [client EXCEPT ![c] = "asked"]
  /\ calls' = calls \cup {c}
  /\ UNCHANGED <<requestId, writeTo, typed, buff, shown, callbacks, finding, rexecVars, toClient, toRexec, faults>>

\* The broker or the agent answers the call with an error.
LaunchFails(c) ==
  /\ c \in calls
  /\ Fault
  /\ calls' = calls \ {c}
  /\ toClient' = ToClient(c, Error(c))
  /\ UNCHANGED <<clientVars, callbacks, finding, rexecVars, toRexec>>

\* Mutant: what the terminal does not take is thrown away.
WriteOutOnce(c, b) ==
  \E k \in 0..Len(b) :
     /\ shown' = [shown EXCEPT ![c] = @ \o SubSeq(b, 1, k)]
     /\ buff' = [buff EXCEPT ![c] = <<>>]

\* The first k chunks of b go to the terminal of c, the rest waits for the timer.
WriteOut(c, b) ==
  \E k \in 0..Len(b) :
     /\ shown' = [shown EXCEPT ![c] = @ \o SubSeq(b, 1, k)]
     /\ buff' = [buff EXCEPT ![c] = SubSeq(b, k + 1, Len(b))]

Expected(c) == writeTo[c] = <<>>

\* Only the first CreateTunnelRequest is answered.
OpenTunnel(c, m) ==
  /\ Expected(c) /\ m.kind = "create"
  /\ client' = [client EXCEPT ![c] = "open"]
  /\ writeTo' = [writeTo EXCEPT ![c] = <<m.from>>]
  /\ toRexec' = ToRexec(m.from, Created)
  /\ toClient' = [toClient EXCEPT ![c] = Tail(@)]
  /\ UNCHANGED <<buff, shown>>

ShowData(c, m) ==
  /\ ~Expected(c) /\ m.kind = "data"
  /\ WriteOut(c, buff[c] \o m.chunks)
  /\ toClient' = [toClient EXCEPT ![c] = Tail(@)]
  /\ UNCHANGED <<client, writeTo, toRexec>>

\* CloseTunnel, an error, data before the tunnel is open, another CreateTunnelRequest.
Unexpected(c, m) ==
  /\ m.kind \notin (IF Expected(c) THEN {"create"} ELSE {"data"})
  /\ ClientGone(c)
  /\ UNCHANGED <<writeTo, shown, toRexec>>

ClientReceives(c) ==
  /\ client[c] \in {"asked", "open"} /\ toClient[c] # <<>>
  /\ LET m == Head(toClient[c]) IN OpenTunnel(c, m) \/ ShowData(c, m) \/ Unexpected(c, m)
  /\ UNCHANGED <<requestId, typed, agentVars, rexecVars, faults>>

\* The retry timer of writeToOutChannel: the terminal takes something.
Flush(c) ==
  /\ buff[c] # <<>>
  /\ WriteOut(c, buff[c])
  /\ UNCHANGED <<requestId, client, writeTo, typed, agentVars, rexecVars, toClient, toRexec, faults>>

\* The user types: without a tunnel the client throws the data away and quits.
Type(c) ==
  /\ client[c] # "gone" /\ Total(typed) < MaxTyped
  /\ IF Expected(c)
       THEN ClientGone(c) /\ UNCHANGED <<typed, toRexec>>
       ELSE /\ typed' = [typed EXCEPT ![c] = @ + 1]
            /\ toRexec' = ToRexec(Head(writeTo[c]), Typed(c, typed[c] + 1))
            /\ UNCHANGED <<client, buff, toClient>>
  /\ UNCHANGED <<requestId, writeTo, shown, agentVars, rexecVars, faults>>

\* The connection to the broker is lost.
ClientLost(c) ==
  /\ client[c] # "gone"
  /\ Fault
  /\ ClientGone(c)
  /\ UNCHANGED <<requestId, writeTo, typed, shown, agentVars, rexecVars, toRexec>>

-----------------------------------------------------------------------------
(* The agent.                                                              *)

LaunchRexec(c) ==
  /\ c \in calls
  /\ calls' = calls \ {c}
  /\ callbacks' = callbacks \cup {c}
  /\ finding' = finding \cup {c}
  /\ UNCHANGED <<clientVars, rexecVars, toClient, toRexec, faults>>

\* A callback is told a response by its request id alone.
Waiting(c) == {d \in callbacks : requestId[d] = requestId[c]}

\* The broker answers the FindTunnelRequest sent towards c: every waiting
\* callback starts shvrexec with this answer and its own onConnectedCall.
FindTunnelResponse(c) ==
  /\ c \in finding
  /\ finding' = finding \ {c}
  /\ callbacks' = callbacks \ Waiting(c)
  /\ rexec' = [d \in Clients |-> IF d \in Waiting(c) THEN "started" ELSE rexec[d]]
  /\ peer' = [d \in Clients |-> IF d \in Waiting(c) THEN c ELSE peer[d]]
  /\ UNCHANGED <<clientVars, calls, shellVars, toClient, toRexec, faults>>

\* It answers something else: no process is started and nobody is told.
FindTunnelFails(c) ==
  /\ c \in finding
  /\ Fault
  /\ finding' = finding \ {c}
  /\ callbacks' = callbacks \ Waiting(c)
  /\ UNCHANGED <<clientVars, calls, rexecVars, toClient, toRexec>>

CallbackExpires(c) ==
  /\ c \in callbacks
  /\ Fault
  /\ callbacks' = callbacks \ {c}
  /\ UNCHANGED <<clientVars, calls, finding, rexecVars, toClient, toRexec>>

-----------------------------------------------------------------------------
(* The remote process.                                                     *)

\* Connected to the broker it offers its own id for what the client writes.
RexecConnected(x) ==
  /\ rexec[x] = "started"
  /\ rexec' = [rexec EXCEPT ![x] = "asking"]
  /\ toClient' = ToClient(peer[x], Create(x))
  /\ UNCHANGED <<clientVars, agentVars, peer, shellVars, toRexec, faults>>

\* The client did not answer in time.
CreateExpires(x) ==
  /\ rexec[x] = "asking"
  /\ Fault
  /\ RexecGone(x)
  /\ UNCHANGED <<clientVars, agentVars, peer, shellVars, toClient>>

\* CreateTunnelResponse: the shell is started; one that cannot be started is only logged.
RunShell(x) ==
  /\ rexec[x] = "asking" /\ Head(toRexec[x]).kind = "created"
  /\ \/ rexec' = [rexec EXCEPT ![x] = "running"] /\ UNCHANGED faults
     \/ rexec' = [rexec EXCEPT ![x] = "failed"] /\ Fault
  /\ UNCHANGED fed

\* Data for the shell; the terminal may take less than it is given, the rest is lost.
FeedShell(x) ==
  /\ rexec[x] # "asking"
  /\ \/ rexec[x] = "running" /\ fed' = [fed EXCEPT ![x] = Append(@, Head(toRexec[x]).chunk)] /\ UNCHANGED faults
     \/ rexec[x] # "running" /\ UNCHANGED <<fed, faults>>
     \/ rexec[x] = "running" /\ Fault /\ UNCHANGED fed
  /\ UNCHANGED rexec

RexecReceives(x) ==
  /\ Alive(x) /\ toRexec[x] # <<>>
  /\ RunShell(x) \/ FeedShell(x)
  /\ toRexec' = [toRexec EXCEPT ![x] = Tail(@)]
  /\ UNCHANGED <<clientVars, agentVars, peer, written, sent, toClient>>

ShellWrites(x) ==
  /\ rexec[x] = "running" /\ Total(written) < MaxWritten
  /\ written' = [written EXCEPT ![x] = @ + 1]
  /\ UNCHANGED <<clientVars, agentVars, rexec, peer, sent, fed, toClient, toRexec, faults>>

\* The PTY is readable: all of it is read and sent.
SendProcessOutput(x) ==
  /\ rexec[x] = "running" /\ sent[x] < written[x]
  /\ sent' = [sent EXCEPT ![x] = written[x]]
  /\ toClient' = ToClient(peer[x], Data(x, sent[x] + 1, written[x]))
  /\ UNCHANGED <<clientVars, agentVars, rexec, peer, written, fed, toRexec, faults>>

\* CloseTunnel can be sent only when the caller ids of the client are known.
CloseAndQuit(x) ==
  /\ rexec' = [rexec EXCEPT ![x] = "closing"]
  /\ toClient' = IF rexec[x] \in {"running", "failed"} THEN ToClient(peer[x], Close(x)) ELSE toClient

\* The shell ended: what it wrote and nobody read yet is not sent any more.
ShellEnds(x) ==
  /\ rexec[x] = "running"
  /\ CloseAndQuit(x)
  /\ UNCHANGED <<clientVars, agentVars, peer, shellVars, toRexec, faults>>

\* Mutant: the timer is not restarted once the shell runs.
InactivityTimeoutAsking(x) ==
  /\ rexec[x] = "asking" /\ client[peer[x]] = "gone"
  /\ toRexec[x] = <<>> /\ sent[x] = written[x]
  /\ CloseAndQuit(x)
  /\ UNCHANGED <<clientVars, agentVars, peer, shellVars, toRexec, faults>>

\* m_inactivityTimer: twelve hours without a message and without output.  A
\* client that is there answers the CreateTunnelRequest sooner.
InactivityTimeout(x) ==
  /\ \/ rexec[x] \in {"running", "failed"}
     \/ rexec[x] = "asking" /\ client[peer[x]] = "gone"
  /\ toRexec[x] = <<>> /\ sent[x] = written[x]
  /\ CloseAndQuit(x)
  /\ UNCHANGED <<clientVars, agentVars, peer, shellVars, toRexec, faults>>

\* The 10 ms timer of closeAndQuit.
RexecQuits(x) ==
  /\ rexec[x] = "closing"
  /\ RexecGone(x)
  /\ UNCHANGED <<clientVars, agentVars, peer, shellVars, toClient, faults>>

\* It cannot log in or be started, it is killed, or its socket is disconnected.
RexecLost(x) ==
  /\ Alive(x)
  /\ Fault
  /\ RexecGone(x)
  /\ UNCHANGED <<clientVars, agentVars, peer, shellVars, toClient>>

Next ==
  \E c \in Clients :
     \/ LaunchRemoteShell(c) \/ LaunchFails(c) \/ ClientReceives(c) \/ Flush(c) \/ Type(c) \/ ClientLost(c)
     \/ LaunchRexec(c) \/ FindTunnelResponse(c) \/ FindTunnelFails(c) \/ CallbackExpires(c)
     \/ RexecConnected(c) \/ CreateExpires(c) \/ RexecReceives(c) \/ ShellWrites(c) \/ SendProcessOutput(c)
     \/ ShellEnds(c) \/ InactivityTimeout(c) \/ RexecQuits(c) \/ RexecLost(c)

Spec == Init /\ [][Next]_vars

\* The broker delivers, the event loops run, timers expire; users and shells owe nothing.
Fairness ==
  \A c \in Clients :
     /\ WF_vars(LaunchRemoteShell(c)) /\ WF_vars(ClientReceives(c)) /\ WF_vars(Flush(c))
     /\ WF_vars(LaunchRexec(c)) /\ WF_vars(FindTunnelResponse(c))
     /\ WF_vars(RexecConnected(c)) /\ WF_vars(RexecReceives(c)) /\ WF_vars(SendProcessOutput(c))
     /\ WF_vars(InactivityTimeout(c)) /\ WF_vars(RexecQuits(c))

FairSpec == Spec /\ Fairness

-----------------------------------------------------------------------------
Chunks == Clients \X (Nat \ {0})
Messages == [kind : {"create", "close", "error"}, from : Clients] \cup [kind : {"data"}, from : Clients, chunks : Seq(Chunks)]
RexecMessages == {Created} \cup [kind : {"data"}, chunk : Chunks]

\* Types; a client has a way to write exactly once its tunnel was opened.
TypeOK ==
  /\ requestId \in [Clients -> Ids]
  /\ client \in [Clients -> {"idle", "asked", "open", "gone"}]
  /\ writeTo \in [Clients -> {<<>>} \cup {<<x>> : x \in Clients}]
  /\ \A c \in Clients : client[c] = "open" => writeTo[c] # <<>>
  /\ typed \in [Clients -> Nat]
  /\ buff \in [Clients -> Seq(Chunks)] /\ shown \in [Clients -> Seq(Chunks)]
  /\ calls \subseteq Clients /\ callbacks \subseteq Clients /\ finding \subseteq Clients
  /\ rexec \in [Clients -> {"none", "started", "asking", "running", "failed", "closing", "gone"}]
  /\ peer \in [Clients -> Clients]
  /\ written \in [Clients -> Nat] /\ sent \in [Clients -> Nat]
  /\ \A x \in Clients : sent[x] <= written[x]
  /\ fed \in [Clients -> Seq(Chunks)]
  /\ toClient \in [Clients -> Seq(Messages)]
  /\ toRexec \in [Clients -> Seq(RexecMessages)]
  /\ faults \in 0..MaxFaults

\* A shell runs only behind the tunnel its client writes to: there are never two
\* shells for one client, whatever request ids the clients chose
\* (shvrshapp.cpp:150, shvrexecapp.cpp:188).
Agreed == \A x \in Clients : rexec[x] = "running" => writeTo[peer[x]] = <<x>>

\* What a terminal shows, and will show from the buffer, is the output of the one
\* shell its tunnel leads to, from the first chunk on and without a gap, however
\* its retry timers and new data interleave (shvrshapp.cpp:223-243).
OneOutput ==
  \A c \in Clients : LET s == shown[c] \o buff[c] IN \A i \in DOMAIN s : s[i] = <<Head(writeTo[c]), i>>

\* No other client's call carries the request id of c's.
HasOwnId(c) == \A d \in Clients \ {c} : requestId[d] # requestId[c]

\* Clients whose calls have request ids of their own get the shells they asked for
\* (the params of their own call, shvagentapp.cpp:399).
OwnShell ==
  \A x \in Clients : rexec[x] = "running" => peer[x] = x \/ ~HasOwnId(x)

(* Of the tunnels: types; a shell runs only behind the tunnel its client   *)
(* writes to; a terminal shows the output of one shell, from the first     *)
(* chunk on and without a gap; and a client whose call has a request id of *)
(* its own has the shell it asked for.                                     *)
TunnelTrue == TypeOK /\ Agreed /\ OneOutput /\ OwnShell

\* A client that asked, under a request id of its own, gets its tunnel or has
\* quit, unless something fails (shvrshapp.cpp:143-175).
Opened ==
  \A c \in Clients : client[c] = "asked" /\ HasOwnId(c) ~> client[c] \in {"open", "gone"} \/ faults > 0

\* A shvrexec whose client is gone ends, for it cannot see that (shvrexecapp.cpp:138-147).
NoOrphans == \A x \in Clients : Alive(x) /\ client[peer[x]] = "gone" ~> rexec[x] = "gone"

(* A client with a request id of its own gets its tunnel or has quit,      *)
(* unless something fails, and a shvrexec whose client is gone ends.       *)
TunnelEnds == Opened /\ NoOrphans
=============================================================================
