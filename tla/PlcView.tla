------------------------------- MODULE PlcView -------------------------------
(***************************************************************************)
(* bfsview: the view of the two switches of the PLC "bfs1".                *)
(*                                                                         *)
(* The status comes by signals and by a get that is sent on connection and *)
(* every 10 s; a get that is not answered within the period makes the PLC  *)
(* "not connected" (bfsviewapp.cpp).  Two commands are offered by a menu,  *)
(* and the switch blinks until the status has followed (visuwidget.cpp).   *)
(* Messages of one connection stay in order.                               *)
(***************************************************************************)
EXTENDS Integers, Sequences, FiniteSets

CONSTANTS
  Switches,   \* "ompag" and "conv": each has its two bits of the status
  MaxQueue,   \* bound: messages on their way from the PLC
  MaxAsked,   \* bound: requests and commands on their way to it
  MaxIds      \* bound: requests sent

PlcViewAssumption == MaxQueue \in Nat \ {0} /\ MaxAsked \in Nat \ {0} /\ MaxIds \in Nat \ {0}

SwitchStatus == {"Unknown", "On", "Off"}

VARIABLES
  plc,        \* the status the PLC has
  plcUp,      \* is it connected to the broker?
  up,         \* is the view connected?
  subscribed, \* does the broker know that the view wants the signals?
  asked,      \* what is on its way to the PLC
  inbox,      \* what is on its way to the view
  ids,        \* the last request id
  rqId,       \* m_getStatusRpcId
  status,     \* bfsStatus
  connected,  \* plcConnected
  required,   \* ompagRequiredSwitchStatus, convRequiredSwitchStatus
  blink,      \* does m_blinkTimer of the switch run?
  recent      \* history: what the PLC had in this period and in the one before

plcVars == <<plc, plcUp, up, subscribed, asked, inbox, ids, rqId, status, connected, required, blink, recent>>

All == [Switches -> {"On", "Off"}]

TypeOK ==
  /\ plc \in All /\ status \in [Switches -> SwitchStatus] /\ required \in [Switches -> SwitchStatus]
  /\ {plcUp, up, subscribed, connected} \subseteq BOOLEAN /\ blink \in [Switches -> BOOLEAN]
  /\ rqId \in -1 .. MaxIds /\ ids \in 0 .. MaxIds

Init ==
  /\ plc = [s \in Switches |-> "Off"] /\ plcUp = TRUE /\ up = FALSE /\ subscribed = FALSE
  /\ asked = <<>> /\ inbox = <<>> /\ ids = 0
  /\ rqId = -1   \* numeric_limits<int>::max(): the id of no request
  /\ status = [s \in Switches |-> "Unknown"] /\ connected = FALSE
  /\ required = [s \in Switches |-> "Unknown"] /\ blink = [s \in Switches |-> FALSE]
  /\ recent = [now |-> {plc}, before |-> {}]

(***************************************************************************)
(* The requests.                                                           *)
(***************************************************************************)
(* sendGetStatusRequest, and a subscription that goes before it.           *)
SendGetStatusRequest(sent) ==
  /\ ids < MaxIds /\ Len(asked) + Len(sent) < MaxAsked
  /\ ids' = ids + 1 /\ rqId' = ids + 1
  /\ asked' = asked \o sent \o <<[kind |-> "get", id |-> ids + 1]>>

BrokerConnected ==
  /\ ~up /\ up' = TRUE
  /\ SendGetStatusRequest(<<[kind |-> "subscribe"]>>)
  /\ recent' = [now |-> {plc}, before |-> All]
  /\ UNCHANGED <<plc, plcUp, subscribed, inbox, status, connected, required, blink>>

BrokerDisconnected ==
  /\ up /\ up' = FALSE /\ subscribed' = FALSE
  /\ asked' = <<>> /\ inbox' = <<>>
  /\ UNCHANGED <<plc, plcUp, ids, rqId, status, connected, required, blink, recent>>

(* m_plcConnectedCheckTimer                                                *)
CheckPlcConnected ==
  /\ up
  /\ connected' = (rqId = 0)
  /\ SendGetStatusRequest(<<>>)
  /\ recent' = [now |-> {plc}, before |-> recent.now]
  /\ UNCHANGED <<plc, plcUp, up, subscribed, inbox, status, required, blink>>

(***************************************************************************)
(* The status: setBfsStatus emits only a change, and onBfsStatusChanged    *)
(* forgets what was required and is reached; that change reaches the       *)
(* controller of the switch, which compares it with the status.            *)
(***************************************************************************)
OnRequiredSwitchStatusChanged(s, required1, status1) == required1 # status1[s]

SetBfsStatus(new) ==
  LET reached == {s \in Switches : new # status /\ required[s] # "Unknown" /\ required[s] = new[s]}
  IN  /\ status' = new
      /\ required' = [s \in Switches |-> IF s \in reached THEN "Unknown" ELSE required[s]]
      /\ blink' = [s \in Switches |-> IF s \in reached THEN OnRequiredSwitchStatusChanged(s, "Unknown", new)
                                                       ELSE blink[s]]

ReceivedAnyId(m) ==
  CASE m.kind = "rsp" /\ m.error -> connected' = FALSE /\ UNCHANGED <<status, required, blink, rqId>>
    [] m.kind = "rsp" /\ ~m.error -> SetBfsStatus(m.val) /\ connected' = TRUE /\ rqId' = 0
    [] m.kind = "chng" -> SetBfsStatus(m.val) /\ UNCHANGED <<connected, rqId>>

OnRpcMessageReceived(m) ==
  CASE m.kind = "rsp" /\ m.id # rqId -> UNCHANGED <<status, required, blink, connected, rqId>>
    [] m.kind = "rsp" /\ m.id = rqId /\ m.error -> connected' = FALSE /\ UNCHANGED <<status, required, blink, rqId>>
    [] m.kind = "rsp" /\ m.id = rqId /\ ~m.error -> SetBfsStatus(m.val) /\ connected' = TRUE /\ rqId' = 0
    [] m.kind = "chng" -> SetBfsStatus(m.val) /\ UNCHANGED <<connected, rqId>>

Receive ==
  /\ inbox # <<>>
  /\ inbox' = Tail(inbox)
  /\ OnRpcMessageReceived(Head(inbox))
  /\ UNCHANGED <<plc, plcUp, up, subscribed, asked, ids, recent>>

(***************************************************************************)
(* The menu of a switch, setOmpag and setConv.                             *)
(***************************************************************************)
Offered(s) == {val \in {"On", "Off"} : required[s] # "Unknown" \/ (status[s] # "Unknown" /\ status[s] # val)}

SetSwitch(s, val) ==
  /\ up /\ Len(asked) < MaxAsked
  /\ asked' = Append(asked, [kind |-> "set", switch |-> s, val |-> val])
  /\ required' = [required EXCEPT ![s] = val]
  /\ blink' = [blink EXCEPT ![s] = IF val = required[s] THEN @ ELSE OnRequiredSwitchStatusChanged(s, val, status)]
  /\ UNCHANGED <<plc, plcUp, up, subscribed, inbox, ids, rqId, status, connected, recent>>

Menu == \E s \in Switches, val \in SwitchStatus : val \in Offered(s) /\ SetSwitch(s, val)

(***************************************************************************)
(* The PLC and the broker.                                                 *)
(***************************************************************************)
Signal(new) == IF subscribed /\ plcUp THEN Append(inbox, [kind |-> "chng", val |-> new]) ELSE inbox

Answered ==
  /\ asked # <<>> /\ Len(inbox) < MaxQueue
  /\ asked' = Tail(asked)
  /\ LET m == Head(asked)
     IN  /\ subscribed' = (subscribed \/ m.kind = "subscribe")
         /\ plc' = IF m.kind = "set" /\ plcUp THEN [plc EXCEPT ![m.switch] = m.val] ELSE plc
         /\ inbox' = CASE m.kind = "get" ->
                            Append(inbox, [kind |-> "rsp", id |-> m.id, error |-> ~plcUp, val |-> plc])
                       [] m.kind = "set" /\ plcUp /\ plc[m.switch] # m.val -> Signal(plc')
                       [] OTHER -> inbox
  /\ recent' = [recent EXCEPT !.now = @ \cup {plc'}]
  /\ UNCHANGED <<plcUp, up, ids, rqId, status, connected, required, blink>>

PlcChanges ==
  /\ Len(inbox) < MaxQueue
  /\ \E s \in Switches : plc' = [plc EXCEPT ![s] = IF @ = "On" THEN "Off" ELSE "On"]
  /\ inbox' = Signal(plc')
  /\ recent' = [recent EXCEPT !.now = @ \cup {plc'}]
  /\ UNCHANGED <<plcUp, up, subscribed, asked, ids, rqId, status, connected, required, blink>>

PlcConnection ==
  /\ plcUp' = ~plcUp
  /\ UNCHANGED <<plc, up, subscribed, asked, inbox, ids, rqId, status, connected, required, blink, recent>>

Next ==
  \/ BrokerConnected \/ BrokerDisconnected \/ CheckPlcConnected \/ Receive \/ Menu
  \/ Answered \/ PlcChanges \/ PlcConnection

Spec == Init /\ [][Next]_plcVars

(***************************************************************************)
(* What is drawn: statusToColor (red: the PLC is not connected), blinking. *)
(***************************************************************************)
Shown(s) ==
  CASE blink[s] /\ required[s] # "Unknown" /\ required[s] # status[s] -> "blinks"
    [] ~(blink[s] /\ required[s] # "Unknown" /\ required[s] # status[s]) /\ ~connected -> "red"
    [] OTHER -> status[s]

(* refreshVisualization: the switches, and the banner of the connection.   *)
Drawn == [switches |-> [s \in Switches |-> Shown(s)],
          banner |-> IF up THEN "none" ELSE "connecting",
          disconnected |-> ~connected]

(* A position that is drawn, without the banner that the view is           *)
(* connecting, is one the switches had in this period of 10 s or in the    *)
(* one before, whatever the PLC, its signals and late answers do.          *)
ShownIsRecent ==
  Drawn.banner = "none" /\ ~Drawn.disconnected =>
    \E p \in recent.now \cup recent.before : \A s \in Switches : Drawn.switches[s] \in {p[s], "blinks"}
=============================================================================
