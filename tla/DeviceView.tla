------------------------------ MODULE DeviceView -----------------------------
(***************************************************************************)
(* jn50view: the values of the converter on the screen.                    *)
(*                                                                         *)
(* A snapshot of the device's values follows its signals; it is emptied    *)
(* when the device is found disconnected, and every controller of the      *)
(* picture asks for its value when the connection of the device changes    *)
(* (jn50viewapp.cpp, visucontroller.cpp, visuwidget.cpp).  The connection  *)
(* of the device is watched by a get of its status every 10 s.  Messages   *)
(* of one connection stay in order.                                        *)
(***************************************************************************)
EXTENDS Integers, Sequences, FiniteSets

CONSTANTS
  Paths,      \* of the controllers: "status" and others
  MaxAsked,   \* bound: requests on their way to the device
  MaxIds,     \* bound: requests for the status
  MaxChanges  \* bound: changes of a value

DeviceViewAssumption ==
  "status" \in Paths /\ IsFiniteSet(Paths) /\ MaxAsked \in Nat \ {0} /\ MaxIds \in Nat \ {0} /\ MaxChanges \in Nat

VARIABLES
  value,      \* the values of the device
  devUp,      \* is it connected to the broker?
  up,         \* is the view connected?
  subscribed, \* does the broker know that the view wants the signals?
  asked,      \* the requests on their way to the device
  inbox,      \* the messages on their way to the view
  ids, rqId,  \* the last id, m_getStatusRpcId
  snapshot,   \* m_deviceSnapshot
  connected,  \* "shvDeviceConnected" of the snapshot
  changes,
  missed      \* history: may a signal have been lost since the values were asked for?

dvVars == <<value, devUp, up, subscribed, asked, inbox, ids, rqId, snapshot, connected, changes, missed>>

Values == {"on", "off"}
NoVal == "gray"    \* what is drawn for an invalid value

TypeOK ==
  /\ value \in [Paths -> Values] /\ snapshot \in [Paths -> Values \cup {NoVal}]
  /\ {devUp, up, subscribed, connected, missed} \subseteq BOOLEAN
  /\ rqId \in -1 .. MaxIds /\ ids \in 0 .. MaxIds /\ changes \in 0 .. MaxChanges

Init ==
  /\ value = [p \in Paths |-> "off"] /\ devUp \in BOOLEAN /\ up = FALSE /\ subscribed = FALSE
  /\ asked = <<>> /\ inbox = <<>> /\ ids = 0 /\ rqId = -1
  /\ snapshot = [p \in Paths |-> NoVal] /\ connected = FALSE
  /\ changes = 0 /\ missed = TRUE

(***************************************************************************)
(* setShvDeviceConnected: a change empties the snapshot or not, and makes  *)
(* every controller show and ask for its value.                            *)
(***************************************************************************)
Gets == {[kind |-> "get", path |-> p] : p \in Paths}

(* In the order of the controllers, whichever it is.                       *)
Reload == CHOOSE q \in [1 .. Cardinality(Gets) -> Gets] : \A g \in Gets : \E i \in DOMAIN q : q[i] = g
StatusRequest == [kind |-> "status", id |-> ids + 1]

SetShvDeviceConnected(on, snap, sent) ==
  LET changed == on # connected
      gets == IF changed THEN Reload ELSE <<>>
  IN  /\ connected' = on
      /\ snapshot' = IF changed /\ ~on THEN [p \in Paths |-> NoVal] ELSE snap
      /\ Len(asked) + Len(gets) + Len(sent) <= MaxAsked
      /\ asked' = asked \o gets \o sent
      /\ missed' = (missed /\ ~(changed /\ on /\ devUp))

SendGetStatusRequest == ids < MaxIds /\ ids' = ids + 1 /\ rqId' = ids + 1

BrokerConnected ==
  /\ ~up /\ up' = TRUE
  /\ SendGetStatusRequest
  /\ asked' = <<[kind |-> "subscribe"], StatusRequest>>
  /\ UNCHANGED <<value, devUp, subscribed, inbox, snapshot, connected, changes, missed>>

BrokerDisconnected ==
  /\ up /\ up' = FALSE /\ subscribed' = FALSE
  /\ asked' = <<>> /\ inbox' = <<>> /\ missed' = TRUE
  /\ UNCHANGED <<value, devUp, ids, rqId, snapshot, connected, changes>>

(* m_shvDeviceConnectedCheckTimer                                          *)
CheckShvDeviceConnected ==
  /\ up
  /\ SendGetStatusRequest
  /\ SetShvDeviceConnected(rqId = 0, snapshot, <<StatusRequest>>)
  /\ UNCHANGED <<value, devUp, up, subscribed, inbox, changes>>

(* onRpcMessageReceived, and the callbacks of reloadShvDeviceValue.        *)
Received(m) ==
  CASE m.kind = "status" /\ m.id # rqId -> UNCHANGED <<snapshot, connected, asked, missed, rqId>>
    [] m.kind = "status" /\ m.id = rqId /\ m.error ->
         SetShvDeviceConnected(FALSE, snapshot, <<>>) /\ UNCHANGED rqId
    [] m.kind = "status" /\ m.id = rqId /\ ~m.error ->
         SetShvDeviceConnected(TRUE, [snapshot EXCEPT !["status"] = m.val], <<>>) /\ rqId' = 0
    [] m.kind \in {"get", "chng"} ->
         /\ snapshot' = IF m.error THEN snapshot ELSE [snapshot EXCEPT ![m.path] = m.val]
         /\ UNCHANGED <<connected, asked, missed, rqId>>

OnRpcMessageReceived ==
  /\ inbox # <<>> /\ inbox' = Tail(inbox)
  /\ Received(Head(inbox))
  /\ UNCHANGED <<value, devUp, up, subscribed, ids, changes>>

(***************************************************************************)
(* The device and the broker.                                              *)
(***************************************************************************)
Reply(m) ==
  CASE m.kind = "status" -> [kind |-> "status", id |-> m.id, error |-> ~devUp, val |-> value["status"]]
    [] m.kind = "get" -> [kind |-> "get", path |-> m.path, error |-> ~devUp, val |-> value[m.path]]

Answered ==
  /\ asked # <<>> /\ asked' = Tail(asked)
  /\ subscribed' = (subscribed \/ Head(asked).kind = "subscribe")
  /\ inbox' = IF Head(asked).kind = "subscribe" THEN inbox ELSE Append(inbox, Reply(Head(asked)))
  /\ UNCHANGED <<value, devUp, up, ids, rqId, snapshot, connected, changes, missed>>

DeviceChanges ==
  /\ changes < MaxChanges /\ changes' = changes + 1
  /\ \E p \in Paths :
       LET v == IF value[p] = "on" THEN "off" ELSE "on"
       IN  /\ value' = [value EXCEPT ![p] = v]
           /\ inbox' = IF devUp /\ subscribed
                         THEN Append(inbox, [kind |-> "chng", path |-> p, error |-> FALSE, val |-> v]) ELSE inbox
  /\ UNCHANGED <<devUp, up, subscribed, asked, ids, rqId, snapshot, connected, missed>>

DeviceConnection ==
  /\ devUp' = ~devUp /\ missed' = TRUE
  /\ UNCHANGED <<value, up, subscribed, asked, inbox, ids, rqId, snapshot, connected, changes>>

Next ==
  \/ BrokerConnected \/ BrokerDisconnected \/ CheckShvDeviceConnected \/ OnRpcMessageReceived
  \/ Answered \/ DeviceChanges \/ DeviceConnection

Spec == Init /\ [][Next]_dvVars

(* When nothing is on its way, the values on the screen are those of the   *)
(* device, unless a signal may have been lost since the device was found   *)
(* connected: the reload of the controllers, the signals and the answers   *)
(* of an earlier connection leave nothing old behind.                      *)
ShownIsCurrent ==
  up /\ subscribed /\ connected /\ ~missed /\ asked = <<>> /\ inbox = <<>> => snapshot = value
=============================================================================
