------------------------------ MODULE MqttBridge -----------------------------
(***************************************************************************)
(* shv2mqtt: the changes that a broker of SHV signals are published to an  *)
(* MQTT broker (shv2mqttapp.cpp).                                          *)
(*                                                                         *)
(* Both connections are opened at the start, in no order.  The one to SHV  *)
(* is opened again when it is lost, and the paths are subscribed again;    *)
(* any error of the other ends the program, and whoever started it starts  *)
(* it again.  A signal that comes without MQTT is dropped.                 *)
(***************************************************************************)
EXTENDS Integers, Sequences

CONSTANTS
  Topics,                  \* the subscribed paths whose values change
  MaxValue, MaxFaults, MaxWire   \* bounds

MqttBridgeAssumption == {MaxValue, MaxFaults, MaxWire} \subseteq Nat

VARIABLES
  value,       \* the values of the devices, which count their changes
  published,   \* what the MQTT broker got last
  up,          \* m_isBrokerConnected
  subscribed,  \* the paths whose subscription the broker has got
  calls,       \* subscriptions under way
  mqtt,        \* m_mqttClient->state(): "connecting", "connected"
  wire,        \* signals under way
  missed,      \* history: the topics whose last change nobody subscribed or nobody could publish
  faults       \* bound

mbVars == <<value, published, up, subscribed, calls, mqtt, wire, missed, faults>>

TypeOK ==
  /\ {value, published} \subseteq [Topics -> 0 .. MaxValue]
  /\ up \in BOOLEAN /\ {subscribed, calls, missed} \subseteq SUBSET Topics
  /\ mqtt \in {"connecting", "connected"} /\ faults \in 0 .. MaxFaults

Init ==
  /\ value = [t \in Topics |-> 0] /\ published = value
  /\ up = FALSE /\ subscribed = {} /\ calls = {} /\ mqtt = "connecting"
  /\ wire = <<>> /\ missed = {} /\ faults = 0

Fault == faults < MaxFaults /\ faults' = faults + 1
InWire == {wire[i].topic : i \in DOMAIN wire}

(* onBrokerConnectedChanged subscribes every path, when the connection is  *)
(* lost too, which goes nowhere then.                                      *)
OnBrokerConnected == up' = TRUE /\ calls' = Topics

BrokerConnected ==
  /\ ~up /\ OnBrokerConnected
  /\ UNCHANGED <<value, published, subscribed, mqtt, wire, missed, faults>>

BrokerDisconnected ==
  /\ up /\ Fault
  /\ up' = FALSE /\ calls' = {} /\ subscribed' = {}
  /\ wire' = <<>> /\ missed' = missed \cup InWire
  /\ UNCHANGED <<value, published, mqtt>>

Subscribed ==
  /\ \E t \in calls : calls' = calls \ {t} /\ subscribed' = subscribed \cup {t}
  /\ UNCHANGED <<value, published, up, mqtt, wire, missed, faults>>

MqttConnected ==
  /\ mqtt = "connecting" /\ mqtt' = "connected"
  /\ UNCHANGED <<value, published, up, subscribed, calls, wire, missed, faults>>

(* errorChanged: exit(1), and the program starts anew.                     *)
MqttError ==
  /\ Fault
  /\ mqtt' = "connecting" /\ up' = FALSE /\ calls' = {} /\ subscribed' = {}
  /\ wire' = <<>> /\ missed' = missed \cup InWire
  /\ UNCHANGED <<value, published>>

(* Mutant: a signal that cannot be published is kept for later.            *)
OnSignalLater ==
  /\ up /\ wire # <<>>
  /\ LET s == Head(wire)
     IN  IF mqtt = "connected"
           THEN published' = [published EXCEPT ![s.topic] = s.value] /\ wire' = Tail(wire)
           ELSE wire' = Append(Tail(wire), s) /\ UNCHANGED published
  /\ UNCHANGED <<value, up, subscribed, calls, mqtt, missed, faults>>

(* onRpcMessageReceived of a signal.                                       *)
OnSignal ==
  /\ up /\ wire # <<>> /\ wire' = Tail(wire)
  /\ LET s == Head(wire)
     IN  IF mqtt = "connected"
           THEN published' = [published EXCEPT ![s.topic] = s.value] /\ UNCHANGED missed
           ELSE missed' = missed \cup {s.topic} /\ UNCHANGED published
  /\ UNCHANGED <<value, up, subscribed, calls, mqtt, faults>>

Changes ==
  /\ \E t \in Topics :
       /\ value[t] < MaxValue /\ value' = [value EXCEPT ![t] = @ + 1]
       /\ IF t \in subscribed
            THEN /\ Len(wire) < MaxWire /\ wire' = Append(wire, [topic |-> t, value |-> value'[t]])
                 /\ missed' = missed \ {t}
            ELSE missed' = missed \cup {t} /\ UNCHANGED wire
  /\ UNCHANGED <<published, up, subscribed, calls, mqtt, faults>>

Next ==
  \/ BrokerConnected \/ BrokerDisconnected \/ Subscribed \/ MqttConnected \/ MqttError \/ OnSignal \/ Changes

FairSpec ==
  /\ Init /\ [][Next]_mbVars
  /\ WF_mbVars(BrokerConnected) /\ WF_mbVars(Subscribed) /\ WF_mbVars(MqttConnected) /\ WF_mbVars(OnSignal)

(* A topic never goes back to an older value.                              *)
NeverBack == [][\A t \in Topics : published'[t] >= published[t]]_mbVars

(* It is at the newest one once its signals are published, unless that     *)
(* change was missed for want of a connection.                             *)
NewestPublished == \A t \in Topics \ missed : t \notin InWire => published[t] = value[t]

(* In the end every path is subscribed again.                              *)
SubscribedAgain == <>[](up /\ subscribed = Topics)
=============================================================================
