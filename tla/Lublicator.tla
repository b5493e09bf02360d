------------------------------ MODULE Lublicator -----------------------------
(***************************************************************************)
(* revitestdevice: the disconnector it simulates (lublicator.cpp).         *)
(*                                                                         *)
(* The status is a set of bits.  The commands move the position through    *)
(* PosMiddle, the battery bits follow the voltage and two thresholds, and  *)
(* sim_set writes any status.  Each status goes to the journal and to the  *)
(* broker; what one call sends is `sent` here.                             *)
(***************************************************************************)
EXTENDS Integers, Sequences

CONSTANTS
  MinVoltage, MaxVoltage,   \* 18 and 30 in the code, where it drifts between them
  InitVoltage, InitLow, InitHigh

LublicatorAssumption ==
  /\ MinVoltage \in Nat /\ MaxVoltage \in Nat /\ MinVoltage < MaxVoltage
  /\ InitVoltage \in MinVoltage .. MaxVoltage
  /\ InitLow \in MinVoltage .. MaxVoltage /\ InitHigh \in MinVoltage .. MaxVoltage
  /\ InitLow < InitVoltage /\ InitVoltage < InitHigh

VARIABLES
  status,     \* m_status: the bits that are set
  voltage, low, high,
  sent,       \* the statuses that the last call has sent and logged
  simulated   \* history: has sim_set written the status since the battery was checked?

lubVars == <<status, voltage, low, high, sent, simulated>>

Positions == {"PosOff", "PosOn", "PosMiddle"}
Bits == Positions \cup {"PosInternalOff", "PosInternalOn", "BatteryLow", "BatteryHigh"}
Voltages == MinVoltage .. MaxVoltage

TypeOK ==
  /\ status \subseteq Bits /\ simulated \in BOOLEAN
  /\ voltage \in Voltages /\ low \in Voltages /\ high \in Voltages

Init ==
  /\ status = {} /\ voltage = InitVoltage /\ low = InitLow /\ high = InitHigh
  /\ sent = <<>> /\ simulated = FALSE

(* setStatus, once or twice in a call: only a change is sent.              *)
Change(before, s) == IF s = before THEN <<>> ELSE <<s>>

SetStatus(s) == status' = s /\ sent' = Change(status, s)

Moved(mid, s) == status' = s /\ sent' = Change(status, mid) \o Change(mid, s)

CmdOn ==
  /\ LET mid == (status \ {"PosInternalOff", "PosOff"}) \cup {"PosMiddle"}
     IN  IF status = (status \ {"PosMiddle"}) \cup {"PosInternalOn", "PosOn"}
           THEN status' = status /\ sent' = <<>>
           ELSE Moved(mid, (mid \ {"PosMiddle"}) \cup {"PosInternalOn", "PosOn"})
  /\ UNCHANGED <<voltage, low, high, simulated>>

(* PosInternalOff is cleared here too.                                     *)
CmdOff ==
  /\ LET mid == (status \ {"PosInternalOn", "PosOn"}) \cup {"PosMiddle"}
     IN  IF status = (status \ {"PosMiddle", "PosInternalOff"}) \cup {"PosOff"}
           THEN status' = status /\ sent' = <<>>
           ELSE Moved(mid, (mid \ {"PosMiddle", "PosInternalOff"}) \cup {"PosOff"})
  /\ UNCHANGED <<voltage, low, high, simulated>>

CheckBatteryTresholds(v, lo, hi) ==
  /\ SetStatus((status \ {"BatteryHigh", "BatteryLow"})
                 \cup (IF v >= hi THEN {"BatteryHigh"} ELSE {})
                 \cup (IF v <= lo THEN {"BatteryLow"} ELSE {}))
  /\ simulated' = FALSE

SetBatteryVoltage(v) ==
  IF v = voltage
    THEN sent' = <<>> /\ UNCHANGED <<status, voltage, low, high, simulated>>
    ELSE voltage' = v /\ CheckBatteryTresholds(v, low, high) /\ UNCHANGED <<low, high>>

SimSetBatteryVoltage == \E v \in Voltages : SetBatteryVoltage(v)

(* The timer of the drift.                                                 *)
Drift == SetBatteryVoltage(IF voltage + 1 > MaxVoltage THEN MinVoltage ELSE voltage + 1)

SetTreshold ==
  \E t \in Voltages :
    /\ \/ low' = t /\ high' = high
       \/ high' = t /\ low' = low
    /\ CheckBatteryTresholds(voltage, low', high')
    /\ UNCHANGED voltage

SimSet ==
  /\ \E s \in SUBSET Bits : SetStatus(s)
  /\ simulated' = TRUE
  /\ UNCHANGED <<voltage, low, high>>

Next == CmdOn \/ CmdOff \/ SimSetBatteryVoltage \/ Drift \/ SetTreshold \/ SimSet

Spec == Init /\ [][Next]_lubVars

(* The bits of the battery agree with the voltage and the thresholds, and  *)
(* commands and voltages never send a position that has jumped from On to  *)
(* Off or back without PosMiddle, unless sim_set has written the status.   *)
Jumps(s, t) == {s \cap Positions, t \cap Positions} = {{"PosOff"}, {"PosOn"}}
BitsAgree ==
  [][/\ ~simulated' => /\ ("BatteryHigh" \in status') = (voltage' >= high')
                       /\ ("BatteryLow" \in status') = (voltage' <= low')
     /\ simulated' \/ ~Jumps(status, status') \/ "PosMiddle" \in sent'[1]]_lubVars
=============================================================================
