------------------------------ MODULE ShortTimes -----------------------------
(***************************************************************************)
(* flatline: the times of the samples of a log.                            *)
(*                                                                         *)
(* An entry has a time stamp and maybe a short time, the low bits of the   *)
(* device's counter of milliseconds, which wraps (16 bits; Wrap here).     *)
(* The window adds up the wraps it sees, and starts again from the time    *)
(* stamp when the sum falls behind it (mainwindow.cpp: addLogEntry,        *)
(* convertShortTime).                                                      *)
(***************************************************************************)
EXTENDS Integers

CONSTANTS
  Wrap,      \* 65536
  Grain,     \* the time stamps are this coarse
  MaxTime    \* bound: the time of the last entry

ShortTimesAssumption == Wrap \in Nat \ {0} /\ Grain \in Nat \ {0} /\ MaxTime \in Nat

VARIABLES
  now,            \* when the device recorded the last entry
  msecTime,       \* m_msecTime
  shortTimePrev,  \* m_shortTimePrev
  raw,            \* are the entries from raw files?
  sample,         \* the last sample: recorded, stamp, the time it got, had it a short time?
  xmax            \* the largest time in the model of the graph

stVars == <<now, msecTime, shortTimePrev, raw, sample, xmax>>

NoSample == [at |-> 0, stamp |-> 0, time |-> 0, short |-> FALSE]
Stamp(t) == (t \div Grain) * Grain

TypeOK ==
  /\ now \in 0 .. MaxTime /\ msecTime \in Nat /\ xmax \in Nat
  /\ shortTimePrev \in 0 .. Wrap - 1 /\ raw \in BOOLEAN

Init ==
  /\ now \in 0 .. MaxTime /\ msecTime = 0 /\ shortTimePrev = 0 /\ raw \in BOOLEAN
  /\ sample = NoSample /\ xmax = 0

(* setLogData                                                              *)
SetLogData ==
  /\ msecTime' = 0 /\ shortTimePrev' = 0 /\ xmax' = 0 /\ sample' = NoSample
  /\ now' \in 0 .. MaxTime /\ raw' \in BOOLEAN

(* convertShortTime: what m_msecTime and the time become.                  *)
Wrapped(short) == IF short < shortTimePrev THEN msecTime + Wrap ELSE msecTime
Converted(short) == Wrapped(short) + short
Larger(a, b) == IF a < b THEN b ELSE a

AppendModelValue(at, stamp, time, short) ==
  /\ sample' = [at |-> at, stamp |-> stamp, time |-> time, short |-> short]
  /\ xmax' = Larger(xmax, time)

(* addLogEntry of an entry with a short time.                              *)
ShortTimeEntry(at, stamp, short) ==
  /\ shortTimePrev' = short
  /\ \/ /\ Converted(short) < stamp
        /\ msecTime' = stamp
        /\ AppendModelValue(at, stamp, stamp, TRUE)
     \/ /\ Converted(short) >= stamp
        /\ msecTime' = Wrapped(short)
        /\ AppendModelValue(at, stamp, Converted(short), TRUE)

(* The short time of an entry from a raw file is an Int and not a UInt     *)
(* (on_actOpenRawFiles_triggered), which addLogEntry does not look at.     *)
AddLogEntry ==
  \E t \in now .. MaxTime :
    /\ now' = t
    /\ IF raw THEN AppendModelValue(t, Stamp(t), Stamp(t), FALSE) /\ UNCHANGED <<msecTime, shortTimePrev>>
              ELSE ShortTimeEntry(t, Stamp(t), t % Wrap)
    /\ UNCHANGED raw

PlainEntry ==
  \E t \in now .. MaxTime :
    /\ now' = t
    /\ AppendModelValue(t, Stamp(t), Stamp(t), FALSE)
    /\ UNCHANGED <<msecTime, shortTimePrev, raw>>

(* The timer of runLiveSamples: a random step after the last sample.       *)
LiveSample ==
  /\ xmax < MaxTime
  /\ \E t \in xmax .. MaxTime : AppendModelValue(t, t, t, FALSE)
  /\ UNCHANGED <<now, msecTime, shortTimePrev, raw>>

Next == SetLogData \/ AddLogEntry \/ PlainEntry \/ LiveSample

Spec == Init /\ [][Next]_stVars

(* A sample is never drawn before its time stamp and less than one wrap    *)
(* after the moment it was recorded, and two samples with short times are  *)
(* drawn in the order in which they were recorded, whatever wraps are      *)
(* missed in the gaps of the log.                                          *)
TimesClose ==
  [][/\ sample'.time >= sample'.stamp /\ sample'.time < sample'.at + Wrap
     /\ sample.short /\ sample'.short => sample.time <= sample'.time]_stVars
=============================================================================
