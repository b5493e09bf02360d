---------------------------- MODULE PowerStatus ------------------------------
(***************************************************************************)
(* bfsview: the status of the power, read from a file which another        *)
(* program writes every 30 seconds and published as bfs1/pwrStatus         *)
(* (bfsviewapp.cpp, class PwrStatusNode and checkPowerSwitchStatusFile).   *)
(* The file has a line "name value stamp" for every switch.  It may be     *)
(* read half written; "to address this problem" a status is sent only if   *)
(* it does not change for 50 msec.                                         *)
(*                                                                         *)
(* A tick is 15 s.  A write and its notification take less than the 50 ms  *)
(* of the timer, which is what the comment of the code counts on.          *)
(***************************************************************************)
EXTENDS Integers, Sequences, SequencesExt

CONSTANTS
  Switches,   \* the names, in the order of the lines
  Limit,      \* LIMIT_SEC in ticks: 45 s
  MaxWrites,  \* bound: times the file is written
  MaxFaults   \* bound: connections lost

PowerStatusAssumption ==
  /\ Switches \in Seq(STRING) /\ Limit \in Nat \ {0} /\ MaxWrites \in Nat /\ MaxFaults \in Nat

Statuses == {"Unknown", "On", "Off"}

VARIABLES
  file,       \* the lines that can be read now, the last one maybe cut short
  target,     \* the lines the writer is writing
  writes,     \* how often it has written: the stamp of its lines
  watched,    \* does m_powerFileWatcher still watch the file?
  changed,    \* is a fileChanged signal on its way?
  seen,       \* m_powerSwitchStatus: the stamp of a switch and its age
  simulated,  \* isPwrStatusSimulate
  status, deferred, timer,   \* of the PwrStatusNode; is its timer running?
  up,         \* the connection to the broker
  published,  \* the last status sent
  psFaults

psVars == <<file, target, writes, watched, changed, seen, simulated, status, deferred, timer, up,
            published, psFaults>>

Names == Range(Switches)
Line(n, v, w) == [name |-> n, val |-> v, stamp |-> w, whole |-> TRUE]
Torn(line) == [line EXCEPT !.whole = FALSE]

TypeOK ==
  /\ {file[i].name : i \in DOMAIN file} \subseteq Names
  /\ seen \in [Names -> [stamp : 0 .. MaxWrites, age : 0 .. Limit]]
  /\ status \in Statuses /\ deferred \in Statuses /\ published \in Statuses
  /\ writes \in 0 .. MaxWrites /\ psFaults \in 0 .. MaxFaults
  /\ {watched, changed, simulated, timer, up} \subseteq BOOLEAN

Init ==
  /\ file = <<>> /\ target = <<>> /\ writes = 0 /\ watched = TRUE /\ changed = FALSE
  /\ seen = [n \in Names |-> [stamp |-> 0, age |-> 0]]
  /\ simulated \in BOOLEAN
  /\ status = "Unknown" /\ deferred = "Unknown" /\ published = "Unknown"
  /\ timer = FALSE /\ up = FALSE /\ psFaults = 0

(***************************************************************************)
(* checkPowerSwitchStatusFile.                                             *)
(***************************************************************************)
(* One line: a line cut short or an old one ends the reading, an X is      *)
(* skipped, a new stamp makes the line young again, On beats Off.          *)
ReadLine(acc, line) ==
  LET old == acc.seen[line.name]
      ts == IF old.stamp = line.stamp THEN old ELSE [stamp |-> line.stamp, age |-> 0]
  IN  CASE acc.end -> acc
        [] ~acc.end /\ ~line.whole -> [acc EXCEPT !.overall = "Unknown", !.end = TRUE]
        [] ~acc.end /\ line.whole /\ line.val = "X" -> acc
        [] OTHER ->
             IF ts.age >= Limit
               THEN [overall |-> "Unknown", end |-> TRUE, seen |-> [acc.seen EXCEPT ![line.name] = ts]]
               ELSE [overall |-> IF line.val = "On" \/ acc.overall = "Unknown" THEN line.val ELSE acc.overall,
                     end |-> FALSE, seen |-> [acc.seen EXCEPT ![line.name] = ts]]

FileRead == FoldLeft(ReadLine, [overall |-> "Unknown", end |-> FALSE, seen |-> seen], file)

(* setPwrStatus, sendPwrStatusChanged: the timer starts anew.              *)
SendChangedAtOnce(s) == deferred' = s /\ published' = (IF up THEN s ELSE published) /\ UNCHANGED timer

SendChanged(s) == deferred' = s /\ timer' = TRUE /\ UNCHANGED published

SetPwrStatus(s) ==
  /\ status' = s
  /\ IF s = status THEN UNCHANGED <<deferred, timer, published>> ELSE SendChanged(s)

CheckFile ==
  IF simulated
    THEN UNCHANGED <<seen, status, deferred, timer, published>>
    ELSE seen' = FileRead.seen /\ SetPwrStatus(FileRead.overall)

FileChanged ==
  /\ changed /\ changed' = FALSE
  /\ CheckFile
  /\ UNCHANGED <<file, target, writes, watched, simulated, up, psFaults>>

(* m_powerFileCheckTimer, and loadSettings which starts the watcher anew.  *)
CheckTimer ==
  /\ CheckFile
  /\ UNCHANGED <<file, target, writes, watched, changed, simulated, up, psFaults>>

LoadSettings ==
  /\ ~watched /\ watched' = TRUE
  /\ CheckFile
  /\ UNCHANGED <<file, target, writes, changed, simulated, up, psFaults>>

SimSet ==
  /\ simulated
  /\ \E s \in Statuses \ {status} : SetPwrStatus(s)
  /\ UNCHANGED <<file, target, writes, watched, changed, seen, simulated, up, psFaults>>

(***************************************************************************)
(* The timers and the connection.                                          *)
(***************************************************************************)
Quiet == file = target /\ ~changed

SendDeferred ==
  /\ timer /\ Quiet
  /\ timer' = FALSE
  /\ published' = IF up THEN deferred ELSE published
  /\ UNCHANGED <<file, target, writes, watched, changed, seen, simulated, status, deferred, up, psFaults>>

PublishTimer ==
  /\ up /\ SendChanged(status)
  /\ UNCHANGED <<file, target, writes, watched, changed, seen, simulated, status, up, psFaults>>

BrokerConnected ==
  /\ ~up /\ up' = TRUE
  /\ SendChanged(status)
  /\ UNCHANGED <<file, target, writes, watched, changed, seen, simulated, status, psFaults>>

BrokerDisconnected ==
  /\ up /\ psFaults < MaxFaults
  /\ up' = FALSE /\ psFaults' = psFaults + 1
  /\ UNCHANGED <<file, target, writes, watched, changed, seen, simulated, status, deferred, timer, published>>

Tick ==
  /\ Quiet /\ ~timer
  /\ \E n \in Names : seen[n].age < Limit
  /\ seen' = [n \in Names |-> [seen[n] EXCEPT !.age = IF @ < Limit THEN @ + 1 ELSE @]]
  /\ UNCHANGED <<file, target, writes, watched, changed, simulated, status, deferred, timer, up, published,
                 psFaults>>

(***************************************************************************)
(* The program that writes the file: it truncates it and writes line by    *)
(* line, or it renames a new file over it, which ends the watch.           *)
(***************************************************************************)
NewLines(vals) == [i \in DOMAIN Switches |-> Line(Switches[i], vals[i], writes + 1)]

Truncated ==
  /\ file = target /\ writes < MaxWrites
  /\ \E vals \in [DOMAIN Switches -> {"On", "Off", "X"}] : target' = NewLines(vals)
  /\ writes' = writes + 1 /\ file' = <<>> /\ changed' = watched
  /\ UNCHANGED <<watched, seen, simulated, status, deferred, timer, up, published, psFaults>>

Written ==
  /\ file # target
  /\ LET whole == IF file # <<>> /\ ~file[Len(file)].whole THEN Front(file) ELSE file
         line == target[Len(whole) + 1]
     IN  \/ file' = Append(whole, line)
         \/ whole = file /\ file' = Append(whole, Torn(line))
  /\ changed' = watched
  /\ UNCHANGED <<target, writes, watched, seen, simulated, status, deferred, timer, up, published, psFaults>>

Renamed ==
  /\ file = target /\ writes < MaxWrites
  /\ \E vals \in [DOMAIN Switches -> {"On", "Off", "X"}] : target' = NewLines(vals)
  /\ file' = target' /\ writes' = writes + 1
  /\ changed' = watched /\ watched' = FALSE
  /\ UNCHANGED <<seen, simulated, status, deferred, timer, up, published, psFaults>>

Next ==
  \/ FileChanged \/ CheckTimer \/ LoadSettings \/ SimSet \/ SendDeferred \/ PublishTimer
  \/ BrokerConnected \/ BrokerDisconnected \/ Tick \/ Truncated \/ Written \/ Renamed

Spec == Init /\ [][Next]_psVars

(***************************************************************************)
(* Properties.                                                             *)
(***************************************************************************)
(* What the whole file says: Unknown when a line is older than the limit,  *)
(* On if a switch is on, Off if one is off and none on.                    *)
Stale == \E i \in DOMAIN file :
           file[i].val # "X" /\ seen[file[i].name] = [stamp |-> file[i].stamp, age |-> Limit]
Values == {file[i].val : i \in DOMAIN file}
Said == CASE "On" \in Values -> "On" [] "On" \notin Values /\ "Off" \in Values -> "Off" [] OTHER -> "Unknown"

(* A status that is published while the file is watched is what the whole  *)
(* file says: neither a drop to Unknown nor a switch that is missing in a  *)
(* half written file is ever sent (sendPwrStatusChanged).                  *)
PublishedIsWhole ==
  [][published' # published /\ watched /\ ~simulated
       => published' = Said \/ (published' = "Unknown" /\ Stale)]_psVars
=============================================================================
