---------------------------- MODULE MCDownloads -----------------------------
(* Downloads of logs in pieces: that of historyprovider3 from devices that *)
(* know only getLog (LegacySync) and that of the old shvhistoryprovider    *)
(* (CheckLog).  They share no state: a behaviour is one of a part.         *)
EXTENDS LegacySync

CONSTANTS MaxNow, Chunk, TrimAge, CheckFaults \* those of CheckLog

VARIABLES
  part,
  now, clLogged, running, online, clFiles, clDirty, task, requests, asked, clFaults

\* the third millisecond has two entries
Stamp6 == <<1, 2, 3, 3, 4, 5>>

C == INSTANCE CheckLog WITH
  MaxFaults <- CheckFaults, logged <- clLogged, files <- clFiles, dirty <- clDirty

ASSUME CheckAssumption == C!CheckLogAssumption

cVars == <<now, clLogged, running, online, clFiles, clDirty, task, requests, asked, clFaults>>
allVars == <<part, vars, cVars>>

(* Of the parts that do not run, one initial state is enough.              *)
MCInit ==
  /\ part \in {"legacy", "checkLog"}
  /\ Init
  /\ C!Init /\ (part # "checkLog" => clLogged = {})

MCNext ==
  \/ part = "legacy" /\ Next /\ UNCHANGED <<part, cVars>>
  \/ part = "checkLog" /\ C!Next /\ UNCHANGED <<part, vars>>

(* The fairness of the two.                                                *)
MCSpec ==
  /\ MCInit /\ [][MCNext]_allVars
  /\ WF_vars(part = "legacy" /\ StartSync)
  /\ WF_vars(part = "legacy" /\ \E n \in sync.seen..logged : Answer(n))
  /\ WF_cVars(part = "checkLog" /\ C!Exec("CheckDirtyLogState"))
  /\ WF_cVars(part = "checkLog" /\ C!Checked)
  /\ WF_cVars(part = "checkLog" /\ \E n \in asked..now : C!ChunkReceived(n))
  /\ WF_cVars(part = "checkLog" /\ C!Restart)
  /\ WF_cVars(part = "checkLog" /\ C!DeviceAppeared)

-----------------------------------------------------------------------------
(* However batches and files are cut, the cached log has neither a gap nor *)
(* a duplicate, every file begins with a snapshot, and trimming the dirty  *)
(* log loses nothing (LegacySync).                                         *)
BatchesWhole == TypeOK /\ Consecutive /\ SnapshotFirst /\ NoLoss

(* All is cached in the end (LegacySync).                                  *)
LegacyCaughtUp == part = "legacy" => CaughtUp

(* A regular file holds exactly its interval of the log, a check that      *)
(* finds no error is right, and getLog reads all there is (CheckLog).      *)
FilesTrue == C!TypeOK /\ C!FilesWhole /\ C!CleanIsWhole /\ C!ReadsAll

(* An entry leaves the dirty log only for a regular file (CheckLog).       *)
TrimSafe == C!TrimSafe

(* All is downloaded in the end, after deaths, failures and lost           *)
(* connections (CheckLog).                                                 *)
ChecksCaughtUp == part = "checkLog" => C!CaughtUp
=============================================================================
