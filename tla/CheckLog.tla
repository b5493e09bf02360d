------------------------------ MODULE CheckLog -------------------------------
(***************************************************************************)
(* The log cache of one device in shvhistoryprovider: regular log files,   *)
(* each with all that the device has logged from its since to its until,   *)
(* and the dirty log, written from signals.  CheckLogTask finds what is    *)
(* missing (DirConsistencyCheckTask), downloads it chunk by chunk          *)
(* (DeviceLogRequest) and trims the dirty log; DirtyLogManager writes the  *)
(* dirty log; LogDirReader reads both for getLog.                          *)
(*                                                                         *)
(* An entry of the device is its time; a device logs at most once in a     *)
(* millisecond here.  Snapshots and types are left out.  The device        *)
(* answers for itself: the archive asked first for some devices            *)
(* (m_askElesys) is not modelled.                                          *)
(***************************************************************************)
EXTENDS Integers, FiniteSets, FiniteSetsExt

CONSTANTS
  MaxNow,   \* bound: the last instant
  Chunk,    \* CHUNK_RECORD_COUNT
  TrimAge,  \* trimDirtyLogInterval
  MaxFaults \* bound: deaths, failed calls and lost connections

CheckLogAssumption ==
  /\ MaxNow \in Nat \ {0} /\ Chunk \in Nat /\ Chunk > 2
  /\ TrimAge \in Nat /\ MaxFaults \in Nat

Times == 1..MaxNow
NoTime == 0  \* an invalid QDateTime

VARIABLES
  now,      \* the present instant
  logged,   \* the instants at which the device logged an entry
  running,  \* the process runs
  online,   \* the device is in m_onlineDevices
  files,    \* the regular files
  dirty,    \* the dirty log
  task,     \* the CheckLogTask: "none", "ReplaceDirtyLog", ...
  requests, \* its m_requests, in the order of their times; none yet while the
            \* directory is checked
  asked,    \* when the chunk awaited now was asked for
  clFaults  \* the faults so far

vars == <<now, logged, running, online, files, dirty, task, requests, asked, clFaults>>

(* A file that is damaged or was left half written (ok FALSE) has no       *)
(* header.                                                                 *)
File == [since : Times, until : Times \cup {NoTime}, recs : SUBSET Times,
         size : Nat, first : BOOLEAN, ok : BOOLEAN]

(* A dirty log: the time of its first line, the entries of the device in   *)
(* it, whether its last line says that data are missing from there, and    *)
(* how many lines there are, none when there is no such file.              *)
DirtyLog == [begin : Times \cup {NoTime}, data : SUBSET Times, gone : BOOLEAN, lines : Nat]
NoDirtyLog == [begin |-> NoTime, data |-> {}, gone |-> FALSE, lines |-> 0]

Interval == [since : Times \cup {NoTime}, until : Times \cup {NoTime}]
Kinds == {"ReplaceDirtyLog", "CheckDirtyLogState", "TrimDirtyLogOnly"}

-----------------------------------------------------------------------------
(* The directory.                                                          *)

LastOf(fs) == CHOOSE f \in fs : \A g \in fs : g.since <= f.since
FirstOf(fs) == CHOOSE f \in fs : \A g \in fs : g.since >= f.since
LastFile == LastOf(files)
LastUntil == IF files = {} THEN NoTime ELSE LastFile.until

(* The files of fs that begin after f, and the next one.                   *)
After(fs, f) == {g \in fs : g.since > f.since}
NextOf(fs, f) == FirstOf(After(fs, f))

(* LogDir::findFiles: from the file that holds since to those that begin   *)
(* not after until; the last file alone counts only if it reaches since.   *)
FindFiles(since, until) ==
  LET older == {f.since : f \in {g \in files : g.since <= since}}
      begin == IF since = NoTime \/ older = {} THEN 0 ELSE Max(older)
      found == {f \in files : f.since >= begin /\ (until # NoTime => f.since <= until)}
  IN IF found # {} /\ found = {LastFile} /\ LastFile.until < since THEN {} ELSE found

-----------------------------------------------------------------------------
(* The dirty log.                                                          *)

HasDirtyLog == dirty.lines # 0

(* checkDirtyLog: a new dirty log begins where the regular files end, with *)
(* marks for what is missing since then.                                   *)
CheckDirtyLog(d, connected) ==
  IF d.lines # 0 THEN d
  ELSE LET since == IF files = {} THEN now ELSE LastUntil
       IN [begin |-> since, data |-> {}, gone |-> ~connected,
           lines |-> IF ~connected THEN 2 ELSE IF since < now THEN 3 ELSE 1]

(* A line of data, or of where data begin or cease to be missing.          *)
WriteData(d, e) == [CheckDirtyLog(d, TRUE) EXCEPT !.data = @ \cup {e}, !.gone = FALSE,
                                                  !.lines = @ + 1]
WriteMark(d, gone) == [CheckDirtyLog(d, ~gone) EXCEPT !.gone = gone, !.lines = @ + 1]

(* insertDataMissingToDirtyLog: nothing is known after the last line.      *)
InsertDataMissing(d) ==
  LET e == CheckDirtyLog(d, FALSE) IN
  IF e.gone THEN e ELSE [e EXCEPT !.gone = TRUE, !.lines = @ + 1]

(* Mutant: what was logged at the border is kept, what is after it not.    *)
TrimmedFromEnd(d, until) ==
  IF d.lines = 0 \/ d.begin >= until THEN d
  ELSE [NoDirtyLog EXCEPT !.begin = until, !.data = {e \in d.data : e < until}, !.lines = 1]

(* trimDirtyLog: the log begins at until, marks of missing data go.        *)
TrimmedDirtyLog(d, until) ==
  IF d.lines = 0 \/ d.begin >= until THEN d
  ELSE LET data == {e \in d.data : e > until}
       IN [begin |-> until, data |-> data, gone |-> FALSE, lines |-> 1 + Cardinality(data)]

-----------------------------------------------------------------------------
Init ==
  /\ now = 1
  /\ logged \in SUBSET {1}
  /\ running = TRUE
  /\ online = FALSE
  /\ files = {}
  /\ dirty = [begin |-> 1, data |-> {}, gone |-> TRUE, lines |-> 2]
  /\ task = "none"
  /\ requests = {}
  /\ asked = NoTime
  /\ clFaults = 0

(* Time passes and the device may log an entry; the signal is recorded if  *)
(* the device is known to be online.                                       *)
Tick(entry) ==
  /\ now < MaxNow
  /\ now' = now + 1
  /\ logged' = IF entry THEN logged \cup {now + 1} ELSE logged
  /\ dirty' = IF entry /\ running /\ online
              THEN WriteData(dirty, now + 1) ELSE dirty
  /\ UNCHANGED <<running, online, files, task, requests, asked, clFaults>>

NoTask == task' = "none" /\ requests' = {} /\ asked' = NoTime

DeviceAppeared ==
  /\ running /\ ~online
  /\ online' = TRUE
  /\ dirty' = WriteMark(dirty, FALSE)
  /\ UNCHANGED <<now, logged, running, files, task, requests, asked, clFaults>>

(* CheckLogTask::abort and DirtyLogManager::onDeviceDisappeared.           *)
DeviceDisappeared ==
  /\ running /\ online /\ clFaults < MaxFaults
  /\ online' = FALSE
  /\ dirty' = WriteMark(dirty, TRUE)
  /\ NoTask
  /\ clFaults' = clFaults + 1
  /\ UNCHANGED <<now, logged, running, files>>

(* The connection to the broker is lost.  DeviceMonitor, connected first   *)
(* to the signal, has cleared the monitored devices when DirtyLogManager   *)
(* goes through them, so no mark is written.                               *)
BrokerLost ==
  /\ running /\ online /\ clFaults < MaxFaults
  /\ online' = FALSE
  /\ NoTask
  /\ clFaults' = clFaults + 1
  /\ UNCHANGED <<now, logged, running, files, dirty>>

(* A file cannot be read any more, while no task runs.                     *)
FileDamaged ==
  /\ task = "none" /\ clFaults < MaxFaults
  /\ \E f \in files :
       files' = (files \ {f}) \cup {[f EXCEPT !.ok = FALSE, !.until = NoTime]}
  /\ clFaults' = clFaults + 1
  /\ UNCHANGED <<now, logged, running, online, dirty, task, requests, asked>>

(* The process starts again: the constructor of DirtyLogManager.  It fails *)
(* if it must begin a dirty log after a file that cannot be read.          *)
Restart ==
  /\ ~running
  /\ ~HasDirtyLog /\ files # {} => LastFile.ok
  /\ running' = TRUE
  /\ dirty' = InsertDataMissing(dirty)
  /\ UNCHANGED <<now, logged, online, files, task, requests, asked, clFaults>>

-----------------------------------------------------------------------------
(* The check.                                                              *)

(* CheckLogTask::exec.  A dirty log that begins where the files end is     *)
(* replaced at once; otherwise the directory is checked first.             *)
Exec(kind) ==
  /\ running /\ online /\ task = "none"
  /\ \/ /\ kind = "TrimDirtyLogOnly"
        /\ dirty.begin # NoTime /\ files # {} /\ dirty.begin = LastUntil
        /\ task' = kind
        /\ requests' = {[since |-> dirty.begin, until |-> NoTime]}
        /\ asked' = now
     \/ /\ kind = "TrimDirtyLogOnly"
        /\ ~(dirty.begin # NoTime /\ files # {} /\ dirty.begin = LastUntil)
        /\ files # {} => LastFile.ok
        /\ task' = "ReplaceDirtyLog"
        /\ UNCHANGED <<requests, asked>>
     \/ /\ kind # "TrimDirtyLogOnly"
        /\ task' = kind
        /\ UNCHANGED <<requests, asked>>
  /\ UNCHANGED <<now, logged, running, online, files, dirty, clFaults>>

(* DirConsistencyCheckTask::run, on the files fs that can be read: the     *)
(* time before the first file unless it bears the firstLog mark, the gaps  *)
(* between files, and what is between the last one and the dirty log.      *)
Missing(kind, fs) ==
  LET first == FirstOf(fs)
      end == Max({NoTime} \cup {f.until : f \in fs})
      head == IF fs = {} \/ first.first THEN {} ELSE {[since |-> NoTime, until |-> first.since]}
      gaps == {[since |-> f.until, until |-> NextOf(fs, f).since] :
                 f \in {g \in fs : After(fs, g) # {} /\ g.until < NextOf(fs, g).since}}
      tail == IF kind = "ReplaceDirtyLog" \/ ~HasDirtyLog
              THEN {[since |-> end, until |-> NoTime]}
              ELSE IF end < dirty.begin THEN {[since |-> end, until |-> dirty.begin]} ELSE {}
  IN head \cup gaps \cup tail

(* checkDirtyLogState: a dirty log that is too old or too long is replaced *)
(* from its beginning, or from where the files end if that is later.       *)
Replaced(fs) ==
  LET since == Max({dirty.begin} \cup {f.until : f \in fs})
  IN IF dirty.begin # NoTime /\ (now - since > TrimAge \/ dirty.lines >= Chunk)
     THEN {[since |-> since, until |-> NoTime]} ELSE {}

(* The directory is checked, unreadable files being removed, and the       *)
(* requests are made.  The periodic check then reads the last file of the  *)
(* listing made before: if that file is gone the process ends with an      *)
(* exception nobody catches.                                               *)
Checked ==
  /\ running /\ task \in {"ReplaceDirtyLog", "CheckDirtyLogState"} /\ requests = {}
  /\ LET good == {f \in files : f.ok}
         todo == Missing(task, good)
                 \cup (IF task = "CheckDirtyLogState" THEN Replaced(good) ELSE {})
         thrown == task = "CheckDirtyLogState" /\ files # {} /\ ~LastFile.ok /\ HasDirtyLog
     IN /\ files' = good
        /\ \/ thrown /\ running' = FALSE /\ online' = FALSE /\ NoTask
           \/ /\ ~thrown
              /\ requests' = todo
              /\ task' = IF todo = {} THEN "none" ELSE task
              /\ asked' = IF todo = {} THEN NoTime ELSE now
              /\ UNCHANGED <<running, online>>
  /\ UNCHANGED <<now, logged, dirty, clFaults>>

-----------------------------------------------------------------------------
(* The download.                                                           *)

Rq == CHOOSE r \in requests : \A q \in requests : r.since <= q.since

(* getChunk: a file that ends where the request begins and is not full is  *)
(* continued.                                                              *)
Appends(f) == f.until = Rq.since /\ f.size < Chunk

Continued ==
  IF Rq.since = NoTime THEN {}
  ELSE LET found == FindFiles(Rq.since - 1, Rq.since)
       IN {f \in found : found = {f} /\ Appends(f)}

(* What the device answers when it has logged up to instant n: its oldest  *)
(* entries in the interval, at most a chunk of them.                       *)
Answer(n) ==
  LET all == {e \in logged : /\ e >= Rq.since /\ e <= n
                             /\ Rq.until # NoTime => e < Rq.until}
  IN {e \in all : Cardinality({d \in all : d < e}) < Chunk}

(* The until of the answer: where the chunk was cut, the end asked for, or *)
(* the last entry, or the time of the answer.                              *)
Untils(n) ==
  IF Cardinality(Answer(n)) = Chunk THEN {Max(Answer(n))}
  ELSE IF Rq.until # NoTime THEN {Rq.until}
  ELSE IF Answer(n) = {} THEN {NoTime} ELSE {Max(Answer(n)), n}

(* Mutant: the last instant is kept with what was got of it.               *)
KeptWhole(n, until) == Answer(n)

(* The last instant is left for the next chunk: it may not be complete.    *)
Kept(n, until) == Answer(n) \ {until}

(* An interval without an entry is stored with two marks instead.          *)
Marks(n) == IF Answer(n) = {} /\ Rq.since # NoTime /\ Rq.until # NoTime THEN 2 ELSE 0

(* appendToPreviousFile or saveToNewFile, which replaces a file of its     *)
(* name.                                                                   *)
Saved(n, until) ==
  LET recs == Kept(n, until)
      size == Cardinality(recs) + Marks(n)
      since == IF Rq.since # NoTime THEN Rq.since ELSE Min(Answer(n))
  IN IF size = 0 THEN files
     ELSE IF Continued # {}
     THEN LET f == CHOOSE g \in Continued : TRUE
          IN (files \ {f}) \cup
             {[f EXCEPT !.until = until, !.recs = @ \cup recs, !.size = @ + size]}
     ELSE {f \in files : f.since # since} \cup
          {[since |-> since, until |-> until, recs |-> recs, size |-> size,
            first |-> Rq.since = NoTime, ok |-> TRUE]}

(* finished of a request: the next one, or the end of the task.            *)
NextRequest ==
  /\ requests' = requests \ {Rq}
  /\ task' = IF requests = {Rq} THEN "none" ELSE task
  /\ asked' = IF requests = {Rq} THEN NoTime ELSE now

(* Mutant: the next chunk begins after the border.                         *)
NextChunkAfter(until) ==
  /\ requests' = (requests \ {Rq}) \cup {[Rq EXCEPT !.since = until + 1]}
  /\ asked' = now
  /\ UNCHANGED task

NextChunk(until) ==
  /\ requests' = (requests \ {Rq}) \cup {[Rq EXCEPT !.since = until]}
  /\ asked' = now
  /\ UNCHANGED task

DirtyAfter(n, until) ==
  IF Kept(n, until) = {} /\ Marks(n) = 0 THEN dirty ELSE TrimmedDirtyLog(dirty, until)

(* onChunkReceived, the answer given when n was the present instant.       *)
ChunkReceived(n) ==
  /\ requests # {}
  /\ \E until \in Untils(n) :
       \/ /\ until = NoTime
          /\ NextRequest
          /\ UNCHANGED <<files, dirty>>
       \/ /\ until # NoTime
          /\ files' = Saved(n, until)
          /\ dirty' = DirtyAfter(n, until)
          /\ IF Cardinality(Answer(n)) + Marks(n) < Chunk THEN NextRequest ELSE NextChunk(until)
  /\ UNCHANGED <<now, logged, running, online, clFaults>>

(* An error, a timeout or a file that cannot be read ends the task.        *)
RequestFails ==
  /\ requests # {} /\ clFaults < MaxFaults
  /\ NoTask
  /\ clFaults' = clFaults + 1
  /\ UNCHANGED <<now, logged, running, online, files, dirty>>

(* The process dies while it stores a chunk: the new file is half written; *)
(* the continued file is removed and the joined one not renamed yet; the   *)
(* chunk is stored and the dirty log not trimmed; the dirty log is removed *)
(* and the trimmed one not renamed.                                        *)
DiesStoring(n) ==
  /\ requests # {} /\ clFaults < MaxFaults
  /\ \E until \in Untils(n) \ {NoTime} :
       /\ Saved(n, until) # files
       /\ \/ /\ Continued = {}
             /\ files' = (Saved(n, until) \cap files) \cup
                         {[f EXCEPT !.ok = FALSE, !.until = NoTime] : f \in Saved(n, until) \ files}
             /\ UNCHANGED dirty
          \/ /\ Continued # {}
             /\ files' = files \ Continued
             /\ UNCHANGED dirty
          \/ /\ files' = Saved(n, until)
             /\ UNCHANGED dirty
          \/ /\ files' = Saved(n, until)
             /\ DirtyAfter(n, until) # dirty
             /\ dirty' = NoDirtyLog
  /\ running' = FALSE /\ online' = FALSE
  /\ NoTask
  /\ clFaults' = clFaults + 1
  /\ UNCHANGED <<now, logged>>

Next ==
  \/ \E entry \in BOOLEAN : Tick(entry)
  \/ DeviceAppeared \/ DeviceDisappeared \/ BrokerLost \/ FileDamaged \/ Restart
  \/ \E kind \in Kinds : Exec(kind)
  \/ Checked
  \/ \E n \in asked..now : ChunkReceived(n) \/ DiesStoring(n)
  \/ RequestFails

Spec == Init /\ [][Next]_vars

(* The periodic check of an online device is never given up (LogSanitizer),*)
(* the process is restarted and a device comes back.                       *)
Fairness ==
  /\ WF_vars(Exec("CheckDirtyLogState"))
  /\ WF_vars(Checked)
  /\ WF_vars(\E n \in asked..now : ChunkReceived(n))
  /\ WF_vars(Restart)
  /\ WF_vars(DeviceAppeared)

FairSpec == Spec /\ Fairness

-----------------------------------------------------------------------------
(* Reading.                                                                *)

(* LogDirReader: where a file does not begin where the one before ended,   *)
(* marks of missing data are put between their entries.                    *)
ReaderMarks ==
  {<<f.until, NextOf(files, f).since>> :
     f \in {g \in files : After(files, g) # {} /\ g.until < NextOf(files, g).since}}

(* getLog: the entries of the files found and then, unless they reach      *)
(* until, those of the dirty log, cut to the interval asked for            *)
(* (LogDirReader, GetLogMerge).                                            *)
Read(since, until) ==
  LET found == FindFiles(since, until)
      end == IF found = {} THEN LastUntil ELSE Max({f.until : f \in found})
      fromFiles == UNION {f.recs : f \in found}
      dirtyToo == files # {} /\ (until = NoTime \/ end < until)
  IN {e \in fromFiles \cup (IF dirtyToo THEN dirty.data ELSE {}) :
        e >= since /\ (until # NoTime => e < until)}

(* checkLogCache: the errors it reports for the files and the dirty log.   *)
CacheErrors ==
  {<<"unreadable", f.since>> : f \in {g \in files : ~g.ok}}
  \cup {<<"FirstFileMarkMissing", f.since>> :
          f \in {g \in files : g = FirstOf(files) /\ ~g.first}}
  \cup {<<"SinceUntilGap", m[1]>> : m \in ReaderMarks}
  \cup {<<"SinceUntilOverlap", f.since>> :
          f \in {g \in files : After(files, g) # {} /\ g.until > NextOf(files, g).since}}
  \cup (IF ~HasDirtyLog THEN {<<"DirtLogMissing", NoTime>>}
        ELSE IF dirty.begin > LastUntil THEN {<<"SinceUntilGap", LastUntil>>}
        ELSE IF dirty.begin < LastUntil THEN {<<"SinceUntilOverlap", LastUntil>>}
        ELSE {})

-----------------------------------------------------------------------------
TypeOK ==
  /\ now \in Times /\ logged \subseteq 1..now
  /\ running \in BOOLEAN /\ online \in BOOLEAN
  /\ files \subseteq File
  /\ dirty \in DirtyLog
  /\ task \in Kinds \cup {"none"}
  /\ requests \subseteq Interval
  /\ asked \in 0..now
  /\ clFaults \in 0..MaxFaults

(* A regular file holds exactly what the device logged from its since to   *)
(* its until, wherever chunks were cut, files continued or rewritten and   *)
(* the process died: saveToNewFile, appendToPreviousFile.                  *)
FilesWhole ==
  \A f \in files : f.ok => f.recs = {e \in logged : f.since <= e /\ e < f.until}

(* An entry leaves the dirty log only when a regular file has it, or when  *)
(* it is the instant at which the dirty log begins now, which the next     *)
(* download begins with; the process may die anywhere in between.          *)
TrimSafe ==
  [][\A e \in dirty.data \ dirty'.data :
       HasDirtyLog' => e = dirty'.begin \/ \E f \in files' : e \in f.recs]_vars

(* checkLogCache reports nothing only if nothing is missing: from the      *)
(* beginning of the device's log to the dirty log all is in the files.     *)
CleanIsWhole ==
  CacheErrors = {} =>
    \A e \in logged : e < dirty.begin => \E f \in files : e \in f.recs

(* getLog gives every entry of the interval that is in the regular files   *)
(* or in the dirty log, whatever the interval and however the two overlap, *)
(* once there is a regular file and while all can be read.  What the dirty *)
(* log alone has of a time between the files is not promised: it is read   *)
(* after the files only, the rest being marked as missing.                 *)
ReadsAll ==
  (files # {} /\ \A f \in files : f.ok) =>
    \A since \in 0..MaxNow : \A until \in {NoTime} \cup (since + 1)..MaxNow :
      \A e \in (UNION {f.recs : f \in files}) \cup {d \in dirty.data : d >= LastUntil} :
        (e >= since /\ (until # NoTime => e < until)) => e \in Read(since, until)

(* Everything is downloaded in the end, but for the last instant at which  *)
(* the device has logged: after failures, deaths and lost connections the  *)
(* periodic check finds the holes again.  It logs no more after MaxNow.    *)
CaughtUp ==
  <>[](\A e \in logged : (\E d \in logged : d > e) => \E f \in files : e \in f.recs)

=============================================================================
