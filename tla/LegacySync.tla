----------------------------- MODULE LegacySync -----------------------------
(***************************************************************************)
(* The sync of a device that has only getLog: LegacyFileSyncerImpl and     *)
(* writeEntriesToFile of shvjournalnode.cpp in historyprovider3, with      *)
(* trimDirtyLog and the dirty log writer.  One device; its log is fetched  *)
(* in batches of at most Limit entries, the last millisecond of each batch *)
(* being left for the next one.                                            *)
(*                                                                         *)
(* An entry has a number and a time; number 0 marks the entries of a       *)
(* snapshot, which bear the time the batch was asked from.                 *)
(***************************************************************************)
EXTENDS Integers, Sequences, FiniteSets, SequencesExt

CONSTANTS
  MaxEvents,  \* bound: number of entries the device ever logs
  Stamp,      \* Stamp[e]: time of the e-th entry
  Limit,      \* RECORD_COUNT_LIMIT
  SnapSize,   \* entries of a snapshot
  MaxPerFile, \* MAX_ENTRIES_PER_FILE
  MaxHorizon, \* bound: how far now - cacheInitMaxAge may advance
  MaxFaults   \* bound: failed calls and aborted syncs

Events == 1..MaxEvents

\* the times entries bear, and those a getLog may ask from
Times == 0..MaxHorizon \cup {Stamp[e] : e \in Events}
Starts == Times \cup {t + 1 : t \in Times}

\* a batch from the time of any entry holds more than the snapshot and that time
ASSUME ConstantsAssumption ==
  /\ MaxEvents \in Nat /\ MaxHorizon \in Nat /\ MaxFaults \in Nat
  /\ Stamp \in [Events -> Nat]
  /\ \A e1, e2 \in Events : e1 <= e2 => Stamp[e1] <= Stamp[e2]
  /\ Limit \in Nat \ {0} /\ SnapSize \in Nat /\ MaxPerFile \in Nat
  /\ \A d \in Events :
       SnapSize + Cardinality({e \in Events : Stamp[e] = Stamp[d]}) < Limit

VARIABLES
  logged,   \* how many entries the device has logged
  files,    \* the cached files by name, the time of their first entry
  dirty,    \* the entries of the dirty log
  sync,     \* the LegacyFileSyncerImpl, see Syncer
  horizon,  \* now - cacheInitMaxAge
  faults,   \* the faults so far
  recorded  \* history: the entries ever appended to the dirty log

vars == <<logged, files, dirty, sync, horizon, faults, recorded>>

Entry == [ev : 0..MaxEvents, at : Times]
NoName == -1

(* since and withSnapshot of get_log_params, downloaded_entries,           *)
(* newest_file_entry_count, file_name_hint; seen is what the device had    *)
(* logged when the call was sent.                                          *)
Syncer == [active : BOOLEAN, since : Starts, snapshot : BOOLEAN,
           got : Seq(Entry), count : Nat, hint : Times \cup {NoName},
           seen : 0..MaxEvents]

NoSync == [active |-> FALSE, since |-> 0, snapshot |-> FALSE, got |-> <<>>,
           count |-> 0, hint |-> NoName, seen |-> 0]

Init ==
  /\ logged = 0
  /\ files = [t \in Times |-> <<>>]
  /\ dirty = {}
  /\ sync = NoSync
  /\ horizon = 0
  /\ faults = 0
  /\ recorded = {}

Newest(fs) == CHOOSE t \in Times :
  fs[t] # <<>> /\ \A u \in Times : fs[u] # <<>> => u <= t

-----------------------------------------------------------------------------
(* The environment.                                                        *)

RemoteAppend ==
  /\ logged < MaxEvents
  /\ logged' = logged + 1
  /\ UNCHANGED <<files, dirty, sync, horizon, faults, recorded>>

TimePasses ==
  /\ horizon < MaxHorizon
  /\ horizon' = horizon + 1
  /\ UNCHANGED <<logged, files, dirty, sync, faults, recorded>>

(* A chng or cmdlog signal; signals arrive in order, some are lost.        *)
Record(e) ==
  /\ e <= logged
  /\ \A r \in recorded : r < e
  /\ dirty' = dirty \cup {e}
  /\ recorded' = recorded \cup {e}
  /\ UNCHANGED <<logged, files, sync, horizon, faults>>

(* getLog on the device when it has logged n entries.                      *)
Remote(n) ==
  LET older == {e \in Events : Stamp[e] < sync.since}
      first == Cardinality(older) + 1
      snap  == IF sync.snapshot /\ first > 1
               THEN [i \in 1..SnapSize |-> [ev |-> 0, at |-> sync.since]]
               ELSE <<>>
      log   == [i \in 1..n |-> [ev |-> i, at |-> Stamp[i]]]
  IN snap \o SubSeq(log, first, n)

Batch(n) == SubSeq(Remote(n), 1, IF Len(Remote(n)) < Limit THEN Len(Remote(n)) ELSE Limit)

-----------------------------------------------------------------------------
(* Writing to the cache.                                                   *)

(* trimDirtyLog when the files are fs, the newest one not empty.           *)
Trimmed(fs) == {e \in dirty : Stamp[e] >= Last(fs[Newest(fs)]).at}

(* writeEntriesToFile: nothing is trimmed when there is nothing to write.  *)
Store(entries) ==
  IF entries = <<>> THEN UNCHANGED <<files, dirty>>
  ELSE LET name == IF sync.hint # NoName THEN sync.hint ELSE Head(entries).at IN
       /\ files' = [files EXCEPT ![name] = @ \o entries]
       /\ dirty' = Trimmed(files')

Finish(entries) == Store(entries) /\ sync' = NoSync

-----------------------------------------------------------------------------
(* Mutant: the sync resumes one millisecond too late.                      *)
ResumeLate(name) == Last(files[name]).at + 2

(* Where the sync resumes after the newest file.                           *)
ResumeAfter(name) == Last(files[name]).at + 1

(* The constructor: resume after the newest cached entry, or start from    *)
(* the horizon with a snapshot.                                            *)
StartSync ==
  /\ ~sync.active
  /\ \/ /\ \A t \in Times : files[t] = <<>>
        /\ sync' = [NoSync EXCEPT !.active = TRUE, !.since = horizon,
                                  !.snapshot = TRUE, !.seen = logged]
     \/ /\ \E t \in Times : files[t] # <<>>
        /\ LET name == Newest(files) IN
           sync' = [NoSync EXCEPT !.active = TRUE, !.since = ResumeAfter(name),
                                  !.count = Len(files[name]), !.hint = name,
                                  !.seen = logged]
  /\ UNCHANGED <<logged, files, dirty, horizon, faults, recorded>>

(* Mutant: the last millisecond is taken as it is.                         *)
WholeBatch(batch) == batch

(* The entries of a batch up to the first one of its last millisecond, of  *)
(* which there may be more.                                                *)
LastBegins(batch) ==
  CHOOSE i \in 1..Len(batch) :
    /\ batch[i].at = Last(batch).at
    /\ \A j \in 1..(i - 1) : batch[j].at # Last(batch).at

Complete(batch) == SubSeq(batch, 1, LastBegins(batch) - 1)

(* The file is full: what is there is stored, and the next file begins     *)
(* with a snapshot.                                                        *)
Split(got, since) ==
  /\ Store(got)
  /\ sync' = [sync EXCEPT !.since = since, !.snapshot = TRUE, !.got = <<>>,
                          !.count = 0, !.hint = NoName, !.seen = logged]

Continue(got, since) ==
  sync' = [sync EXCEPT !.since = since, !.snapshot = FALSE, !.got = got,
                       !.seen = logged]

(* The answer of getLog, given when n entries were logged.                 *)
Answer(n) ==
  /\ sync.active
  /\ LET batch == Batch(n)
         got == sync.got \o Complete(batch)
     IN \/ /\ batch = <<>>
           /\ Finish(sync.got)
           /\ UNCHANGED <<logged, horizon, faults, recorded>>
        \/ /\ batch # <<>> /\ Len(batch) < Limit
           /\ Finish(got)
           /\ UNCHANGED <<logged, horizon, faults, recorded>>
        \/ /\ Len(batch) = Limit
           /\ Len(got) + sync.count > MaxPerFile
           /\ Split(got, Last(batch).at)
           /\ UNCHANGED <<logged, horizon, faults, recorded>>
        \/ /\ Len(batch) = Limit
           /\ Len(got) + sync.count <= MaxPerFile
           /\ Continue(got, Last(batch).at)
           /\ UNCHANGED <<logged, files, dirty, horizon, faults, recorded>>

(* Error or timeout: what was got so far is stored.                        *)
Fail ==
  /\ sync.active /\ faults < MaxFaults
  /\ Finish(sync.got)
  /\ faults' = faults + 1
  /\ UNCHANGED <<logged, horizon, recorded>>

(* The sites are reloaded or the process is killed between two batches.    *)
Abort ==
  /\ sync.active /\ faults < MaxFaults
  /\ sync' = NoSync
  /\ faults' = faults + 1
  /\ UNCHANGED <<logged, files, dirty, horizon, recorded>>

Next ==
  \/ RemoteAppend \/ TimePasses
  \/ \E e \in Events : Record(e)
  \/ StartSync
  \/ \E n \in sync.seen..logged : Answer(n)
  \/ Fail \/ Abort

Spec == Init /\ [][Next]_vars

Fairness ==
  /\ WF_vars(StartSync)
  /\ WF_vars(\E n \in sync.seen..logged : Answer(n))

FairSpec == Spec /\ Fairness

-----------------------------------------------------------------------------
TypeOK ==
  /\ logged \in 0..MaxEvents
  /\ files \in [Times -> Seq(Entry)]
  /\ dirty \subseteq recorded
  /\ sync \in Syncer
  /\ horizon \in 0..MaxHorizon
  /\ faults \in 0..MaxFaults
  /\ recorded \subseteq Events

InFile(t) == {files[t][i].ev : i \in 1..Len(files[t])} \ {0}
Cached == UNION {InFile(t) : t \in Times}

(* Across all cached files the entries of the device follow each other     *)
(* without a gap and without a duplicate, wherever the batches and the     *)
(* files were cut: reading the files in the order of their names gives     *)
(* consecutive numbers.                                                    *)
Consecutive ==
  /\ \A t \in Times : \A j \in 1..Len(files[t]) : \A i \in 1..(j - 1) :
       files[t][j].ev # 0 => files[t][i].ev < files[t][j].ev
  /\ \A t, u \in Times : t < u => \A d \in InFile(t), e \in InFile(u) : d < e
  /\ \A d, e \in Cached : \A m \in d..e : m \in Cached

(* A file whose name is not the oldest begins with a snapshot of what the  *)
(* files before it have left, so that it can be read by itself.            *)
SnapshotFirst ==
  \A t, u \in Times :
     t < u /\ files[t] # <<>> /\ files[u] # <<>> /\ SnapSize > 0
       => files[u][1].ev = 0

(* No entry that reached the dirty log is lost by trimming it, unless it   *)
(* had grown older than cacheInitMaxAge before the first sync.             *)
NoLoss ==
  \A e \in recorded : e \in dirty \/ e \in Cached \/ Stamp[e] < horizon

(* All that the device has logged is cached in the end, when it logs no    *)
(* more (at the latest after MaxEvents), but for its last millisecond and  *)
(* for what was too old at the start.                                      *)
CaughtUp ==
  <>[](\A e \in Events :
         logged > e /\ Stamp[logged] > Stamp[e] => e \in Cached \/ Stamp[e] < horizon)

=============================================================================
