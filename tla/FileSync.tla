------------------------------ MODULE FileSync ------------------------------
(***************************************************************************)
(* The file synchronisation of one slave history provider (or of one       *)
(* device) in historyprovider3: class FileSyncer of shvjournalnode.cpp,    *)
(* ShvJournalNode::trimDirtyLog, and the part of                           *)
(* ShvJournalNode::onRpcMessageReceived that appends to the dirty log.     *)
(*                                                                         *)
(* A journal file is identified by its directory (the site) and its name,  *)
(* which is the time it was opened at.  A log entry is abstracted to its   *)
(* position in the log of its site (an event number); Stamp gives its      *)
(* time in milliseconds, which several entries may share.  Sizes and       *)
(* offsets, bytes in the code, are counted in entries.                     *)
(***************************************************************************)
EXTENDS Integers, Sequences, FiniteSets, TLC

CONSTANTS
  Dirs,       \* leaf directories of the synced journal
  Root,       \* the journal's root directory, listed first for an HP3 slave
  SyncType,   \* FileSyncer::SyncType: "Device" or "HP3"
  Times,      \* the times a file may be named with
  MaxEvents,  \* bound: number of entries a site ever logs
  Stamp,      \* Stamp[e]: time of the e-th entry of a site
  ChunkSize,  \* m_downloadChunkSize
  MemLimit,   \* SYNCER_MEMORY_LIMIT
  MaxHorizon, \* bound: how far now - cacheInitMaxAge may advance
  MaxFaults,  \* bound: failed calls and aborted syncs
  Crashes     \* whether the process may be killed inside a handler

Events == 1..MaxEvents
Files == Dirs \X Times
Dir(f) == f[1]
Name(f) == f[2]

ASSUME ConstantsAssumption ==
  /\ Root \notin Dirs
  /\ SyncType \in {"Device", "HP3"}
  /\ IsFiniteSet(Dirs)
  /\ SyncType = "Device" => Cardinality(Dirs) = 1
  /\ Times \subseteq Nat
  /\ MaxEvents \in Nat
  /\ Stamp \in [Events -> Nat]
  /\ \A e1, e2 \in Events : e1 <= e2 => Stamp[e1] <= Stamp[e2]
  /\ ChunkSize \in Nat \ {0}
  /\ MemLimit \in Nat
  /\ MaxHorizon \in Nat
  /\ MaxFaults \in Nat
  /\ Crashes \in BOOLEAN

VARIABLES
  \* the remote journal: rfiles are the files lsfiles returns; file f holds the
  \* entries rbase[f]+1 .. rbase[f]+rsize[f] of its site; logged[d] counts them
  rfiles, rbase, rsize, logged,
  \* the cache on disk: journal files and the dirty log (its entries are in
  \* order of arrival, which is the order of their numbers)
  localFiles, local, dirty,
  \* the FileSyncer object: pending are the directories with an lsfiles call
  \* outstanding, counter is m_counter, listed the order of the answers,
  \* todo and job the m_downloadQueue, bufFiles and buf the m_downloadedFiles,
  \* usage is current_memory_usage
  phase, pending, counter, listed, todo, job, bufFiles, buf, usage, toTrim,
  \* now - cacheInitMaxAge, the faults so far
  horizon, faults,
  \* history: the entries ever appended to the dirty log
  recorded

remoteVars == <<rfiles, rbase, rsize, logged>>
cacheVars  == <<localFiles, local, dirty>>
syncerVars == <<phase, pending, counter, listed, todo, job, bufFiles, buf,
                usage, toTrim>>
vars == <<remoteVars, cacheVars, syncerVars, horizon, faults, recorded>>

Job   == [remote : Nat, local : Nat, got : Nat]
NoJob == [remote |-> 0, local |-> 0, got |-> 0]
In(fs, d) == {f \in fs : Dir(f) = d}

IsNewest(f, fs) == \A g \in In(fs, Dir(f)) : Name(g) <= Name(f)
IsOldest(f, fs) == \A g \in In(fs, Dir(f)) : Name(f) <= Name(g)
Last(s) == s[Len(s)]
SmallerOf(a, b) == IF a <= b THEN a ELSE b

Init ==
  /\ rfiles = {}
  /\ rbase = [f \in Files |-> 0]
  /\ rsize = [f \in Files |-> 0]
  /\ logged = [d \in Dirs |-> 0]
  /\ localFiles = {}
  /\ local = [f \in Files |-> <<>>]
  /\ dirty = [d \in Dirs |-> {}]
  /\ phase = "idle"
  /\ pending = {}
  /\ counter = 0
  /\ listed = <<>>
  /\ todo = {}
  /\ job = [f \in Files |-> NoJob]
  /\ bufFiles = {}
  /\ buf = [f \in Files |-> <<>>]
  /\ usage = 0
  /\ toTrim = {}
  /\ horizon = 0
  /\ faults = 0
  /\ recorded = [d \in Dirs |-> {}]

-----------------------------------------------------------------------------
(* The environment: the remote journal only grows at its end; the device   *)
(* opens a new file now and then and drops its oldest one; signals of the  *)
(* entries arrive in order, before or after the entry is in a remote file, *)
(* and those sent while the connection is down are lost.                   *)

RemoteOpen(d) ==
  /\ logged[d] < MaxEvents
  /\ LET f == <<d, Stamp[logged[d] + 1]>> IN
       /\ Name(f) \in Times
       /\ \A g \in In(rfiles, d) : Name(g) < Name(f)
       /\ rfiles' = rfiles \cup {f}
       /\ rbase' = [rbase EXCEPT ![f] = logged[d]]
       /\ rsize' = [rsize EXCEPT ![f] = 0]
  /\ UNCHANGED <<logged, cacheVars, syncerVars, horizon, faults, recorded>>

RemoteAppend(f) ==
  /\ f \in rfiles
  /\ IsNewest(f, rfiles)
  /\ logged[Dir(f)] < MaxEvents
  /\ rsize' = [rsize EXCEPT ![f] = @ + 1]
  /\ logged' = [logged EXCEPT ![Dir(f)] = @ + 1]
  /\ UNCHANGED <<rfiles, rbase, cacheVars, syncerVars, horizon, faults,
                 recorded>>

RemoteDrop(f) ==
  /\ f \in rfiles
  /\ IsOldest(f, rfiles)
  /\ ~IsNewest(f, rfiles)
  /\ rfiles' = rfiles \ {f}
  /\ UNCHANGED <<rbase, rsize, logged, cacheVars, syncerVars, horizon, faults,
                 recorded>>

TimePasses ==
  /\ horizon < MaxHorizon
  /\ horizon' = horizon + 1
  /\ UNCHANGED <<remoteVars, cacheVars, syncerVars, faults, recorded>>

(* onRpcMessageReceived: a chng or cmdlog signal goes to the dirty log.    *)
Record(d, e) ==
  /\ \A r \in recorded[d] : r < e
  /\ dirty' = [dirty EXCEPT ![d] = @ \cup {e}]
  /\ recorded' = [recorded EXCEPT ![d] = @ \cup {e}]
  /\ UNCHANGED <<remoteVars, localFiles, local, syncerVars, horizon, faults>>

-----------------------------------------------------------------------------
(* Writing to the cache.                                                   *)

(* Mutant: entries in the millisecond of the newest one go too.            *)
TrimmedStrictly(d, fs, l) ==
  {e \in dirty[d] :
     \A g \in In(fs, d) :
        IsNewest(g, fs) /\ l[g] # <<>> => Stamp[e] > Stamp[Last(l[g])]}

(* trimDirtyLog on directory d, when the cache holds files fs with data l: *)
(* keeps the entries that are not older than the last entry of the newest  *)
(* file; keeps all when there is no file or the newest one is empty.       *)
Trimmed(d, fs, l) ==
  {e \in dirty[d] :
     \A g \in In(fs, d) :
        IsNewest(g, fs) /\ l[g] # <<>> => Stamp[e] >= Stamp[Last(l[g])]}

(* writeFiles: every buffered file is appended to the file on disk.        *)
Appended(bf, b) ==
  [f \in Files |-> IF f \in bf THEN local[f] \o b[f] ELSE local[f]]

(* Mutant: the files are written in the order of a hash, not of the paths. *)
WrittenUnsorted(bf, ds, c) == {f \in bf \ {c} : Dir(f) \in ds}

(* When the process dies in the middle of file c, the files of bf written  *)
(* before it: they are written in the order of their paths, so the older   *)
(* ones of its own directory and those of some other directories ds.       *)
Written(bf, ds, c) ==
  {f \in bf : IF Dir(f) = Dir(c) THEN Name(f) < Name(c) ELSE Dir(f) \in ds}

(* Those are complete, and k entries of c's are written.                   *)
AppendedUpTo(bf, b, ds, c, k) ==
  [f \in Files |-> IF f = c THEN local[f] \o SubSeq(b[f], 1, k)
                   ELSE IF f \in Written(bf, ds, c) THEN local[f] \o b[f]
                   ELSE local[f]]

DieWriting(bf, b) ==
  /\ Crashes
  /\ \E c \in bf, ds \in SUBSET Dirs :
        /\ localFiles' = localFiles \cup {c} \cup Written(bf, ds, c)
        /\ \E k \in 0..Len(b[c]) : local' = AppendedUpTo(bf, b, ds, c, k)
  /\ UNCHANGED dirty

ResetSyncer ==
  /\ phase' = "idle"
  /\ pending' = {}
  /\ counter' = 0
  /\ listed' = <<>>
  /\ todo' = {}
  /\ job' = [f \in Files |-> NoJob]
  /\ bufFiles' = {}
  /\ buf' = [f \in Files |-> <<>>]
  /\ usage' = 0
  /\ toTrim' = {}

(* The finish lambda of downloadNext: write what is buffered, trim the     *)
(* dirty logs of the listed directories, done.  Trimming removes the dirty *)
(* log and writes the kept entries back one by one, so a process killed    *)
(* meanwhile leaves the first few of them in one directory.                *)
Finish(bf, b, ts) ==
  /\ \/ /\ localFiles' = localFiles \cup bf
        /\ local' = Appended(bf, b)
        /\ \/ dirty' = [d \in Dirs |-> IF d \in ts THEN Trimmed(d, localFiles', local')
                                      ELSE dirty[d]]
           \/ /\ Crashes
              /\ \E done \in SUBSET ts : \E c \in ts \ done, k \in 0..MaxEvents :
                   dirty' = [d \in Dirs |->
                      IF d = c THEN {e \in Trimmed(d, localFiles', local') : e <= k}
                      ELSE IF d \in done THEN Trimmed(d, localFiles', local')
                      ELSE dirty[d]]
     \/ DieWriting(bf, b)
  /\ ResetSyncer

-----------------------------------------------------------------------------
(* impl_doSync: listing the remote journal.                                *)

StartSync ==
  /\ phase = "idle"
  /\ phase' = "listing"
  /\ pending' = IF SyncType = "HP3" THEN {Root} ELSE Dirs
  /\ counter' = 1
  /\ UNCHANGED <<remoteVars, cacheVars, listed, todo, job, bufFiles, buf, usage,
                 toTrim, horizon, faults, recorded>>

(* The end of every lsfiles answer (the qScopeGuard): more calls were made *)
(* by the answer, ls, td, jb and ts what it makes of listed, todo, job and *)
(* toTrim.                                                                 *)
Answered(p, more, ls, td, jb, ts) ==
  LET c == (counter + Cardinality(more)) - 1 IN
  \/ /\ c = 0
     /\ td = {}
     /\ Finish({}, buf, ts)
  \/ /\ c # 0 \/ td # {}
     /\ phase' = IF c = 0 THEN "detect" ELSE phase
     /\ pending' = (pending \ {p}) \cup more
     /\ counter' = c
     /\ listed' = ls
     /\ todo' = td
     /\ job' = jb
     /\ toTrim' = ts
     /\ UNCHANGED <<cacheVars, bufFiles, buf, usage>>

(* The answer lists directories: list each of them.                        *)
ListDirs ==
  /\ Root \in pending
  /\ Answered(Root, {d \in Dirs : In(rfiles, d) # {}}, listed, todo, job, toTrim)
  /\ UNCHANGED <<remoteVars, horizon, faults, recorded>>

(* Mutant: the newest cached file counts as complete.                      *)
TooOldOrNewest(f) ==
  /\ IF In(localFiles, Dir(f)) = {}
     THEN Name(f) < horizon
     ELSE \E g \in In(localFiles, Dir(f)) : Name(f) <= Name(g)
  /\ SyncType = "Device" => \A e \in dirty[Dir(f)] : Name(f) < Stamp[e]

(* current_file is older than min(oldest dirty entry, newest local file);  *)
(* the dirty log looked at is the one of the cache directory of the slave, *)
(* which is the site's own directory for a device only.                    *)
TooOld(f) ==
  /\ IF In(localFiles, Dir(f)) = {}
     THEN Name(f) < horizon
     ELSE \E g \in In(localFiles, Dir(f)) : Name(f) < Name(g)
  /\ SyncType = "Device" => \A e \in dirty[Dir(f)] : Name(f) < Stamp[e]

ToDownload(d) ==
  {f \in In(rfiles, d) :
     /\ ~TooOld(f)
     /\ f \in localFiles => Len(local[f]) < rsize[f]}

(* The answer lists the files of directory d.                              *)
ListFiles(d) ==
  /\ d \in pending
  /\ d \in Dirs
  /\ Answered(d, {}, Append(listed, d), todo \cup ToDownload(d),
       [f \in Files |->
          IF f \in ToDownload(d)
          THEN [remote |-> rsize[f], local |-> Len(local[f]), got |-> 0]
          ELSE job[f]],
       IF In(rfiles, d) = {} THEN toTrim ELSE toTrim \cup {d})
  /\ UNCHANGED <<remoteVars, horizon, faults, recorded>>

ListFail(p) ==
  /\ p \in pending
  /\ faults < MaxFaults
  /\ faults' = faults + 1
  /\ Answered(p, {}, listed, todo, job, toTrim)
  /\ UNCHANGED <<remoteVars, horizon, recorded>>

-----------------------------------------------------------------------------
(* downloadNext: the queue is worked off in the order the directories were *)
(* listed in and, within a directory, in the order of the file names.      *)

(* Mutant: the file list is not sorted, the newest file comes first.       *)
BeforeUnsorted(f, g) ==
  \/ Dir(f) = Dir(g) /\ Name(f) > Name(g)
  \/ Dir(f) # Dir(g) /\ \E i, j \in DOMAIN listed :
        i < j /\ listed[i] = Dir(f) /\ listed[j] = Dir(g)

Before(f, g) ==
  \/ Dir(f) = Dir(g) /\ Name(f) < Name(g)
  \/ Dir(f) # Dir(g) /\ \E i, j \in DOMAIN listed :
        i < j /\ listed[i] = Dir(f) /\ listed[j] = Dir(g)

NonEmpty(td) == {f \in td : job[f].remote > 0}

(* Jobs for empty files are done at once, without a call: the file is      *)
(* entered into m_downloadedFiles with no data.                            *)
Leading(td) == {f \in td : \A g \in NonEmpty(td) : Before(f, g)}

IsFront(f) == f \in todo /\ \A g \in todo \ {f} : Before(f, g)

(* Calls read on the first file that is not empty.                         *)
ReadNext(td, jb, bf, b, u) ==
  /\ phase' = "reading"
  /\ todo' = td \ Leading(td)
  /\ job' = [f \in Files |-> IF f \in todo' THEN jb[f] ELSE NoJob]
  /\ bufFiles' = bf \cup Leading(td)
  /\ buf' = b
  /\ usage' = u
  /\ UNCHANGED <<pending, counter, listed, toTrim>>

(* The answer to dir, which tells how the parameters of read are passed.   *)
DetectOk ==
  /\ phase = "detect"
  /\ \E f \in rfiles : IsFront(f)
  /\ \/ /\ NonEmpty(todo) = {}
        /\ Finish(todo, buf, toTrim)
     \/ /\ NonEmpty(todo) # {}
        /\ ReadNext(todo, job, {}, buf, 0)
        /\ UNCHANGED cacheVars
  /\ UNCHANGED <<remoteVars, horizon, faults, recorded>>

(* An error fails when the budget allows it, or the file is gone.          *)
MayFail(f) ==
  /\ f \notin rfiles \/ faults < MaxFaults
  /\ faults' = IF f \in rfiles THEN faults + 1 ELSE faults

DetectFail ==
  /\ phase = "detect"
  /\ \E f \in todo : IsFront(f) /\ MayFail(f)
  /\ Finish({}, buf, toTrim)
  /\ UNCHANGED <<remoteVars, horizon, recorded>>

(* Mutant: what was downloaded before is not counted.                      *)
OffsetOfListing(f) == job[f].local

Offset(f) == job[f].local + job[f].got
WantedSize(f) == SmallerOf(job[f].remote - Offset(f), ChunkSize)
Chunk(f, off, n) == [i \in 1..n |-> rbase[f] + off + i]

(* A chunk of n entries arrives, possibly fewer than wanted.               *)
ReadOk(f, n) ==
  /\ phase = "reading"
  /\ IsFront(f)
  /\ f \in rfiles
  /\ n \in 1..WantedSize(f)
  /\ LET b  == [buf EXCEPT ![f] = @ \o Chunk(f, Offset(f), n)]
         bf == bufFiles \cup {f}
         jb == [job EXCEPT ![f].got = @ + n]
         td == IF Offset(f) + n = job[f].remote THEN todo \ {f} ELSE todo
     IN \/ /\ NonEmpty(td) = {}
           /\ Finish(bf \cup td, b, toTrim)
        \/ /\ NonEmpty(td) # {}
           /\ usage + n <= MemLimit
           /\ ReadNext(td, jb, bf, b, usage + n)
           /\ UNCHANGED cacheVars
        \/ /\ NonEmpty(td) # {}
           /\ usage + n > MemLimit
           /\ \/ /\ localFiles' = localFiles \cup bf
                 /\ local' = Appended(bf, b)
                 /\ UNCHANGED dirty
                 /\ ReadNext(td, jb, {}, [g \in Files |-> <<>>], 0)
              \/ /\ DieWriting(bf, b)
                 /\ ResetSyncer
  /\ UNCHANGED <<remoteVars, horizon, faults, recorded>>

(* An error, a timeout, a result of another type or too large: skip_rest   *)
(* drops the other files of the directory too.                             *)
ReadFail(f) ==
  /\ phase = "reading"
  /\ IsFront(f)
  /\ MayFail(f)
  /\ LET td == {g \in todo : Dir(g) # Dir(f)} IN
       \/ /\ NonEmpty(td) = {}
          /\ Finish(bufFiles \cup td, buf, toTrim)
       \/ /\ NonEmpty(td) # {}
          /\ ReadNext(td, job, bufFiles, buf, usage)
          /\ UNCHANGED cacheVars
  /\ UNCHANGED <<remoteVars, horizon, recorded>>

(* The node tree is reloaded or the process restarted between two handlers:*)
(* the syncer is gone with what it buffered.                               *)
Abort ==
  /\ phase # "idle"
  /\ faults < MaxFaults
  /\ faults' = faults + 1
  /\ ResetSyncer
  /\ UNCHANGED <<remoteVars, cacheVars, horizon, recorded>>

-----------------------------------------------------------------------------
Environment ==
  \/ \E d \in Dirs : RemoteOpen(d) \/ \E e \in Events : Record(d, e)
  \/ \E f \in Files : RemoteAppend(f) \/ RemoteDrop(f)
  \/ TimePasses

Syncer ==
  \/ StartSync
  \/ ListDirs
  \/ \E d \in Dirs : ListFiles(d)
  \/ \E p \in Dirs \cup {Root} : ListFail(p)
  \/ DetectOk
  \/ DetectFail
  \/ \E f \in Files : ReadFail(f) \/ \E n \in 1..ChunkSize : ReadOk(f, n)
  \/ Abort

Next == Environment \/ Syncer

Spec == Init /\ [][Next]_vars

(* Every call is answered in the end (a lost answer is a timeout), the     *)
(* periodic sync starts again, and the disk takes what is written.         *)
Fairness ==
  /\ WF_vars(StartSync)
  /\ WF_vars(ListDirs)
  /\ \A d \in Dirs : WF_vars(ListFiles(d))
  /\ WF_vars(DetectOk \/ DetectFail)
  /\ WF_vars(\E f \in Files : ReadFail(f) \/ \E n \in 1..ChunkSize : ReadOk(f, n))

FairSpec == Spec /\ Fairness

-----------------------------------------------------------------------------
(* Properties.                                                             *)

(* The state variables keep their types.                                   *)
TypeOK ==
  /\ rfiles \subseteq Files
  /\ rbase \in [Files -> Nat]
  /\ rsize \in [Files -> Nat]
  /\ logged \in [Dirs -> 0..MaxEvents]
  /\ localFiles \subseteq Files
  /\ local \in [Files -> Seq(Nat)]
  /\ dirty \in [Dirs -> SUBSET Events]
  /\ phase \in {"idle", "listing", "detect", "reading"}
  /\ pending \subseteq Dirs \cup {Root}
  /\ counter \in Nat
  /\ listed \in Seq(Dirs)
  /\ todo \subseteq Files
  /\ job \in [Files -> Job]
  /\ bufFiles \subseteq Files
  /\ buf \in [Files -> Seq(Nat)]
  /\ usage \in Nat
  /\ toTrim \subseteq Dirs
  /\ horizon \in Nat
  /\ faults \in Nat
  /\ recorded \in [Dirs -> SUBSET Events]

(* A cached file is a prefix of the remote one, whatever failed, was       *)
(* retried, resumed at an offset or written in part by a killed process:   *)
(* no chunk is repeated, skipped or put into another file.                 *)
PrefixOfRemote ==
  \A f \in Files :
    /\ Len(local[f]) <= rsize[f]
    /\ \A i \in 1..Len(local[f]) : local[f][i] = rbase[f] + i

(* Below the newest cached file of a site nothing the remote still has is  *)
(* missing, except what is older than cacheInitMaxAge.  The next sync      *)
(* relies on it: it looks at no file older than the newest cached one.     *)
NoHole ==
  \A g \in localFiles : \A f \in In(rfiles, Dir(g)) :
    horizon <= Name(f) /\ Name(f) < Name(g) =>
      f \in localFiles /\ Len(local[f]) = rsize[f]

HoldsEntry(f, e) == rbase[f] < e /\ e <= rbase[f] + rsize[f]
InCache(d, e) == \E f \in In(localFiles, d) : \E i \in DOMAIN local[f] : local[f][i] = e

(* Entry e is in a file that is no longer kept by the remote, or that is   *)
(* older than cacheInitMaxAge.                                             *)
Expired(d, e) ==
  \E f \in In(Files, d) : HoldsEntry(f, e) /\ (f \notin rfiles \/ Name(f) < horizon)

(* An entry that reached the dirty log stays readable, in the dirty log or *)
(* in a cached file: trimDirtyLog drops only what the cache holds.         *)
NoLoss ==
  \A d \in Dirs : \A e \in recorded[d] :
    e \in dirty[d] \/ InCache(d, e) \/ Expired(d, e)

(* The promise of the comment in impl_doSync that the oldest dirty entry   *)
(* is used as the threshold when syncing did not work and the remote files *)
(* got old: an entry of the dirty log is not lost by age.                  *)
NoLossByAge ==
  \A d \in Dirs : \A e \in recorded[d] :
    \/ e \in dirty[d] \/ InCache(d, e)
    \/ \E f \in In(Files, d) \ rfiles : HoldsEntry(f, e)

(* When the process may be killed in the middle of a handler an entry may  *)
(* be lost from the dirty log, but then only one that a later sync fetches:*)
(* it is not logged yet, or its remote file is not older than the newest   *)
(* cached one.                                                             *)
Recoverable ==
  \A d \in Dirs : \A e \in recorded[d] :
    \/ e \in dirty[d] \/ InCache(d, e) \/ Expired(d, e)
    \/ e > logged[d]
    \/ \E f \in In(rfiles, d) :
         HoldsEntry(f, e) /\ \A g \in In(localFiles, d) : Name(g) <= Name(f)

(* The cache is a replica of the remote journal, by what Replica promises. *)
Source == [f \in Files |-> Chunk(f, 0, rsize[f])]

Journal == INSTANCE Replica
  WITH held <- rfiles, source <- Source, present <- localFiles, copy <- local, limit <- horizon

Replicates == Journal!Spec

(* The downloads start once every lsfiles call has been answered:          *)
(* m_counter does not reach zero before (theorem ListingFirst of           *)
(* FileSyncProofs).                                                        *)
DownloadsAfterListing == phase \in {"detect", "reading"} => pending = {}

(* Once the remote is quiet and the faults are over, the cache catches up  *)
(* with every file that is recent enough.                                  *)
CaughtUp == <>[](\A f \in rfiles : Name(f) >= horizon =>
                    f \in localFiles /\ Len(local[f]) = rsize[f])

-----------------------------------------------------------------------------
(* Instances for TLC: four entries, the first two in the same millisecond, *)
(* or two; and nothing depends on which directory is which.                *)
Stamp4 == <<1, 1, 2, 3>>
Stamp2 == <<1, 2>>
Symmetry == Permutations(Dirs)
=============================================================================
