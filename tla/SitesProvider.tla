--------------------------- MODULE SitesProvider ----------------------------
(***************************************************************************)
(* shvsitesprovider (AppRootNode of nodes.cpp) with --sync-sites: a timer  *)
(* and reloadSites requests clone the repository of sites with git, merge  *)
(* the clone into the local directory, and have it packed by tar into      *)
(* sites.tgz, which sites.info describes.                                  *)
(*                                                                         *)
(* git and tar are processes.  A tar is started by every merge; those      *)
(* still running go on, and they end in any order.                         *)
(*                                                                         *)
(* A path is a sequence of names; a tree gives every path its content, or  *)
(* Dir, or None.                                                           *)
(***************************************************************************)
EXTENDS Sequences, Naturals

CONSTANTS
  Paths,      \* the paths that occur, with all paths above them
  Contents,   \* contents of files
  FilesNode,  \* FILES_NODE, the name of a site's directory of files
  Skipped,    \* TEMPLATE_DIR and TARGET_DIR, names left out of the merge
  Repos,      \* the versions of the repository, a sequence of trees
  Locals,     \* trees the local directory may hold at first
  MaxTars,    \* bound: tars that run at a time
  MaxFaults   \* bound: processes that fail or are killed

Dir == "dir"
None == "none"

ASSUME PathsAssumption ==
  /\ \A p \in Paths : p \in Seq(STRING) /\ p # <<>>
  /\ \A p \in Paths : \A i \in 1..Len(p) : SubSeq(p, 1, i) \in Paths
  /\ Dir \notin Contents /\ None \notin Contents
  /\ FilesNode \notin Skipped

-----------------------------------------------------------------------------
(* mergeSitesDirs: the tree of a cloned repository is merged into the      *)
(* directory of sites, directory by directory.  The recursion of the code  *)
(* goes down into every directory of the clone; here each path tells by    *)
(* itself what becomes of it.                                              *)

Name(p) == p[Len(p)]
Above(p) == {SubSeq(p, 1, i) : i \in 1..(Len(p) - 1)}

\* What is not at the top lies in a directory.
Tree ==
  {t \in [Paths -> Contents \cup {Dir, None}] :
     \A p \in Paths : t[p] # None => \A q \in Above(p) : t[q] = Dir}

\* The merge comes to p in the clone.
Taken(git, p) == git[p] # None /\ \A q \in Above(p) \cup {p} : Name(q) \notin Skipped

\* It goes through the directory p is in.
Walked(git, p) == \A q \in Above(p) : Taken(git, q) /\ git[q] = Dir

\* A directory the clone does not have is removed with all that is in it, but
\* for directories of files.
Removed(files, git, p) ==
  files[p] = Dir /\ Walked(git, p) /\ ~Taken(git, p) /\ Name(p) # FilesNode

\* Mutant: directories of files are removed as well.
MergeRemovesFiles(files, git) ==
  [p \in Paths |->
     IF \E q \in Above(p) \cup {p} : files[q] = Dir /\ Walked(git, q) /\ ~Taken(git, q) THEN None
     ELSE IF Taken(git, p) THEN git[p] ELSE files[p]]

\* Mutant: a file that is there already is not replaced.
MergeKeepsOld(files, git) ==
  [p \in Paths |->
     IF \E q \in Above(p) \cup {p} : Removed(files, git, q) THEN None
     ELSE IF Taken(git, p) /\ files[p] = None THEN git[p] ELSE files[p]]

\* A directory is not replaced by a file, nor a file by a directory, and below a
\* file nothing can be put.
Blocked(files, git, p) ==
  \/ files[p] = Dir /\ git[p] # Dir
  \/ files[p] \in Contents /\ git[p] = Dir
  \/ \E q \in Above(p) : files[q] \in Contents

Merge(files, git) ==
  [p \in Paths |->
     IF \E q \in Above(p) \cup {p} : Removed(files, git, q) THEN None
     ELSE IF Taken(git, p) /\ ~Blocked(files, git, p) THEN git[p]
     ELSE files[p]]

-----------------------------------------------------------------------------
ASSUME ReposAssumption ==
  /\ \A v \in 1..Len(Repos) : Repos[v] \in Tree
  /\ Len(Repos) > 0 /\ Locals \subseteq Tree
  /\ MaxTars \in Nat \ {0} /\ MaxFaults \in Nat

VARIABLES
  repo,         \* the version in the remote repository
  local,        \* the local directory of sites
  merged,       \* the version merged last, 0 before, and when a merge was cut short
  downloading,  \* m_downloadingSites
  clone,        \* the version there was when git was started, 0 when it does not run
  synced,       \* m_sitesSyncedBefore: "never", "recent" (five seconds), "old"
  tars,         \* tars running: what they read, whether a merge came meanwhile,
                \* and whether the merge that started it is the last one
  tgz,          \* sites.tgz: what it holds, likewise
  info,         \* sites.info: the files it has the hash of, and for which tar
  faults

vars == <<repo, local, merged, downloading, clone, synced, tars, tgz, info, faults>>

Nothing == [p \in Paths |-> None]
NoInfo == [tree |-> Nothing, latest |-> FALSE]
NoArchive == [tree |-> Nothing, torn |-> FALSE, latest |-> FALSE]

Init ==
  /\ repo = 1
  /\ local \in Locals
  /\ merged = 0
  /\ downloading = FALSE
  /\ clone = 0
  /\ synced = "never"
  /\ tars = <<>>
  /\ tgz = NoArchive
  /\ info = NoInfo
  /\ faults = 0

Fault == faults < MaxFaults /\ faults' = faults + 1
Without(s, i) == SubSeq(s, 1, i - 1) \o SubSeq(s, i + 1, Len(s))

Push ==
  /\ repo < Len(Repos)
  /\ repo' = repo + 1
  /\ UNCHANGED <<local, merged, downloading, clone, synced, tars, tgz, info, faults>>

-----------------------------------------------------------------------------
(* Cloning.                                                                *)

\* downloadSites: nothing while a clone is under way.
DownloadSites ==
  /\ ~downloading /\ Len(tars) < MaxTars
  /\ downloading' = TRUE
  /\ clone' = repo
  /\ UNCHANGED <<repo, local, merged, synced, tars, tgz, info, faults>>

\* 500 ms after the start, then every half an hour.
Timeout == DownloadSites

\* A request within five seconds of the last download is answered, and that is all.
ReloadSites == synced # "recent" /\ DownloadSites

Elapsed ==
  /\ synced = "recent"
  /\ synced' = "old"
  /\ UNCHANGED <<repo, local, merged, downloading, clone, tars, tgz, info, faults>>

\* Mutant: after a failure the flag stays.
GitFailsBusy ==
  /\ clone # 0
  /\ Fault
  /\ clone' = 0
  /\ UNCHANGED <<repo, local, merged, downloading, synced, tars, tgz, info>>

\* It crashes, fails, or cannot be started.
GitFails ==
  /\ clone # 0
  /\ Fault
  /\ clone' = 0
  /\ downloading' = FALSE
  /\ UNCHANGED <<repo, local, merged, synced, tars, tgz, info>>

Overtaken(a) == [a EXCEPT !.latest = FALSE]

\* Mutant: tar is started before the merge.
MergeSitesPackedFirst(v) ==
  /\ local' = Merge(local, Repos[v])
  /\ tars' = Append([i \in 1..Len(tars) |-> [Overtaken(tars[i]) EXCEPT !.torn = TRUE]],
                    [tree |-> local, torn |-> FALSE, latest |-> TRUE])
  /\ tgz' = Overtaken(tgz) /\ info' = Overtaken(info)

\* The clone of version v is merged, and a tar is started that reads the result.
MergeSites(v) ==
  /\ local' = Merge(local, Repos[v])
  /\ tars' = Append([i \in 1..Len(tars) |-> [Overtaken(tars[i]) EXCEPT !.torn = TRUE]],
                    [tree |-> local', torn |-> FALSE, latest |-> TRUE])
  /\ tgz' = Overtaken(tgz) /\ info' = Overtaken(info)

\* git has cloned what was there when it looked; reloaded is sent, the clone removed.
GitFinished ==
  /\ clone # 0
  /\ \E v \in clone..repo : MergeSites(v) /\ merged' = v
  /\ synced' = "recent"
  /\ clone' = 0
  /\ downloading' = FALSE
  /\ UNCHANGED <<repo, faults>>

-----------------------------------------------------------------------------
(* Packing.                                                                *)

\* saveSitesTgz takes the hash of the files as they are now.
Saved(a) == [tree |-> local, latest |-> a.latest]

TarFinished(i) ==
  /\ tgz' = tars[i]
  /\ info' = Saved(tars[i])
  /\ tars' = Without(tars, i)
  /\ UNCHANGED <<repo, local, merged, downloading, clone, synced, faults>>

TarFails(i) ==
  /\ Fault
  /\ tars' = Without(tars, i)
  /\ UNCHANGED <<repo, local, merged, downloading, clone, synced, tgz, info>>

-----------------------------------------------------------------------------
(* The process is killed, with git and the tars, and started again.        *)
Restart ==
  /\ Fault
  /\ downloading' = FALSE
  /\ clone' = 0
  /\ synced' = "never"
  /\ tars' = <<>>
  /\ UNCHANGED repo

Killed == Restart /\ UNCHANGED <<local, merged, tgz, info>>

\* Some entries are merged and others are not, and of one the old file is
\* removed and the new one not there yet.
PartlyMerged(git) ==
  LET whole == Merge(local, git)
      replaced == {p \in Paths : Taken(git, p) /\ git[p] \in Contents}
  IN {[p \in Paths |-> IF p \in gone THEN None ELSE IF p \in done THEN whole[p] ELSE local[p]] :
        done \in SUBSET {p \in Paths : whole[p] # local[p]}, gone \in {{}} \cup {{p} : p \in replaced}}

KilledMerging ==
  /\ clone # 0
  /\ \E v \in clone..repo : local' \in PartlyMerged(Repos[v]) \cap Tree
  /\ merged' = 0
  /\ tgz' = Overtaken(tgz) /\ info' = Overtaken(info)
  /\ Restart

\* While sites.tgz is written, or before sites.info is, which may be empty then.
KilledSaving(i) ==
  /\ tgz' \in {tars[i], [tars[i] EXCEPT !.torn = TRUE, !.latest = FALSE]}
  /\ info' \in {info, NoInfo}
  /\ Restart
  /\ UNCHANGED <<local, merged>>

-----------------------------------------------------------------------------
Next ==
  \/ Push \/ Timeout \/ ReloadSites \/ Elapsed
  \/ GitFails \/ GitFinished
  \/ \E i \in 1..Len(tars) : TarFinished(i) \/ TarFails(i) \/ KilledSaving(i)
  \/ Killed \/ KilledMerging

Spec == Init /\ [][Next]_vars

\* The timer fires, and git and tar end sometime.
Fairness == WF_vars(Timeout) /\ WF_vars(GitFinished) /\ WF_vars(\E i \in 1..Len(tars) : TarFinished(i))

FairSpec == Spec /\ Fairness

-----------------------------------------------------------------------------
TypeOK ==
  /\ repo \in 1..Len(Repos) /\ merged \in 0..repo /\ clone \in 0..repo
  /\ local \in Tree
  /\ downloading = (clone # 0)
  /\ synced \in {"never", "recent", "old"}
  /\ tars \in Seq([tree : Tree, torn : BOOLEAN, latest : BOOLEAN]) /\ Len(tars) <= MaxTars
  /\ tgz \in [tree : Tree, torn : BOOLEAN, latest : BOOLEAN]
  /\ info \in [tree : Tree, latest : BOOLEAN]
  /\ faults \in 0..MaxFaults

\* After a merge, also one that follows a merge that was cut short, the local
\* directory is that of the merged version: its files are there as they are in
\* git, unless something of the other kind stands in their place, and there are
\* no other directories than git's and those of files (nodes.cpp:563-609).
SitesAsInGit ==
  merged # 0 =>
    LET git == Repos[merged] IN
    /\ \A p \in Paths : Taken(git, p) /\ git[p] \in Contents =>
         \/ local[p] = git[p]
         \/ local[p] = Dir
         \/ \E q \in Above(p) : local[q] \in Contents
    /\ \A p \in Paths : local[p] = Dir =>
         \/ Taken(git, p)
         \/ \E q \in Above(p) \cup {p} : Name(q) = FilesNode \/ git[q] \in Contents

\* A file put into the directory of files of a site is not lost as long as the
\* site is there, but for one that git replaces when the process is killed
\* between removal and renaming (nodes.cpp:586-588, 605).
FilesKept ==
  [][\A p \in Paths :
       local[p] \in Contents /\ Len(p) > 1 /\ p[Len(p) - 1] = FilesNode =>
         \/ local'[p] \in Contents
         \/ \E q \in Above(p) : Name(q) # FilesNode /\ local'[q] = None
         \/ merged' = 0]_vars

\* When the tar of the last merge was also the last to be saved, the archive
\* holds the local directory and the info describes it, though older tars run
\* while it is merged and the hash is taken later than the files are packed
\* (nodes.cpp:471-512, 514-523).
ArchiveMatches ==
  tgz.latest /\ info.latest => tgz.tree = local /\ ~tgz.torn /\ info.tree = local

\* When no more versions are pushed (Repos ends) the newest is merged in the
\* end (nodes.cpp:525-561).
NewestArrives == <>[](merged = repo)
=============================================================================
