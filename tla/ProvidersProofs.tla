-------------------------- MODULE ProvidersProofs ---------------------------
(***************************************************************************)
(* Proofs about SitesProvider: what the merge of two trees is, for any     *)
(* trees; that an archive of the last merge is the directory merged; and   *)
(* that a merge takes no file out of a directory of files.  Then, in the   *)
(* specification that MCProviders composes, about the users' file          *)
(* (BrclabUsers), commands and their processes (AgentCommands,             *)
(* ShellProcess) and the MQTT bridge.                                      *)
(***************************************************************************)
EXTENDS MCProviders, SequenceTheorems, WellFoundedInduction, TLAPS

-----------------------------------------------------------------------------
(* Paths.                                                                  *)

LEMMA PathTypes == \A p \in Paths : p \in Seq(STRING) /\ Len(p) \in Nat
  BY PathsAssumption, LenProperties

(* The beginnings of a path are paths, and so are theirs.                  *)
LEMMA Beginnings ==
  ASSUME NEW p \in Paths, NEW i \in 1..Len(p)
  PROVE  /\ SubSeq(p, 1, i) \in Paths
         /\ Len(SubSeq(p, 1, i)) = i
         /\ \A j \in 1..i : SubSeq(SubSeq(p, 1, i), 1, j) = SubSeq(p, 1, j)
<1>1. p \in Seq(STRING) /\ Len(p) \in Nat /\ \A k \in 1..Len(p) : p[k] \in STRING
  BY PathTypes, ElementOfSeq
<1>2. SubSeq(p, 1, i) \in Paths
  BY PathsAssumption
<1>3. ASSUME NEW k \in 1..Len(p)
      PROVE  /\ SubSeq(p, 1, k) \in Seq(STRING) /\ Len(SubSeq(p, 1, k)) = k
             /\ \A m \in 1..k : SubSeq(p, 1, k)[m] = p[m]
  <2>1. k \in Int /\ 1 <= k /\ \A m \in 1..k : p[m] \in STRING
    BY <1>1
  <2> QED BY <1>1, <2>1, SubSeqProperties
<1>4. ASSUME NEW j \in 1..i PROVE SubSeq(SubSeq(p, 1, i), 1, j) = SubSeq(p, 1, j)
  <2> DEFINE q == SubSeq(p, 1, i)
  <2>1. q \in Seq(STRING) /\ Len(q) = i /\ \A m \in 1..i : q[m] = p[m]
    BY <1>3
  <2> HIDE DEF q
  <2>2. j \in Int /\ 1 <= j /\ j <= i /\ i <= Len(p) /\ i \in Int
    BY <1>1
  <2>3. \A m \in 1..j : q[m] \in STRING
    BY <1>1, <2>1, <2>2
  <2>4. /\ SubSeq(q, 1, j) \in Seq(STRING) /\ Len(SubSeq(q, 1, j)) = j
        /\ \A m \in 1..j : SubSeq(q, 1, j)[m] = q[m]
    BY <2>2, <2>3, SubSeqProperties
  <2>5. /\ SubSeq(p, 1, j) \in Seq(STRING) /\ Len(SubSeq(p, 1, j)) = j
        /\ \A m \in 1..j : SubSeq(p, 1, j)[m] = p[m]
    BY <1>1, <1>3, <2>2
  <2>6. \A m \in 1..j : SubSeq(q, 1, j)[m] = SubSeq(p, 1, j)[m]
    BY <2>1, <2>2, <2>4, <2>5
  <2>7. SubSeq(q, 1, j) = SubSeq(p, 1, j)
    BY <2>4, <2>5, <2>6, SeqEqual
  <2> QED BY <2>7 DEF q
<1> QED BY <1>2, <1>3, <1>4

(* The paths above a path, by their length.                                *)
LEMMA AboveFacts ==
  ASSUME NEW p \in Paths, NEW q \in Above(p)
  PROVE  /\ q \in Paths /\ Len(q) \in 1..(Len(p) - 1)
         /\ Above(q) = {r \in Above(p) : Len(r) < Len(q)}
<1>1. Len(p) \in Nat
  BY PathTypes
<1>2. PICK i \in 1..(Len(p) - 1) : q = SubSeq(p, 1, i)
  BY DEF Above
<1>3. i \in 1..Len(p) /\ i \in Nat
  BY <1>1
<1>4. q \in Paths /\ Len(q) = i /\ \A j \in 1..i : SubSeq(q, 1, j) = SubSeq(p, 1, j)
  BY <1>2, <1>3, Beginnings
<1>5. \A j \in 1..(Len(p) - 1) : j \in 1..Len(p) /\ Len(SubSeq(p, 1, j)) = j
  BY <1>1, Beginnings
<1>6. Above(q) = {SubSeq(p, 1, j) : j \in 1..(i - 1)}
  BY <1>3, <1>4 DEF Above
<1>7. {SubSeq(p, 1, j) : j \in 1..(i - 1)} = {r \in Above(p) : Len(r) < i}
  <2>1. ASSUME NEW j \in 1..(i - 1)
        PROVE  SubSeq(p, 1, j) \in Above(p) /\ Len(SubSeq(p, 1, j)) < i
    BY <1>1, <1>2, <1>5 DEF Above
  <2>2. ASSUME NEW r \in Above(p), Len(r) < i
        PROVE  \E j \in 1..(i - 1) : r = SubSeq(p, 1, j)
    BY <1>1, <1>2, <1>5, <2>2 DEF Above
  <2> QED BY <2>1, <2>2
<1> QED BY <1>4, <1>6, <1>7

(* A property some path above p has is one that the topmost such path has. *)
LEMMA Topmost ==
  ASSUME NEW p \in Paths, NEW W, W \subseteq Above(p), W # {}
  PROVE  \E q \in W : Above(q) \cap W = {}
<1> DEFINE L == {Len(q) : q \in W}
<1>1. \A q \in W : q \in Above(p) /\ Len(q) \in Nat /\ Above(q) = {r \in Above(p) : Len(r) < Len(q)}
  BY AboveFacts, PathTypes
<1>2. L \subseteq Nat /\ L # {}
  BY <1>1
<1>3. PICK n \in L : \A m \in L : ~(<<m, n>> \in OpToRel(<, Nat))
  <2> HIDE DEF L
  <2> QED BY <1>2, NatLessThanWellFounded, WFMin
<1>4. \A m \in L : ~(m < n)
  BY <1>2, <1>3 DEF OpToRel
<1>5. PICK q \in W : n = Len(q)
  OBVIOUS
<1> QED BY <1>1, <1>4, <1>5

-----------------------------------------------------------------------------
(* The merge of two trees.                                                 *)

LEMMA TreeFacts ==
  ASSUME NEW t \in Tree, NEW p \in Paths
  PROVE  /\ t[p] \in Contents \cup {Dir, None}
         /\ t[p] # None => \A q \in Above(p) : t[q] = Dir
  BY DEF Tree

(* What the merge makes of a path: it goes with a removed directory, or    *)
(* comes from git, or stays.                                               *)
LEMMA MergeCases ==
  ASSUME NEW held \in Tree, NEW git \in Tree, NEW p \in Paths
  PROVE  LET r == Merge(held, git) IN
         \/ /\ \E q \in Above(p) \cup {p} : Removed(held, git, q)
            /\ r[p] = None
         \/ /\ \A q \in Above(p) \cup {p} : ~Removed(held, git, q)
            /\ \/ Taken(git, p) /\ ~Blocked(held, git, p) /\ r[p] = git[p]
               \/ ~(Taken(git, p) /\ ~Blocked(held, git, p)) /\ r[p] = held[p]
  BY DEF Merge

(* What the merge comes to, is in directories it comes to.                 *)
LEMMA TakenAbove ==
  ASSUME NEW git \in Tree, NEW p \in Paths, Taken(git, p), NEW q \in Above(p)
  PROVE  Taken(git, q) /\ git[q] = Dir
<1>1. q \in Paths /\ Above(q) \subseteq Above(p)
  BY AboveFacts
<1>2. git[q] = Dir
  BY TreeFacts DEF Taken
<1>3. Dir # None
  BY DEF Dir, None
<1> QED BY <1>1, <1>2, <1>3 DEF Taken

(* The merge of two trees is a tree: nothing lies outside a directory.     *)
LEMMA MergeIsTree ==
  ASSUME NEW held \in Tree, NEW git \in Tree
  PROVE  Merge(held, git) \in Tree
<1> DEFINE r == Merge(held, git)
<1>1. r \in [Paths -> Contents \cup {Dir, None}]
  <2>1. \A p \in Paths : held[p] \in Contents \cup {Dir, None} /\ git[p] \in Contents \cup {Dir, None}
    BY TreeFacts
  <2> QED BY <2>1 DEF Merge
<1>2. ASSUME NEW p \in Paths, r[p] # None, NEW q \in Above(p)
      PROVE  r[q] = Dir
  <2>1. q \in Paths /\ Above(q) \subseteq Above(p)
    BY AboveFacts
  <2>2. \A o \in Above(q) \cup {q} : ~Removed(held, git, o)
    BY <1>2, <2>1, MergeCases
  <2>3. CASE Taken(git, p) /\ ~Blocked(held, git, p)
    <3>1. Taken(git, q) /\ git[q] = Dir
      BY <2>3, TakenAbove
    <3>2. ~Blocked(held, git, q)
      BY <2>1, <2>3, <3>1 DEF Blocked
    <3> QED BY <2>1, <2>2, <3>1, <3>2, MergeCases
  <2>4. CASE ~(Taken(git, p) /\ ~Blocked(held, git, p))
    <3>1. r[p] = held[p]
      BY <1>2, <2>4, MergeCases
    <3>2. held[q] = Dir
      BY <1>2, <3>1, TreeFacts
    <3>3. Taken(git, q) /\ ~Blocked(held, git, q) => git[q] = Dir
      BY <3>2 DEF Blocked
    <3> QED BY <2>1, <2>2, <3>2, <3>3, MergeCases
  <2> QED BY <2>3, <2>4
<1> HIDE DEF r
<1>3. r \in Tree
  BY <1>1, <1>2 DEF Tree
<1> QED BY <1>3 DEF r

(* The held of git arrive, unless something of the other kind is there.   *)
LEMMA MergeBringsFiles ==
  ASSUME NEW held \in Tree, NEW git \in Tree, NEW p \in Paths,
         Taken(git, p), git[p] \in Contents
  PROVE  LET r == Merge(held, git) IN
         \/ r[p] = git[p]
         \/ r[p] = Dir
         \/ \E q \in Above(p) : r[q] \in Contents
<1> DEFINE r == Merge(held, git)
<1>1. \A q \in Above(p) \cup {p} : ~Removed(held, git, q)
  BY TakenAbove DEF Removed
<1>2. CASE ~Blocked(held, git, p)
  BY <1>1, <1>2, MergeCases
<1>3. CASE held[p] = Dir /\ Blocked(held, git, p)
  BY <1>1, <1>3, MergeCases
<1>4. ASSUME NEW q \in Above(p), held[q] \in Contents
      PROVE  r[q] \in Contents
  <2>1. q \in Paths /\ Above(q) \subseteq Above(p)
    BY AboveFacts
  <2>2. git[q] = Dir
    BY TakenAbove
  <2>3. Blocked(held, git, q)
    BY <1>4, <2>2 DEF Blocked
  <2>4. r[q] = held[q]
    BY <1>1, <2>1, <2>3, MergeCases
  <2> QED BY <1>4, <2>4
<1>5. Blocked(held, git, p) => held[p] = Dir \/ \E q \in Above(p) : held[q] \in Contents
  BY PathsAssumption DEF Blocked
<1> QED BY <1>2, <1>3, <1>4, <1>5

(* The directories that stay are those of git, or directories of held.    *)
LEMMA MergeRemovesRest ==
  ASSUME NEW held \in Tree, NEW git \in Tree, NEW p \in Paths,
         Merge(held, git)[p] = Dir
  PROVE  \/ Taken(git, p)
         \/ \E q \in Above(p) \cup {p} : Name(q) = FilesNode \/ git[q] \in Contents
<1> SUFFICES ASSUME ~Taken(git, p), \A q \in Above(p) \cup {p} : git[q] \notin Contents
    PROVE  \E q \in Above(p) \cup {p} : Name(q) = FilesNode
  OBVIOUS
<1> DEFINE Left == {q \in Above(p) : ~Taken(git, q)}
<1>1. Dir # None
  BY DEF Dir, None
<1>2. /\ \A q \in Above(p) \cup {p} : ~Removed(held, git, q)
      /\ held[p] = Dir
  BY <1>1, MergeCases
<1>3. \A q \in Above(p) \cup {p} : q \in Paths /\ held[q] = Dir /\ Above(q) \subseteq Above(p)
  BY <1>1, <1>2, TreeFacts, AboveFacts
<1>4. PICK q \in Above(p) \cup {p} : ~Taken(git, q) /\ \A o \in Above(q) : Taken(git, o)
  <2>1. CASE Left = {}
    BY <2>1
  <2>2. CASE Left # {}
    <3>1. PICK q \in Left : Above(q) \cap Left = {}
      <4> HIDE DEF Left
      <4>1. Left \subseteq Above(p)
        BY DEF Left
      <4> QED BY <2>2, <4>1, Topmost
    <3> QED BY <1>3, <3>1
  <2> QED BY <2>1, <2>2
<1>5. \A o \in Above(q) : git[o] = Dir
  <2>1. \A o \in Above(q) : o \in Paths /\ git[o] \notin Contents /\ git[o] # None
    BY <1>3, <1>4 DEF Taken
  <2> QED BY <2>1, TreeFacts
<1>6. Walked(git, q)
  BY <1>4, <1>5 DEF Walked
<1>7. Name(q) = FilesNode
  BY <1>2, <1>3, <1>4, <1>6 DEF Removed
<1> QED BY <1>7

-----------------------------------------------------------------------------
(* The inductive invariant.                                                *)

Archive == [tree : Tree, torn : BOOLEAN, latest : BOOLEAN]

Whole(a) == a.latest => a.tree = local /\ ~a.torn

(* There is room for the tar of the clone that runs.                       *)
RoomForTar == clone # 0 => Len(tars) < MaxTars

(* What comes from the last merge is the local directory: the tars that    *)
(* run, the archive and the info.                                          *)
LatestInv ==
  /\ \A i \in 1..Len(tars) : Whole(tars[i])
  /\ Whole(tgz)
  /\ info.latest => info.tree = local

IInv == TypeOK /\ RoomForTar /\ LatestInv /\ SitesAsInGit

LEMMA NothingIsTree == Nothing \in Tree
  BY DEF Nothing, Tree

(* What a step keeps that leaves the local directory and the repository.   *)
LEMMA SitesAsInGitKept ==
  ASSUME SitesAsInGit, UNCHANGED <<local, merged>>
  PROVE  SitesAsInGit'
  BY DEF SitesAsInGit

LEMMA WithoutFacts ==
  ASSUME TypeOK, NEW i \in 1..Len(tars)
  PROVE  /\ Without(tars, i) \in Seq(Archive)
         /\ Len(Without(tars, i)) = Len(tars) - 1
         /\ \A k \in 1..Len(Without(tars, i)) : \E m \in 1..Len(tars) : Without(tars, i)[k] = tars[m]
<1> DEFINE a == SubSeq(tars, 1, i - 1)
           b == SubSeq(tars, i + 1, Len(tars))
<1>1. tars \in Seq(Archive) /\ Len(tars) \in Nat /\ \A k \in 1..Len(tars) : tars[k] \in Archive
  BY LenProperties, ElementOfSeq DEF TypeOK, Archive
<1>2. a \in Seq(Archive) /\ Len(a) = i - 1 /\ \A k \in 1..(i - 1) : a[k] = tars[k]
  <2>1. i - 1 \in Int /\ 1 \in Int /\ \A k \in 1..(i - 1) : tars[k] \in Archive
    BY <1>1
  <2> QED BY <1>1, <2>1, SubSeqProperties
<1>3. b \in Seq(Archive) /\ Len(b) = Len(tars) - i
      /\ \A k \in 1..(Len(tars) - i) : b[k] = tars[i + k]
  <2>1. i + 1 \in Int /\ Len(tars) \in Int /\ \A k \in (i + 1)..Len(tars) : tars[k] \in Archive
    BY <1>1
  <2>2. /\ b \in Seq(Archive)
        /\ Len(b) = IF i + 1 <= Len(tars) THEN Len(tars) - (i + 1) + 1 ELSE 0
        /\ \A k \in 1..(Len(tars) - (i + 1) + 1) : b[k] = tars[(i + 1) + k - 1]
    BY <2>1, SubSeqProperties
  <2> QED BY <1>1, <2>2
<1> HIDE DEF a, b
<1>4. /\ a \o b \in Seq(Archive) /\ Len(a \o b) = Len(a) + Len(b)
      /\ \A k \in 1..(Len(a) + Len(b)) :
           (a \o b)[k] = IF k <= Len(a) THEN a[k] ELSE b[k - Len(a)]
  BY <1>2, <1>3, ConcatProperties
<1>5. Len(a \o b) = Len(tars) - 1
  BY <1>1, <1>2, <1>3, <1>4
<1>6. ASSUME NEW k \in 1..(Len(tars) - 1)
      PROVE  \E m \in 1..Len(tars) : (a \o b)[k] = tars[m]
  <2>1. CASE k <= i - 1
    <3>1. (a \o b)[k] = tars[k] /\ k \in 1..Len(tars)
      BY <1>1, <1>2, <1>3, <1>4, <2>1
    <3> QED BY <3>1
  <2>2. CASE k > i - 1
    <3>1. k - (i - 1) \in 1..(Len(tars) - i) /\ i + (k - (i - 1)) = k + 1
      BY <1>1, <2>2
    <3>2. (a \o b)[k] = b[k - (i - 1)]
      BY <1>1, <1>2, <1>3, <1>4, <2>2
    <3>3. (a \o b)[k] = tars[k + 1] /\ k + 1 \in 1..Len(tars)
      BY <1>1, <1>3, <3>1, <3>2
    <3> QED BY <3>3
  <2>3. k <= i - 1 \/ k > i - 1
    BY <1>1
  <2> QED BY <2>1, <2>2, <2>3
<1>7. Without(tars, i) = a \o b
  BY DEF Without, a, b
<1> QED BY <1>4, <1>5, <1>6, <1>7

LEMMA InitIInv == Init => IInv
<1> SUFFICES ASSUME Init PROVE IInv
  OBVIOUS
<1>1. Nothing \in Tree
  BY NothingIsTree
<1>2. NoArchive \in Archive /\ NoInfo \in [tree : Tree, latest : BOOLEAN] /\ ~NoArchive.latest /\ ~NoInfo.latest
  BY <1>1 DEF NoArchive, NoInfo, Archive
<1>3. repo = 1 /\ repo \in 1..Len(Repos) /\ local \in Tree
  BY ReposAssumption DEF Init
<1>4. tars \in Seq(Archive) /\ Len(tars) = 0 /\ Len(tars) <= MaxTars
  BY ReposAssumption DEF Init
<1>5. TypeOK
  <2>1. merged \in 0..repo /\ clone \in 0..repo /\ faults \in 0..MaxFaults
    BY <1>3, ReposAssumption DEF Init
  <2>2. downloading = (clone # 0)
    BY Zenon DEF Init
  <2>3. synced \in {"never", "recent", "old"}
    BY DEF Init
  <2> QED BY <1>2, <1>3, <1>4, <2>1, <2>2, <2>3 DEF Init, TypeOK, Archive
<1>6. RoomForTar /\ LatestInv /\ SitesAsInGit
  BY <1>2, <1>4 DEF Init, RoomForTar, LatestInv, Whole, SitesAsInGit
<1> QED BY <1>5, <1>6 DEF IInv

LEMMA DownloadIInv == IInv /\ DownloadSites => IInv'
<1> SUFFICES ASSUME IInv, DownloadSites PROVE IInv'
  OBVIOUS
<1> USE DEF IInv, DownloadSites
<1>1. downloading' = TRUE /\ clone' = repo /\ repo \in 1..Len(Repos) /\ Len(Repos) \in Nat
  BY ReposAssumption DEF TypeOK
<1>2. downloading' = (clone' # 0) /\ clone' \in 0..repo
  <2>1. clone' # 0 /\ clone' \in 0..repo
    BY <1>1
  <2> QED BY <1>1, <2>1
<1>3. TypeOK'
  BY <1>2 DEF TypeOK
<1>4. RoomForTar' /\ LatestInv' /\ SitesAsInGit'
  BY DEF RoomForTar, LatestInv, Whole, SitesAsInGit
<1> QED BY <1>3, <1>4

(* Pushes, the clock and a git that fails.                                 *)
LEMMA OtherIInv == IInv /\ (Push \/ Elapsed \/ GitFails \/ UNCHANGED vars) => IInv'
<1> SUFFICES ASSUME IInv, Push \/ Elapsed \/ GitFails \/ UNCHANGED vars PROVE IInv'
  OBVIOUS
<1> USE DEF IInv
<1>1. UNCHANGED <<local, merged, tars, tgz, info>>
  BY DEF Push, Elapsed, GitFails, vars
<1>2. LatestInv' /\ SitesAsInGit'
  BY <1>1 DEF LatestInv, Whole, SitesAsInGit
<1>3. /\ repo' \in 1..Len(Repos) /\ merged' \in 0..repo' /\ clone' \in 0..repo'
      /\ faults' \in 0..MaxFaults /\ synced' \in {"never", "recent", "old"}
  <2>1. Len(Repos) \in Nat /\ MaxFaults \in Nat
    BY ReposAssumption DEF TypeOK
  <2>2. CASE Push
    BY <2>1, <2>2 DEF Push, TypeOK
  <2>3. CASE Elapsed \/ GitFails \/ UNCHANGED vars
    BY <2>1, <2>3 DEF Elapsed, GitFails, Fault, vars, TypeOK
  <2> QED BY <2>2, <2>3
<1>4. downloading' = (clone' # 0) /\ (clone' = clone \/ clone' = 0)
  <2>1. CASE GitFails
    BY <2>1 DEF GitFails
  <2>2. CASE ~GitFails
    <3>1. downloading' = downloading /\ clone' = clone
      BY <2>2 DEF Push, Elapsed, vars
    <3> QED BY <3>1 DEF TypeOK
  <2> QED BY <2>1, <2>2
<1>5. TypeOK'
  BY <1>1, <1>3, <1>4 DEF TypeOK
<1>6. RoomForTar'
  BY <1>1, <1>4 DEF RoomForTar
<1> QED BY <1>2, <1>5, <1>6

(* The local directory after a merge is that of the version merged.        *)
LEMMA MergedIsAsInGit ==
  ASSUME local \in Tree, NEW v \in 1..Len(Repos),
         local' = Merge(local, Repos[v]), merged' = v
  PROVE  local' \in Tree /\ SitesAsInGit'
<1>1. Repos[v] \in Tree
  BY ReposAssumption
<1> USE DEF SitesAsInGit
<1>2. local' \in Tree
  BY <1>1, MergeIsTree
<1>3. ASSUME NEW p \in Paths, Taken(Repos[v], p), Repos[v][p] \in Contents
      PROVE  \/ local'[p] = Repos[v][p]
             \/ local'[p] = Dir
             \/ \E q \in Above(p) : local'[q] \in Contents
  BY <1>1, <1>3, MergeBringsFiles
<1>4. ASSUME NEW p \in Paths, local'[p] = Dir
      PROVE  \/ Taken(Repos[v], p)
             \/ \E q \in Above(p) \cup {p} : Name(q) = FilesNode \/ Repos[v][q] \in Contents
  BY <1>1, <1>4, MergeRemovesRest
<1> QED BY <1>2, <1>3, <1>4

LEMMA OvertakenFacts ==
  /\ \A a \in Archive : Overtaken(a) \in Archive /\ ~Overtaken(a).latest
  /\ \A a \in [tree : Tree, latest : BOOLEAN] :
       Overtaken(a) \in [tree : Tree, latest : BOOLEAN] /\ ~Overtaken(a).latest
  BY DEF Overtaken, Archive

LEMMA GitFinishedIInv == IInv /\ GitFinished => IInv'
<1> SUFFICES ASSUME IInv, GitFinished PROVE IInv'
  OBVIOUS
<1> USE DEF IInv
<1>1. PICK v \in clone..repo : MergeSites(v) /\ merged' = v
  BY DEF GitFinished
<1>2. v \in 1..Len(Repos) /\ v \in 0..repo /\ Len(Repos) \in Nat
  BY <1>1, ReposAssumption DEF GitFinished, TypeOK
<1>3. local' \in Tree /\ SitesAsInGit'
  BY <1>1, <1>2, MergedIsAsInGit DEF MergeSites, TypeOK
<1> DEFINE old == [i \in 1..Len(tars) |-> [Overtaken(tars[i]) EXCEPT !.torn = TRUE]]
           new == [tree |-> local', torn |-> FALSE, latest |-> TRUE]
<1>4. tars \in Seq(Archive) /\ Len(tars) \in Nat /\ \A i \in 1..Len(tars) : tars[i] \in Archive
  BY LenProperties, ElementOfSeq DEF TypeOK, Archive
<1>5. old \in Seq(Archive) /\ Len(old) = Len(tars) /\ \A i \in 1..Len(tars) : ~old[i].latest
  <2>1. \A i \in 1..Len(tars) : old[i] \in Archive /\ ~old[i].latest
    <3>1. \A a \in Archive : [Overtaken(a) EXCEPT !.torn = TRUE] \in Archive
                             /\ ~[Overtaken(a) EXCEPT !.torn = TRUE].latest
      BY DEF Overtaken, Archive
    <3> QED BY <1>4, <3>1
  <2> QED BY <1>4, <2>1
<1>6. new \in Archive /\ new.tree = local' /\ ~new.torn
  BY <1>3 DEF Archive
<1>7. tars' = Append(old, new) /\ tgz' = Overtaken(tgz) /\ info' = Overtaken(info)
  BY <1>1 DEF MergeSites
<1> HIDE DEF old, new
<1>8. /\ tars' \in Seq(Archive) /\ Len(tars') = Len(tars) + 1
      /\ \A i \in 1..Len(tars) : tars'[i] = old[i]
      /\ tars'[Len(tars) + 1] = new
  BY <1>4, <1>5, <1>6, <1>7, AppendProperties
<1>9. \A i \in 1..Len(tars') : tars'[i].latest => tars'[i].tree = local' /\ ~tars'[i].torn
  <2>1. \A i \in 1..Len(tars') : i \in 1..Len(tars) \/ i = Len(tars) + 1
    BY <1>4, <1>8
  <2> QED BY <1>5, <1>6, <1>8, <2>1
<1>10. tgz' \in Archive /\ ~tgz'.latest /\ info' \in [tree : Tree, latest : BOOLEAN] /\ ~info'.latest
  BY <1>7, OvertakenFacts DEF TypeOK, Archive
<1>11. LatestInv'
  BY <1>9, <1>10 DEF LatestInv, Whole
<1>12. Len(tars') <= MaxTars
  BY <1>4, <1>8, ReposAssumption DEF RoomForTar, GitFinished
<1>13. clone' = 0 /\ downloading' = FALSE /\ synced' = "recent" /\ UNCHANGED <<repo, faults>>
  BY DEF GitFinished
<1>14. downloading' = (clone' # 0) /\ clone' \in 0..repo' /\ merged' \in 0..repo'
  <2>1. clone' \in 0..repo' /\ merged' \in 0..repo'
    BY <1>1, <1>2, <1>13 DEF TypeOK
  <2>2. downloading' = (clone' # 0)
    BY <1>13, Zenon
  <2> QED BY <2>1, <2>2
<1>15. TypeOK'
  BY <1>3, <1>8, <1>10, <1>12, <1>13, <1>14 DEF TypeOK, Archive
<1>16. RoomForTar'
  BY <1>13 DEF RoomForTar
<1> QED BY <1>3, <1>11, <1>15, <1>16

LEMMA TarIInv ==
  ASSUME IInv, NEW i \in 1..Len(tars), TarFinished(i) \/ TarFails(i)
  PROVE  IInv'
<1> USE DEF IInv
<1>1. /\ tars' = Without(tars, i)
      /\ UNCHANGED <<repo, local, merged, downloading, clone, synced>>
  BY DEF TarFinished, TarFails
<1>2. /\ tars' \in Seq(Archive) /\ Len(tars') = Len(tars) - 1 /\ Len(tars') \in Nat /\ Len(tars) \in Nat
      /\ \A k \in 1..Len(tars') : \E m \in 1..Len(tars) : tars'[k] = tars[m]
  BY <1>1, WithoutFacts, LenProperties DEF TypeOK
<1>3. tars[i] \in Archive
  BY ElementOfSeq DEF TypeOK, Archive
<1>4. /\ tgz' \in Archive /\ info' \in [tree : Tree, latest : BOOLEAN]
      /\ Whole(tgz)' /\ (info'.latest => info'.tree = local')
      /\ faults' \in 0..MaxFaults
  <2>1. CASE TarFinished(i)
    BY <1>1, <1>3, <2>1 DEF TarFinished, Saved, TypeOK, LatestInv, Whole, Archive
  <2>2. CASE TarFails(i)
    BY <1>1, <2>2, ReposAssumption DEF TarFails, Fault, TypeOK, LatestInv, Whole, Archive
  <2> QED BY <2>1, <2>2
<1>5. \A k \in 1..Len(tars') : tars'[k].latest => tars'[k].tree = local' /\ ~tars'[k].torn
  BY <1>1, <1>2 DEF LatestInv, Whole
<1>6. LatestInv'
  BY <1>4, <1>5 DEF LatestInv, Whole
<1>7. Len(tars') <= MaxTars
  BY <1>2, ReposAssumption DEF TypeOK
<1>8. TypeOK'
  BY <1>1, <1>2, <1>4, <1>7 DEF TypeOK, Archive
<1>9. RoomForTar'
  BY <1>1, <1>2, ReposAssumption DEF RoomForTar
<1>10. SitesAsInGit'
  BY <1>1, SitesAsInGitKept
<1> QED BY <1>6, <1>8, <1>9, <1>10

LEMMA RestartIInv ==
  ASSUME IInv, Restart, local' \in Tree, merged' \in 0..repo, SitesAsInGit',
         tgz' \in Archive, Whole(tgz)',
         info' \in [tree : Tree, latest : BOOLEAN], info'.latest => info'.tree = local'
  PROVE  IInv'
<1> USE DEF IInv
<1>1. tars' = <<>> /\ Len(tars') = 0 /\ tars' \in Seq(Archive)
  BY DEF Restart
<1>2. clone' = 0 /\ downloading' = FALSE /\ synced' = "never" /\ repo' = repo
  BY DEF Restart
<1>3. clone' \in 0..repo' /\ faults' \in 0..MaxFaults /\ Len(tars') <= MaxTars
  BY <1>1, <1>2, ReposAssumption DEF Restart, Fault, TypeOK
<1>4. downloading' = (clone' # 0)
  BY <1>2, Zenon
<1>5. TypeOK'
  BY <1>1, <1>2, <1>3, <1>4 DEF TypeOK, Archive
<1>6. RoomForTar' /\ LatestInv'
  BY <1>1, <1>2 DEF RoomForTar, LatestInv
<1> QED BY <1>5, <1>6

LEMMA KilledIInv == IInv /\ Killed => IInv'
<1> SUFFICES ASSUME IInv, Killed PROVE IInv'
  OBVIOUS
<1>1. Restart /\ UNCHANGED <<local, merged, tgz, info>>
  BY DEF Killed
<1>2. SitesAsInGit'
  BY <1>1, SitesAsInGitKept DEF IInv
<1>3. /\ local' \in Tree /\ merged' \in 0..repo
      /\ tgz' \in Archive /\ Whole(tgz)'
      /\ info' \in [tree : Tree, latest : BOOLEAN] /\ (info'.latest => info'.tree = local')
  BY <1>1 DEF IInv, TypeOK, LatestInv, Whole, Archive
<1> QED BY <1>1, <1>2, <1>3, RestartIInv

LEMMA KilledMergingIInv == IInv /\ KilledMerging => IInv'
<1> SUFFICES ASSUME IInv, KilledMerging PROVE IInv'
  OBVIOUS
<1>1. /\ Restart /\ merged' = 0 /\ local' \in Tree
      /\ tgz' = Overtaken(tgz) /\ info' = Overtaken(info)
  BY DEF KilledMerging
<1>2. SitesAsInGit' /\ merged' \in 0..repo
  BY <1>1 DEF SitesAsInGit, IInv, TypeOK
<1>3. /\ tgz' \in Archive /\ ~tgz'.latest
      /\ info' \in [tree : Tree, latest : BOOLEAN] /\ ~info'.latest
  BY <1>1, OvertakenFacts DEF IInv, TypeOK, Archive
<1> QED BY <1>1, <1>2, <1>3, RestartIInv DEF Whole

LEMMA KilledSavingIInv ==
  ASSUME IInv, NEW i \in 1..Len(tars), KilledSaving(i)
  PROVE  IInv'
<1>1. /\ Restart /\ UNCHANGED <<local, merged>>
      /\ tgz' \in {tars[i], [tars[i] EXCEPT !.torn = TRUE, !.latest = FALSE]}
      /\ info' \in {info, NoInfo}
  BY DEF KilledSaving
<1>2. tars[i] \in Archive /\ Whole(tars[i])
  BY ElementOfSeq DEF IInv, TypeOK, LatestInv, Archive
<1>3. /\ NoInfo \in [tree : Tree, latest : BOOLEAN] /\ ~NoInfo.latest
  BY NothingIsTree DEF NoInfo
<1>4. tgz' \in Archive /\ Whole(tgz)'
  BY <1>1, <1>2 DEF Archive, Whole
<1>5. info' \in [tree : Tree, latest : BOOLEAN] /\ (info'.latest => info'.tree = local')
  BY <1>1, <1>3 DEF IInv, TypeOK, LatestInv
<1>6. SitesAsInGit' /\ local' \in Tree /\ merged' \in 0..repo
  BY <1>1, SitesAsInGitKept DEF IInv, TypeOK
<1> QED BY <1>1, <1>4, <1>5, <1>6, RestartIInv

LEMMA NextIInv == IInv /\ [Next]_vars => IInv'
<1> SUFFICES ASSUME IInv, [Next]_vars PROVE IInv'
  OBVIOUS
<1>1. CASE Timeout \/ ReloadSites
  BY <1>1, DownloadIInv DEF Timeout, ReloadSites
<1>2. CASE Push \/ Elapsed \/ GitFails \/ UNCHANGED vars
  BY <1>2, OtherIInv
<1>3. CASE GitFinished
  BY <1>3, GitFinishedIInv
<1>4. ASSUME NEW i \in 1..Len(tars), TarFinished(i) \/ TarFails(i) PROVE IInv'
  BY <1>4, TarIInv
<1>5. ASSUME NEW i \in 1..Len(tars), KilledSaving(i) PROVE IInv'
  BY <1>5, KilledSavingIInv
<1>6. CASE Killed
  BY <1>6, KilledIInv
<1>7. CASE KilledMerging
  BY <1>7, KilledMergingIInv
<1> QED BY <1>1, <1>2, <1>3, <1>4, <1>5, <1>6, <1>7 DEF Next

LEMMA IInvHolds == Spec => []IInv
  BY InitIInv, NextIInv, PTL DEF Spec

(* The variables keep their types; m_downloadingSites is set exactly while *)
(* git runs, and what is in the local directory is always a tree.          *)
THEOREM ProviderTypes == Spec => []TypeOK
<1>1. IInv => TypeOK
  BY DEF IInv
<1> QED BY <1>1, IInvHolds, PTL

(* After a merge, the local directory is that of git, whatever trees were  *)
(* merged before and wherever the process was killed.                      *)
THEOREM MergedAsInGit == Spec => []SitesAsInGit
<1>1. IInv => SitesAsInGit
  BY DEF IInv
<1> QED BY <1>1, IInvHolds, PTL

(* The archive of the last merge is that of the local directory, however   *)
(* many tars run at a time.                                                *)
THEOREM ArchiveIsLocal == Spec => []ArchiveMatches
<1>1. IInv => ArchiveMatches
  BY DEF IInv, LatestInv, Whole, ArchiveMatches
<1> QED BY <1>1, IInvHolds, PTL

(* No merge takes a file out of a directory of files, but with its site.   *)
THEOREM NoFileLost == Spec => FilesKept
<1> DEFINE Kept(p) ==
      local[p] \in Contents /\ Len(p) > 1 /\ p[Len(p) - 1] = FilesNode =>
        \/ local'[p] \in Contents
        \/ \E q \in Above(p) : Name(q) # FilesNode /\ local'[q] = None
        \/ merged' = 0
<1>1. ASSUME IInv, Next, NEW p \in Paths PROVE Kept(p)
  <2>1. CASE GitFinished
    <3>1. PICK v \in 1..Len(Repos) : local' = Merge(local, Repos[v])
      <4>1. PICK v \in clone..repo : MergeSites(v)
        BY <2>1 DEF GitFinished
      <4>2. v \in 1..Len(Repos)
        BY <1>1, <2>1, <4>1, ReposAssumption DEF GitFinished, IInv, TypeOK
      <4> QED BY <4>1, <4>2 DEF MergeSites
    <3>2. local \in Tree /\ Repos[v] \in Tree
      BY <1>1, ReposAssumption DEF IInv, TypeOK
    <3> SUFFICES ASSUME local[p] \in Contents
        PROVE  local'[p] \in Contents \/ \E q \in Above(p) : Name(q) # FilesNode /\ local'[q] = None
      OBVIOUS
    <3>3. local[p] # Dir /\ local[p] # None
      BY PathsAssumption
    <3>4. ASSUME NEW q \in Above(p) \cup {p}, Removed(local, Repos[v], q)
          PROVE  q \in Above(p) /\ Name(q) # FilesNode /\ local'[q] = None
      <4>1. q \in Above(p)
        BY <3>3, <3>4 DEF Removed
      <4>2. q \in Paths
        BY <4>1, AboveFacts
      <4> QED BY <3>1, <3>2, <3>4, <4>1, <4>2, MergeCases DEF Removed
    <3>5. CASE \A q \in Above(p) \cup {p} : ~Removed(local, Repos[v], q)
      <4>1. CASE Taken(Repos[v], p) /\ ~Blocked(local, Repos[v], p)
        <5>1. local'[p] = Repos[v][p]
          BY <3>1, <3>2, <3>5, <4>1, MergeCases
        <5>2. Repos[v][p] \in Contents
          BY <3>2, <4>1, TreeFacts DEF Taken, Blocked
        <5> QED BY <5>1, <5>2
      <4>2. CASE ~(Taken(Repos[v], p) /\ ~Blocked(local, Repos[v], p))
        BY <3>1, <3>2, <3>5, <4>2, MergeCases
      <4> QED BY <4>1, <4>2
    <3> QED BY <3>4, <3>5
  <2>2. CASE KilledMerging
    BY <2>2 DEF KilledMerging
  <2>3. CASE ~GitFinished /\ ~KilledMerging
    <3>1. local' = local
      BY <1>1, <2>3 DEF Next, Push, Timeout, ReloadSites, DownloadSites, Elapsed, GitFails,
                        TarFinished, TarFails, KilledSaving, Killed
    <3> QED BY <3>1
  <2> QED BY <2>1, <2>2, <2>3
<1>2. IInv /\ [Next]_vars => [\A p \in Paths : Kept(p)]_vars
  BY <1>1
<1> QED BY <1>2, IInvHolds, PTL DEF Spec, FilesKept

(***************************************************************************)
(* BrclabUsers.  For each user the file, while it holds a whole map, and   *)
(* the memory, while the process runs, have what the last answered change  *)
(* left or what one after it would have.  Before the first start nobody    *)
(* has been answered.                                                      *)
(***************************************************************************)
Fits(f) == \A u \in LabUsers : B!PasswordOf(f, u) \in B!Expected(u)

GrantsInv ==
  /\ readable \in {"missing", "yes", "no"}
  /\ tried = [u \in LabUsers |-> tried[u]]
  /\ readable = "missing" => acked = B!NoUsers /\ file = B!NoUsers /\ ~buUp
  /\ readable = "yes" => Fits(file)
  /\ buUp => Fits(values)

LEMMA NobodyFits == acked = B!NoUsers => Fits(B!NoUsers)
  BY DEF Fits, B!Expected

LEMMA InitGrants == B!Init => GrantsInv
  BY DEF B!Init, GrantsInv

LEMMA StartGrants == GrantsInv /\ (B!Start \/ B!FirstStartFails) => GrantsInv'
<1> SUFFICES ASSUME GrantsInv, B!Start \/ B!FirstStartFails PROVE GrantsInv'
  OBVIOUS
<1>1. acked' = acked /\ tried' = tried
  BY DEF B!Start, B!FirstStartFails
<1>2. \A f : Fits(f) => Fits(f)'
  BY <1>1 DEF Fits, B!Expected
<1>3. CASE readable = "missing"
  <2>1. file' = B!NoUsers /\ readable' \in {"yes", "no"}
    BY <1>3 DEF GrantsInv, B!Start, B!FirstStartFails
  <2>2. Fits(file)'
    BY <1>1, <1>3, <2>1, NobodyFits DEF GrantsInv, Fits, B!Expected
  <2>3. buUp' => values' = file'
    BY DEF GrantsInv, B!Start, B!FirstStartFails
  <2> QED BY <1>1, <2>1, <2>2, <2>3 DEF GrantsInv, Fits
<1>4. CASE readable # "missing"
  <2>1. readable = "yes" /\ readable' = "yes" /\ file' = file /\ values' = file
    BY <1>4 DEF GrantsInv, B!Start, B!FirstStartFails
  <2>2. Fits(file)' /\ Fits(values)'
    BY <1>1, <2>1 DEF GrantsInv, Fits, B!Expected
  <2> QED BY <1>1, <2>1, <2>2 DEF GrantsInv
<1> QED BY <1>3, <1>4

(* setUsersConfig of a map that changes one user as the answer to it says; *)
(* after a failure the memory has the old map or the new one.              *)
LEMMA SetUsersConfigGrants ==
  ASSUME GrantsInv, buUp,
         NEW new, NEW answered, NEW kept, NEW name \in LabUsers,
         B!SetUsersConfig(new, answered, kept, name),
         B!PasswordOf(new, name) = B!PasswordOf(answered, name),
         \A u \in LabUsers \ {name} :
           /\ B!PasswordOf(new, u) = B!PasswordOf(values, u)
           /\ B!PasswordOf(answered, u) = B!PasswordOf(acked, u),
         kept \in {values, new}
  PROVE  GrantsInv'
<1>1. Fits(values) /\ tried = [u \in LabUsers |-> tried[u]]
  BY DEF GrantsInv
<1>2. CASE /\ file' = new /\ readable' = "yes" /\ values' = new /\ acked' = answered
           /\ tried' = [tried EXCEPT ![name] = {}]
  <2>1. tried' = [u \in LabUsers |-> tried'[u]] /\ \A u \in LabUsers \ {name} : tried'[u] = tried[u]
    BY <1>1, <1>2
  <2>2. Fits(values)' /\ Fits(file)'
    BY <1>1, <1>2, <2>1 DEF Fits, B!Expected
  <2> QED BY <1>2, <2>1, <2>2 DEF GrantsInv
<1>3. CASE /\ values' = kept /\ acked' = acked
           /\ \/ UNCHANGED <<file, readable, buUp>>
              \/ file' = B!NoUsers /\ readable' = "no" /\ buUp' \in BOOLEAN
              \/ file' = new /\ readable' = "yes" /\ buUp' \in BOOLEAN
           /\ tried' = IF kept = values /\ file' # new THEN tried
                       ELSE [tried EXCEPT ![name] = @ \cup {B!PasswordOf(new, name)}]
  <2>1. tried' = [u \in LabUsers |-> tried'[u]] /\ \A u \in LabUsers : tried[u] \subseteq tried'[u]
    BY <1>1, <1>3
  <2>2. \A u \in LabUsers : B!Expected(u) \subseteq B!Expected(u)'
    BY <1>3, <2>1 DEF B!Expected
  <2>3. ASSUME kept # values \/ file' = new PROVE Fits(new)'
    <3>1. B!PasswordOf(new, name) \in tried'[name]
      BY <1>1, <1>3, <2>3
    <3> QED BY <1>1, <2>2, <3>1 DEF Fits, B!Expected
  <2>4. Fits(values)'
    <3>1. CASE kept = values
      BY <1>1, <1>3, <2>2, <3>1 DEF Fits
    <3>2. CASE kept # values
      BY <1>3, <2>3, <3>2 DEF Fits
    <3> QED BY <3>1, <3>2
  <2>5. readable' = "yes" => Fits(file)'
    <3>1. CASE UNCHANGED <<file, readable, buUp>>
      BY <2>2, <3>1 DEF GrantsInv, Fits
    <3>2. CASE file' = new
      BY <2>3, <3>2 DEF Fits
    <3> QED BY <1>3, <3>1, <3>2
  <2>6. readable' \in {"yes", "no"}
    BY <1>3 DEF GrantsInv
  <2> QED BY <2>1, <2>4, <2>5, <2>6 DEF GrantsInv
<1> QED BY <1>2, <1>3 DEF B!SetUsersConfig

LEMMA StepGrants == GrantsInv /\ [B!Next]_bVars => GrantsInv'
<1> SUFFICES ASSUME GrantsInv, [B!Next]_bVars PROVE GrantsInv'
  OBVIOUS
<1>1. CASE B!Start \/ B!FirstStartFails
  BY <1>1, StartGrants
<1>2. CASE B!Die
  BY <1>2 DEF B!Die, GrantsInv, Fits, B!Expected
<1>3. ASSUME NEW u \in LabUsers, B!DelUser(u) PROVE GrantsInv'
  <2> DEFINE new == B!Without(values, u)
             answered == B!Without(acked, u)
  <2>1. /\ DOMAIN new = DOMAIN values \ {u} /\ \A v \in DOMAIN new : new[v] = values[v]
        /\ DOMAIN answered = DOMAIN acked \ {u} /\ \A v \in DOMAIN answered : answered[v] = acked[v]
    BY DEF B!Without, B!Restrict
  <2>2. buUp /\ u \in DOMAIN values /\ B!SetUsersConfig(new, answered, new, u)
    BY <1>3 DEF B!DelUser
  <2> HIDE DEF new, answered
  <2>3. B!PasswordOf(new, u) = {} /\ B!PasswordOf(answered, u) = {}
    BY <2>1 DEF B!PasswordOf
  <2>4. ASSUME NEW v \in LabUsers \ {u}
        PROVE  B!PasswordOf(new, v) = B!PasswordOf(values, v) /\ B!PasswordOf(answered, v) = B!PasswordOf(acked, v)
    BY <2>1 DEF B!PasswordOf
  <2> QED BY <2>2, <2>3, <2>4, SetUsersConfigGrants
<1>4. ASSUME NEW u \in LabUsers, NEW p \in LabPasswords, B!AddUser(u, p) \/ B!ChangePassword(u, p)
      PROVE  GrantsInv'
  <2> DEFINE new == B!With(values, u, p)
             answered == B!With(acked, u, p)
  <2>1. /\ DOMAIN new = DOMAIN values \cup {u} /\ new[u] = p
        /\ \A v \in DOMAIN values \ {u} : new[v] = values[v]
        /\ DOMAIN answered = DOMAIN acked \cup {u} /\ answered[u] = p
        /\ \A v \in DOMAIN acked \ {u} : answered[v] = acked[v]
    BY DEF B!With
  <2>2. buUp /\ B!SetUsersConfig(new, answered, values, u)
    BY <1>4 DEF B!AddUser, B!ChangePassword
  <2> HIDE DEF new, answered
  <2>3. B!PasswordOf(new, u) = {p} /\ B!PasswordOf(answered, u) = {p}
    BY <2>1 DEF B!PasswordOf
  <2>4. ASSUME NEW v \in LabUsers \ {u}
        PROVE  B!PasswordOf(new, v) = B!PasswordOf(values, v) /\ B!PasswordOf(answered, v) = B!PasswordOf(acked, v)
    BY <2>1 DEF B!PasswordOf
  <2> QED BY <2>2, <2>3, <2>4, SetUsersConfigGrants
<1>5. CASE UNCHANGED bVars
  BY <1>5 DEF bVars, GrantsInv, Fits, B!Expected
<1> QED BY <1>1, <1>2, <1>3, <1>4, <1>5 DEF B!Next

(* A step of the composition is a step of each part or leaves it alone.    *)
LEMMA UsersStep == [MCNext]_allVars => [B!Next]_bVars
  BY Zenon DEF MCNext, allVars

(* Whatever fails and whenever the process dies, getUserGrants grants for  *)
(* each user what the last change answered with success left, or what a    *)
(* later one that got no such answer would have.                           *)
THEOREM GrantsHold == MCSpec => []GrantsAsAcked
<1>1. MCInit => GrantsInv
  BY InitGrants DEF MCInit
<1>2. GrantsInv /\ [MCNext]_allVars => GrantsInv'
  BY UsersStep, StepGrants
<1>3. GrantsInv => GrantsAsAcked
  BY DEF GrantsInv, GrantsAsAcked, B!GrantsAsAcked, Fits
<1> QED BY <1>1, <1>2, <1>3, PTL DEF MCSpec

(***************************************************************************)
(* AgentCommands, for any requests and params.                             *)
(***************************************************************************)
States == {"none", "starting", "running", "crashed", "gone", "killed"}

RespondInv ==
  /\ process \in [AgentRequests -> States] /\ DOMAIN responses = AgentRequests
  /\ \A r \in AgentRequests :
       /\ responses[r] = <<>> \/ \E x : responses[r] = <<x>>
       /\ process[r] \in {"starting", "running", "crashed"} => responses[r] = <<>>
       /\ process[r] = "gone" => responses[r] # <<>>

LEMMA InitRespond == A!Init => RespondInv
  BY DEF A!Init, RespondInv, States

(* A response to a request that had none, as its process ends or without   *)
(* one; the other requests keep theirs.                                    *)
LEMMA RespondKeeps ==
  ASSUME RespondInv, NEW r \in AgentRequests, NEW x, A!Respond(r, x), responses[r] = <<>>,
         \/ process[r] = "none" /\ process' = process
         \/ process' = [process EXCEPT ![r] = "gone"]
  PROVE  RespondInv'
<1>1. Append(<<>>, x) = <<x>>
  OBVIOUS
<1>2. /\ DOMAIN responses' = AgentRequests /\ responses'[r] = <<x>> /\ <<x>> # <<>>
      /\ \A q \in AgentRequests \ {r} : responses'[q] = responses[q]
  BY <1>1 DEF RespondInv, A!Respond
<1>3. /\ process' \in [AgentRequests -> States]
      /\ process'[r] \in {"none", "gone"}
      /\ \A q \in AgentRequests \ {r} : process'[q] = process[q]
  BY DEF RespondInv, States
<1> QED BY <1>2, <1>3 DEF RespondInv

(* A process goes on, and nothing is responded.                            *)
LEMMA ProcessKeeps ==
  ASSUME RespondInv, NEW r \in AgentRequests, UNCHANGED responses, responses[r] = <<>>,
         NEW state \in {"starting", "running", "crashed"},
         process' = [process EXCEPT ![r] = state]
  PROVE  RespondInv'
  BY DEF RespondInv, States

LEMMA StepRespond == RespondInv /\ [A!Next]_aVars => RespondInv'
<1> SUFFICES ASSUME RespondInv, [A!Next]_aVars PROVE RespondInv'
  OBVIOUS
<1>1. CASE A!Quit
  BY <1>1 DEF A!Quit, RespondInv, States
<1>2. CASE A!Restart \/ UNCHANGED aVars
  BY <1>2 DEF A!Restart, aVars, RespondInv
<1>3. ASSUME NEW r \in AgentRequests, A!Refuse(r) \/ A!NotExists(r) PROVE RespondInv'
  BY <1>3, RespondKeeps DEF A!Refuse, A!NotExists, A!New
<1>4. ASSUME NEW r \in AgentRequests, A!FailedToStart(r) PROVE RespondInv'
  <2>1. A!Respond(r, A!Error) /\ process[r] = "starting" /\ process' = [process EXCEPT ![r] = "gone"]
    BY <1>4 DEF A!FailedToStart, A!ErrorOccurred
  <2> QED BY <2>1, RespondKeeps DEF RespondInv
<1>5. ASSUME NEW r \in AgentRequests, A!Finished(r) PROVE RespondInv'
  <2>1. PICK x : A!Respond(r, x)
    BY <1>5 DEF A!Finished
  <2>2. process[r] \in {"running", "crashed"} /\ process' = [process EXCEPT ![r] = "gone"]
    BY <1>5 DEF A!Finished
  <2> QED BY <2>1, <2>2, RespondKeeps DEF RespondInv
<1>6. ASSUME NEW r \in AgentRequests, A!RunCmd(r) \/ A!Started(r) \/ A!Crashed(r) PROVE RespondInv'
  <2>1. PICK state \in {"starting", "running", "crashed"} : process' = [process EXCEPT ![r] = state]
    BY <1>6 DEF A!RunCmd, A!Started, A!Crashed
  <2>2. responses[r] = <<>> /\ UNCHANGED responses
    BY <1>6 DEF A!RunCmd, A!Started, A!Crashed, A!New, A!ErrorOccurred, RespondInv
  <2> QED BY <2>1, <2>2, ProcessKeeps
<1> QED BY <1>1, <1>2, <1>3, <1>4, <1>5, <1>6 DEF A!Next

LEMMA RespondedOnceHolds == RespondInv => A!RespondedOnce
<1> SUFFICES ASSUME RespondInv, NEW r \in AgentRequests
             PROVE  /\ Len(responses[r]) <= 1
                    /\ process[r] \in {"starting", "running", "crashed"} => responses[r] = <<>>
                    /\ process[r] = "gone" => Len(responses[r]) = 1
  BY DEF A!RespondedOnce
<1>1. CASE responses[r] = <<>>
  <2>1. Len(responses[r]) = 0 BY <1>1
  <2> QED BY <1>1, <2>1 DEF RespondInv
<1>2. CASE responses[r] # <<>>
  <2>1. PICK x : responses[r] = <<x>> BY <1>2 DEF RespondInv
  <2>2. Len(responses[r]) = 1 BY <2>1
  <2>3. process[r] \notin {"starting", "running", "crashed"} BY <1>2 DEF RespondInv
  <2> QED BY <2>2, <2>3
<1> QED BY <1>1, <1>2

(***************************************************************************)
(* ShellProcess, for any sizes.                                            *)
(***************************************************************************)
ShellTypes ==
  /\ kind \in {"none", "cmd", "pty"}
  /\ proc \in {"none", "starting", "running", "failed", "finished"}
  /\ typed \in 0 .. ShellBytes /\ fed \in 0 .. ShellBytes /\ dropped \in 0 .. ShellBytes
  /\ wrote \in [S!Channels -> 0 .. ShellBytes]
  /\ unread \in [S!Channels -> 0 .. ShellBytes]
  /\ sent \in [S!Channels -> 0 .. ShellBytes]
  /\ up \in BOOLEAN /\ hole \in BOOLEAN /\ app \in {"up", "closing", "quit"}
  /\ stdin \in Seq(Nat)

(* What a channel got and what is still unread is what was written to it,  *)
(* or less once the connection is lost.                                    *)
Accounted ==
  \A c \in S!Channels :
    /\ sent[c] + unread[c] <= wrote[c]
    /\ up => sent[c] + unread[c] = wrote[c]

OutputInv ==
  /\ Accounted
  /\ kind = "cmd" /\ proc = "finished" => unread = S!Zero
  /\ kind = "none" => proc = "none"
  /\ proc = "none" => kind # "cmd"

(* Until a write is too short, what waits for the process are the bytes    *)
(* after the last it has read; and only a terminal takes too little while  *)
(* a process reads.                                                        *)
NothingMissing ==
  /\ ~hole /\ typed = fed + Len(stdin)
  /\ \A i \in 1 .. Len(stdin) : stdin[i] = fed + i

InputInv ==
  /\ kind = "none" => typed = 0 /\ dropped = 0
  /\ dropped <= typed
  /\ \A i \in 1 .. Len(stdin) : stdin[i] \in 1 .. typed
  /\ kind = "pty" => Len(stdin) <= PtyRoom
  /\ kind = "cmd" /\ proc \in {"starting", "running"} => dropped = 0
  /\ dropped = 0 => NothingMissing
  /\ hole => kind = "pty"

ShellInv == ShellTypes /\ OutputInv /\ InputInv

LEMMA InitShell == S!Init => ShellInv
<1> SUFFICES ASSUME S!Init PROVE ShellInv
  OBVIOUS
<1>1. ShellTypes
  <2>1. ShellBytes \in Nat /\ 0 \in 0 .. ShellBytes
    BY ProvidersAssumption DEF S!ShellProcessAssumption
  <2>2. S!Zero \in [S!Channels -> 0 .. ShellBytes]
    BY <2>1 DEF S!Zero
  <2>3. <<>> \in Seq(Nat)
    OBVIOUS
  <2>4. /\ kind = "none" /\ proc = "none" /\ app = "up" /\ up = TRUE /\ hole = FALSE
        /\ typed = 0 /\ fed = 0 /\ dropped = 0 /\ stdin = <<>>
        /\ wrote = S!Zero /\ unread = S!Zero /\ sent = S!Zero
    BY DEF S!Init
  <2> QED BY <2>1, <2>2, <2>3, <2>4 DEF ShellTypes
<1>2. OutputInv
  BY DEF S!Init, S!Zero, S!Channels, OutputInv, Accounted
<1>3. InputInv
  BY ProvidersAssumption DEF S!Init, InputInv, NothingMissing, S!ShellProcessAssumption
<1> QED BY <1>1, <1>2, <1>3 DEF ShellInv

(* The starts, and the ends of the program and of the connection.          *)
LEMMA StartShell ==
  ASSUME ShellInv, S!RunCmd \/ S!RunPtyCmd \/ S!InvalidPtyCmd \/ S!SetupProcess
  PROVE  ShellInv'
<1>1. ShellTypes'
  BY DEF ShellInv, ShellTypes, S!RunCmd, S!RunPtyCmd, S!OpenPty, S!InvalidPtyCmd, S!SetupProcess,
         S!CloseAndQuit, S!processVars
<1>2. UNCHANGED <<typed, stdin, fed, hole, dropped, wrote, unread, sent, up>>
  BY DEF S!RunCmd, S!RunPtyCmd, S!InvalidPtyCmd, S!SetupProcess, S!processVars
<1>3. Accounted'
  BY <1>2 DEF ShellInv, OutputInv, Accounted
<1>4. NothingMissing' <=> NothingMissing
  BY <1>2 DEF NothingMissing
<1>5. CASE S!RunCmd \/ S!RunPtyCmd \/ S!InvalidPtyCmd
  <2>1. /\ kind = "none" /\ kind' \in {"cmd", "pty"} /\ proc' \in {"starting", "none", "failed"}
        /\ proc' = "none" => kind' = "pty"
    BY <1>5 DEF S!RunCmd, S!RunPtyCmd, S!OpenPty, S!InvalidPtyCmd
  <2>2. typed = 0 /\ dropped = 0 /\ NothingMissing
    BY <2>1 DEF ShellInv, InputInv
  <2>3. Len(stdin) = 0
    BY <2>2, LenProperties DEF NothingMissing, ShellInv, ShellTypes
  <2>4. OutputInv'
    BY <1>3, <2>1 DEF OutputInv
  <2>5. InputInv'
    BY <1>2, <1>4, <2>1, <2>2, <2>3, ProvidersAssumption
       DEF ShellInv, InputInv, NothingMissing, S!ShellProcessAssumption
  <2> QED BY <1>1, <2>4, <2>5 DEF ShellInv
<1>6. CASE S!SetupProcess
  <2>1. /\ proc = "starting" /\ kind' = kind /\ proc' \in {"running", "failed", "finished"}
        /\ proc' = "finished" => kind = "pty"
    BY <1>6 DEF S!SetupProcess
  <2>2. OutputInv'
    BY <1>2, <1>3, <2>1 DEF OutputInv, ShellInv
  <2>3. InputInv'
    BY <1>2, <1>4, <2>1 DEF ShellInv, InputInv
  <2> QED BY <1>1, <2>2, <2>3 DEF ShellInv
<1> QED BY <1>5, <1>6

LEMMA EndShell ==
  ASSUME ShellInv, S!Quit \/ S!Inactivity \/ S!SocketDisconnected \/ UNCHANGED sVars
  PROVE  ShellInv'
<1>1. /\ UNCHANGED <<kind, proc, typed, stdin, fed, hole, dropped, wrote, unread, sent>>
      /\ up' = up \/ up' = FALSE
      /\ app' \in {"up", "closing", "quit"}
  BY DEF ShellInv, ShellTypes, S!Quit, S!Inactivity, S!SocketDisconnected, S!CloseAndQuit,
         S!processVars, sVars
<1>2. ShellTypes'
  BY <1>1 DEF ShellInv, ShellTypes
<1>3. OutputInv'
  BY <1>1 DEF ShellInv, OutputInv, Accounted
<1>4. InputInv'
  BY <1>1 DEF ShellInv, InputInv, NothingMissing
<1> QED BY <1>2, <1>3, <1>4 DEF ShellInv

(* Reading what is there, on both channels, sends it while the connection  *)
(* is up.                                                                  *)
LEMMA ReadShell ==
  ASSUME ShellTypes, Accounted, UNCHANGED <<up, wrote>>,
         sent' = S!OnReadyRead(sent), unread' = S!Zero
  PROVE  /\ sent' \in [S!Channels -> 0 .. ShellBytes]
         /\ unread' \in [S!Channels -> 0 .. ShellBytes]
         /\ Accounted'
<1>1. \A c \in S!Channels : sent'[c] = IF up THEN sent[c] + unread[c] ELSE sent[c]
  <2> DEFINE first == S!SendProcessOutput(sent, 1, unread[1])
  <2>1. DOMAIN sent = {1, 2}
    BY DEF ShellTypes, S!Channels
  <2>2. /\ DOMAIN first = {1, 2} /\ first[2] = sent[2]
        /\ first[1] = IF up THEN sent[1] + unread[1] ELSE sent[1]
    BY <2>1 DEF S!SendProcessOutput
  <2>3. sent' = S!SendProcessOutput(first, 2, unread[2])
    BY DEF S!OnReadyRead
  <2> HIDE DEF first
  <2>4. /\ DOMAIN sent' = {1, 2} /\ sent'[1] = first[1]
        /\ sent'[2] = IF up THEN first[2] + unread[2] ELSE first[2]
    BY <2>2, <2>3 DEF S!SendProcessOutput
  <2> QED BY <2>2, <2>4 DEF S!Channels
<1>2. \A c \in S!Channels : /\ sent[c] \in 0 .. ShellBytes /\ unread[c] \in 0 .. ShellBytes
                            /\ wrote[c] \in 0 .. ShellBytes
  BY DEF ShellTypes
<1>3. ShellBytes \in Nat
  BY ProvidersAssumption DEF S!ShellProcessAssumption
<1>4. unread' \in [S!Channels -> 0 .. ShellBytes] /\ \A c \in S!Channels : unread'[c] = 0
  BY <1>3 DEF S!Zero
<1>5. \A c \in S!Channels : /\ sent'[c] \in 0 .. ShellBytes
                            /\ sent'[c] <= wrote[c] /\ (up => sent'[c] = wrote[c])
  BY <1>1, <1>2, <1>3 DEF Accounted
<1>6. sent' \in [S!Channels -> 0 .. ShellBytes]
  <2>1. sent' = [c \in S!Channels |-> sent'[c]]
    BY DEF S!OnReadyRead, S!SendProcessOutput, ShellTypes
  <2> QED BY <1>5, <2>1
<1>7. Accounted'
  BY <1>2, <1>4, <1>5 DEF Accounted
<1> QED BY <1>4, <1>6, <1>7

LEMMA ReadyReadShell ==
  ASSUME ShellInv, S!ReadyRead \/ S!Finished
  PROVE  ShellInv'
<1>1. /\ proc = "running" /\ kind' = kind /\ UNCHANGED <<typed, stdin, fed, hole, dropped, wrote, up>>
      /\ proc' \in {"running", "finished"}
      /\ app' \in {"up", "closing", "quit"}
  BY DEF S!ReadyRead, S!Finished, S!QuitUnlessUp, S!CloseAndQuit, S!processVars, ShellInv, ShellTypes
<1>2. \/ sent' = S!OnReadyRead(sent) /\ unread' = S!Zero
      \/ UNCHANGED <<sent, unread>> /\ kind = "pty"
  BY <1>1 DEF S!ReadyRead, S!Finished, ShellInv, OutputInv, ShellTypes
<1>3. /\ sent' \in [S!Channels -> 0 .. ShellBytes] /\ unread' \in [S!Channels -> 0 .. ShellBytes]
      /\ Accounted'
  <2>1. CASE UNCHANGED <<sent, unread>>
    BY <1>1, <2>1 DEF ShellInv, ShellTypes, OutputInv, Accounted
  <2> QED BY <1>1, <1>2, <2>1, ReadShell DEF ShellInv, OutputInv
<1>4. ShellTypes'
  BY <1>1, <1>3 DEF ShellInv, ShellTypes
<1>5. OutputInv'
  BY <1>1, <1>2, <1>3 DEF ShellInv, OutputInv
<1>6. InputInv'
  BY <1>1 DEF ShellInv, InputInv, NothingMissing
<1> QED BY <1>4, <1>5, <1>6 DEF ShellInv

LEMMA WriteShell == ShellInv /\ S!ProcessWrites => ShellInv'
<1> SUFFICES ASSUME ShellInv, S!ProcessWrites PROVE ShellInv'
  OBVIOUS
<1>1. PICK c \in S!Channels, n \in 1 .. ShellChunk :
        /\ wrote[c] + n <= ShellBytes
        /\ wrote' = [wrote EXCEPT ![c] = @ + n] /\ unread' = [unread EXCEPT ![c] = @ + n]
  BY DEF S!ProcessWrites
<1>2. proc = "running" /\ UNCHANGED <<kind, proc, typed, stdin, fed, hole, dropped, sent, up, app>>
  BY DEF S!ProcessWrites
<1>3. n \in Nat /\ ShellBytes \in Nat
  BY ProvidersAssumption DEF S!ShellProcessAssumption
<1>4. \A d \in S!Channels : /\ sent[d] \in 0 .. ShellBytes /\ unread[d] \in 0 .. ShellBytes
                            /\ wrote[d] \in 0 .. ShellBytes
  BY DEF ShellInv, ShellTypes
<1>5. \A d \in S!Channels : /\ wrote'[d] \in 0 .. ShellBytes /\ unread'[d] \in 0 .. ShellBytes
                            /\ sent[d] + unread'[d] <= wrote'[d]
                            /\ up => sent[d] + unread'[d] = wrote'[d]
  <2> TAKE d \in S!Channels
  <2>1. /\ sent[d] + unread[d] <= wrote[d]
        /\ up => sent[d] + unread[d] = wrote[d]
    BY DEF ShellInv, OutputInv, Accounted
  <2>2. DOMAIN wrote = S!Channels /\ DOMAIN unread = S!Channels
    BY DEF ShellInv, ShellTypes
  <2>3. CASE d = c
    <3>1. wrote'[d] = wrote[d] + n /\ unread'[d] = unread[d] + n
      BY <1>1, <2>2, <2>3
    <3>2. wrote[d] + n <= ShellBytes
      BY <1>1, <2>3
    <3> QED BY <1>3, <1>4, <2>1, <3>1, <3>2
  <2>4. CASE d # c
    <3>1. wrote'[d] = wrote[d] /\ unread'[d] = unread[d]
      BY <1>1, <2>2, <2>4
    <3> QED BY <1>4, <2>1, <3>1
  <2> QED BY <2>3, <2>4
<1>6. wrote' \in [S!Channels -> 0 .. ShellBytes] /\ unread' \in [S!Channels -> 0 .. ShellBytes]
  BY <1>1, <1>5 DEF ShellInv, ShellTypes
<1>7. ShellTypes'
  BY <1>2, <1>6 DEF ShellInv, ShellTypes
<1>8. OutputInv'
  BY <1>2, <1>5 DEF ShellInv, OutputInv, Accounted
<1>9. InputInv'
  BY <1>2 DEF ShellInv, InputInv, NothingMissing
<1> QED BY <1>7, <1>8, <1>9 DEF ShellInv

LEMMA ReadsShell == ShellInv /\ S!ProcessReads => ShellInv'
<1> SUFFICES ASSUME ShellInv, S!ProcessReads PROVE ShellInv'
  OBVIOUS
<1>1. /\ proc = "running" /\ stdin # <<>> /\ fed' = Head(stdin) /\ stdin' = Tail(stdin)
      /\ hole' = (hole \/ Head(stdin) # fed + 1)
      /\ UNCHANGED <<kind, proc, typed, dropped, wrote, unread, sent, up, app>>
  BY DEF S!ProcessReads
<1>2. stdin \in Seq(Nat)
  BY DEF ShellInv, ShellTypes
<1> DEFINE n == Len(stdin)
<1>3. /\ n \in Nat \ {0} /\ Head(stdin) = stdin[1]
      /\ stdin' \in Seq(Nat) /\ Len(stdin') = n - 1
      /\ \A i \in 1 .. n - 1 : stdin'[i] = stdin[i + 1]
  BY <1>1, <1>2, HeadTailProperties, LenProperties, EmptySeq
<1> HIDE DEF n
<1>4. typed \in 0 .. ShellBytes /\ fed \in 0 .. ShellBytes /\ ShellBytes \in Nat
  BY ProvidersAssumption DEF ShellInv, ShellTypes, S!ShellProcessAssumption
<1>5. \A i \in 1 .. n : stdin[i] \in 1 .. typed
  BY DEF ShellInv, InputInv, n
<1>6. ShellTypes'
  <2>1. fed' \in 0 .. ShellBytes /\ hole' \in BOOLEAN
    BY <1>1, <1>3, <1>4, <1>5 DEF ShellInv, ShellTypes
  <2> QED BY <1>1, <1>3, <2>1 DEF ShellInv, ShellTypes
<1>7. OutputInv'
  BY <1>1 DEF ShellInv, OutputInv, Accounted
<1>8. ASSUME dropped = 0 PROVE NothingMissing'
  <2>1. /\ ~hole /\ typed = fed + n /\ \A i \in 1 .. n : stdin[i] = fed + i
    BY <1>8 DEF ShellInv, InputInv, NothingMissing, n
  <2>2. Head(stdin) = fed + 1
    BY <1>3, <2>1
  <2>5. fed' = fed + 1 /\ ~hole'
    BY <1>1, <2>1, <2>2
  <2>3. typed' = fed' + Len(stdin')
    BY <1>1, <1>3, <1>4, <2>1, <2>5
  <2>4. \A i \in 1 .. Len(stdin') : stdin'[i] = fed' + i
    <3> TAKE i \in 1 .. Len(stdin')
    <3>1. i \in 1 .. n - 1 /\ i + 1 \in 1 .. n
      BY <1>3
    <3>2. stdin'[i] = stdin[i + 1] /\ stdin[i + 1] = fed + (i + 1)
      BY <1>3, <2>1, <3>1
    <3> QED BY <1>4, <2>5, <3>1, <3>2
  <2> QED BY <2>3, <2>4, <2>5 DEF NothingMissing
<1>9. kind = "cmd" => dropped = 0
  BY <1>1 DEF ShellInv, InputInv
<1>10. InputInv'
  <2>1. \A i \in 1 .. Len(stdin') : stdin'[i] \in 1 .. typed'
    BY <1>1, <1>3, <1>5
  <2>2. kind' = "pty" => Len(stdin') <= PtyRoom
    BY <1>1, <1>3, ProvidersAssumption DEF ShellInv, InputInv, n, S!ShellProcessAssumption
  <2>3. hole' => kind' = "pty"
    <3>1. kind # "none"
      BY <1>1 DEF ShellInv, OutputInv
    <3> QED BY <1>1, <1>8, <1>9, <3>1 DEF ShellInv, ShellTypes, NothingMissing
  <2> QED BY <1>1, <1>8, <2>1, <2>2, <2>3 DEF ShellInv, InputInv
<1> QED BY <1>6, <1>7, <1>10 DEF ShellInv

(* The elements of a concatenation, from the first and from the second.    *)
LEMMA Concatenated ==
  ASSUME NEW D, NEW p \in Seq(D), NEW q \in Seq(D), NEW m \in Nat, NEW k \in Nat, Len(p) = m, Len(q) = k
  PROVE  /\ p \o q \in Seq(D) /\ Len(p \o q) = m + k
         /\ \A i \in 1 .. m : (p \o q)[i] = p[i]
         /\ \A i \in 1 .. k : (p \o q)[m + i] = q[i]
<1>1. /\ p \o q \in Seq(D) /\ Len(p \o q) = Len(p) + Len(q)
      /\ \A i \in 1 .. Len(p) + Len(q) : (p \o q)[i] = IF i <= Len(p) THEN p[i] ELSE q[i - Len(p)]
  BY ConcatProperties
<1>2. PICK w : w = p \o q
  OBVIOUS
<1>3. Len(w) = m + k /\ \A i \in 1 .. m + k : w[i] = IF i <= m THEN p[i] ELSE q[i - m]
  BY <1>1, <1>2
<1>4. ASSUME NEW i \in 1 .. m PROVE w[i] = p[i]
  <2>1. i \in 1 .. m + k /\ i <= m
    OBVIOUS
  <2> QED BY <1>3, <2>1
<1>5. ASSUME NEW i \in 1 .. k PROVE w[m + i] = q[i]
  <2>1. m + i \in 1 .. m + k /\ ~(m + i <= m) /\ (m + i) - m = i
    OBVIOUS
  <2>2. w[m + i] = q[(m + i) - m]
    BY <1>3, <2>1
  <2> QED BY <2>1, <2>2
<1> QED BY <1>1, <1>2, <1>3, <1>4, <1>5

(* What a write of n bytes takes, and what it drops.                       *)
LEMMA WriteStdInFacts ==
  ASSUME ShellInv, kind # "none", NEW n \in Nat, S!WriteStdIn(n)
  PROVE  \E taken \in 0 .. n :
           /\ dropped' = dropped + (n - taken)
           /\ stdin' \in Seq(Nat) /\ Len(stdin') = Len(stdin) + taken
           /\ \A i \in 1 .. Len(stdin) : stdin'[i] = stdin[i]
           /\ \A i \in 1 .. taken : stdin'[Len(stdin) + i] = typed + i
           /\ kind = "cmd" /\ proc \in {"starting", "running"} => taken = n
           /\ kind = "pty" => Len(stdin) + taken <= PtyRoom
<1> DEFINE room == CASE proc \notin {"starting", "running"} -> 0
                     [] proc \in {"starting", "running"} /\ kind = "cmd" -> n
                     [] OTHER -> PtyRoom - Len(stdin)
           taken == IF n <= room THEN n ELSE room
           chunk == SubSeq(S!Chunk(n), 1, taken)
<1>1. stdin \in Seq(Nat) /\ Len(stdin) \in Nat /\ typed \in Nat
  BY LenProperties DEF ShellInv, ShellTypes
<1>2. room \in Nat /\ (kind = "cmd" /\ proc \in {"starting", "running"} => room = n)
      /\ (kind = "pty" => room <= PtyRoom - Len(stdin))
  BY <1>1, ProvidersAssumption DEF ShellInv, ShellTypes, InputInv, S!ShellProcessAssumption
<1>3. stdin' = stdin \o chunk /\ dropped' = dropped + (n - taken)
  BY DEF S!WriteStdIn
<1> HIDE DEF room
<1>4. taken \in 0 .. n /\ taken <= room
  BY <1>2
<1> HIDE DEF taken
<1>5. S!Chunk(n) = [i \in 1 .. n |-> typed + i] /\ \A i \in 1 .. n : typed + i \in Nat
  BY <1>1 DEF S!Chunk
<1>6. S!Chunk(n) \in Seq(Nat) /\ Len(S!Chunk(n)) = n
  BY <1>5, IsASeq
<1>7. chunk \in Seq(Nat) /\ Len(chunk) = taken /\ \A i \in 1 .. taken : chunk[i] = typed + i
  BY <1>4, <1>5, <1>6, SubSeqProperties
<1> HIDE DEF chunk
<1>8. /\ stdin' \in Seq(Nat) /\ Len(stdin') = Len(stdin) + taken
      /\ \A i \in 1 .. Len(stdin) : stdin'[i] = stdin[i]
      /\ \A i \in 1 .. taken : stdin'[Len(stdin) + i] = chunk[i]
  <2>1. PICK len \in Nat : len = Len(stdin)
    BY <1>1
  <2>2. taken \in Nat
    BY <1>4
  <2>3. /\ stdin \o chunk \in Seq(Nat) /\ Len(stdin \o chunk) = len + taken
        /\ \A i \in 1 .. len : (stdin \o chunk)[i] = stdin[i]
        /\ \A i \in 1 .. taken : (stdin \o chunk)[len + i] = chunk[i]
    BY <1>1, <1>7, <2>1, <2>2, Concatenated
  <2> QED BY <1>3, <2>1, <2>3
<1>9. kind = "pty" => Len(stdin) + taken <= PtyRoom
  <2>1. taken \in Nat /\ PtyRoom \in Nat
    BY <1>4, ProvidersAssumption DEF S!ShellProcessAssumption
  <2> QED BY <1>1, <1>2, <1>4, <2>1
<1>10. \A i \in 1 .. taken : stdin'[Len(stdin) + i] = typed + i
  BY <1>7, <1>8
<1>11. kind = "cmd" /\ proc \in {"starting", "running"} => taken = n
  <2>1. room = n => taken = n
    BY DEF taken
  <2> QED BY <1>2, <2>1
<1>12. PICK took : took = taken
  OBVIOUS
<1> QED BY <1>3, <1>4, <1>8, <1>9, <1>10, <1>11, <1>12

LEMMA DataShell == ShellInv /\ S!DataReceived => ShellInv'
<1> SUFFICES ASSUME ShellInv, S!DataReceived PROVE ShellInv'
  OBVIOUS
<1>1. PICK n \in 1 .. ShellChunk : typed + n <= ShellBytes /\ typed' = typed + n /\ S!WriteStdIn(n)
  BY DEF S!DataReceived
<1>2. kind # "none" /\ UNCHANGED <<kind, proc, fed, hole, wrote, unread, sent, up, app>>
  BY DEF S!DataReceived
<1>3. n \in Nat \ {0} /\ ShellBytes \in Nat
  BY ProvidersAssumption DEF S!ShellProcessAssumption
<1>4. PICK taken \in 0 .. n :
        /\ dropped' = dropped + (n - taken)
        /\ stdin' \in Seq(Nat) /\ Len(stdin') = Len(stdin) + taken
        /\ \A i \in 1 .. Len(stdin) : stdin'[i] = stdin[i]
        /\ \A i \in 1 .. taken : stdin'[Len(stdin) + i] = typed + i
        /\ kind = "cmd" /\ proc \in {"starting", "running"} => taken = n
        /\ kind = "pty" => Len(stdin) + taken <= PtyRoom
  BY <1>1, <1>2, <1>3, WriteStdInFacts
<1>5. /\ stdin \in Seq(Nat) /\ Len(stdin) \in Nat /\ typed \in Nat /\ fed \in Nat /\ dropped \in Nat
      /\ taken \in Nat /\ dropped <= typed
  BY <1>3, LenProperties DEF ShellInv, ShellTypes, InputInv
<1>6. dropped' \in 0 .. ShellBytes /\ dropped' <= typed' /\ typed' \in 0 .. ShellBytes
  BY <1>1, <1>3, <1>4, <1>5
<1>7. ShellTypes'
  BY <1>2, <1>4, <1>6 DEF ShellInv, ShellTypes
<1>8. OutputInv'
  BY <1>2 DEF ShellInv, OutputInv, Accounted
<1>9. \A i \in 1 .. Len(stdin') : \/ i \in 1 .. Len(stdin)
                                  \/ \E j \in 1 .. taken : i = Len(stdin) + j
  <2> TAKE i \in 1 .. Len(stdin')
  <2>1. i \in 1 .. Len(stdin) \/ i - Len(stdin) \in 1 .. taken
    BY <1>4, <1>5
  <2>2. i = Len(stdin) + (i - Len(stdin))
    BY <1>5
  <2> QED BY <2>1, <2>2
<1>10. \A i \in 1 .. Len(stdin') : stdin'[i] \in 1 .. typed'
  <2>1. \A i \in 1 .. Len(stdin) : stdin'[i] \in 1 .. typed'
    <3> TAKE i \in 1 .. Len(stdin)
    <3>1. stdin'[i] = stdin[i] /\ stdin[i] \in 1 .. typed
      BY <1>4 DEF ShellInv, InputInv
    <3> QED BY <1>1, <1>3, <1>5, <3>1
  <2>2. \A j \in 1 .. taken : stdin'[Len(stdin) + j] \in 1 .. typed'
    <3> TAKE j \in 1 .. taken
    <3>1. stdin'[Len(stdin) + j] = typed + j
      BY <1>4
    <3>2. typed + j \in 1 .. typed + n
      BY <1>3, <1>5
    <3> QED BY <1>1, <3>1, <3>2
  <2> QED BY <1>9, <2>1, <2>2
<1>11. ASSUME dropped' = 0 PROVE NothingMissing'
  <2>1. dropped = 0 /\ taken = n
    BY <1>3, <1>4, <1>5, <1>11
  <2>2. ~hole /\ typed = fed + Len(stdin) /\ \A i \in 1 .. Len(stdin) : stdin[i] = fed + i
    BY <2>1 DEF ShellInv, InputInv, NothingMissing
  <2>3. typed' = fed' + Len(stdin')
    <3>1. typed' = typed + n /\ Len(stdin') = Len(stdin) + n /\ fed' = fed
      BY <1>1, <1>2, <1>4, <2>1
    <3> QED BY <1>3, <1>5, <2>2, <3>1
  <2>4. \A j \in 1 .. taken : stdin'[Len(stdin) + j] = fed + (Len(stdin) + j)
    <3> TAKE j \in 1 .. taken
    <3>1. stdin'[Len(stdin) + j] = typed + j
      BY <1>4
    <3>2. typed = fed + Len(stdin)
      BY <2>2
    <3> QED BY <1>5, <3>1, <3>2
  <2>5. \A i \in 1 .. Len(stdin') : stdin'[i] = fed' + i
    <3> TAKE i \in 1 .. Len(stdin')
    <3>1. CASE i \in 1 .. Len(stdin)
      <4>1. stdin'[i] = stdin[i] /\ stdin[i] = fed + i
        BY <1>4, <2>2, <3>1
      <4> QED BY <1>2, <4>1
    <3>2. ASSUME NEW j \in 1 .. taken, i = Len(stdin) + j PROVE stdin'[i] = fed' + i
      BY <1>2, <2>4, <3>2
    <3> QED BY <1>9, <3>1, <3>2
  <2> QED BY <1>2, <2>2, <2>3, <2>5 DEF NothingMissing
<1>12. kind = "cmd" /\ proc \in {"starting", "running"} => dropped' = 0
  BY <1>3, <1>4, <1>5 DEF ShellInv, InputInv
<1>13. InputInv'
  BY <1>2, <1>4, <1>6, <1>10, <1>11, <1>12 DEF ShellInv, InputInv
<1> QED BY <1>7, <1>8, <1>13 DEF ShellInv

LEMMA StepShell == ShellInv /\ [S!Next]_sVars => ShellInv'
  BY StartShell, EndShell, ReadyReadShell, WriteShell, ReadsShell, DataShell DEF S!Next

LEMMA ShellHolds == ShellInv => S!TypeOK /\ S!NothingUntold
<1> SUFFICES ASSUME ShellInv PROVE S!TypeOK /\ S!NothingUntold
  OBVIOUS
<1>1. S!TypeOK
  BY DEF ShellInv, ShellTypes, S!TypeOK
<1>2. ASSUME kind = "cmd", proc = "finished", up PROVE sent = wrote
  <2>1. \A c \in S!Channels : unread[c] = 0 /\ sent[c] = wrote[c]
    BY <1>2 DEF ShellInv, ShellTypes, OutputInv, Accounted, S!Zero
  <2> QED BY <2>1 DEF ShellInv, ShellTypes
<1>3. hole => kind = "pty" /\ dropped > 0
  BY DEF ShellInv, ShellTypes, InputInv, NothingMissing
<1> QED BY <1>1, <1>2, <1>3 DEF S!NothingUntold

LEMMA CommandsStep == [MCNext]_allVars => [A!Next]_aVars
  BY Zenon DEF MCNext, allVars

LEMMA ShellStep == [MCNext]_allVars => [S!Next]_sVars
  BY Zenon DEF MCNext, allVars

(* A request to run a command is responded to once, and not before its     *)
(* process has ended; when a command has ended its tunnel has got all it   *)
(* wrote, and no process misses a byte of its input that the log does not  *)
(* tell of.                                                                *)
THEOREM CommandsAnswered == MCSpec => []CallsAnswered
<1>1. MCInit => RespondInv /\ ShellInv
  BY InitRespond, InitShell DEF MCInit
<1>2. RespondInv /\ [MCNext]_allVars => RespondInv'
  BY CommandsStep, StepRespond
<1>3. ShellInv /\ [MCNext]_allVars => ShellInv'
  BY ShellStep, StepShell
<1>4. RespondInv /\ ShellInv => CallsAnswered
  BY RespondedOnceHolds, ShellHolds DEF CallsAnswered
<1> QED BY <1>1, <1>2, <1>3, <1>4, PTL DEF MCSpec

(***************************************************************************)
(* MqttBridge, for any topics.  The signals of a topic are under way in    *)
(* the order of its changes, after the value published; and the last of    *)
(* them is the newest value, unless that was missed.                       *)
(***************************************************************************)
Signals == [topic : MqttTopics, value : 0 .. MqttChanges]

BridgeTypes ==
  /\ value \in [MqttTopics -> 0 .. MqttChanges] /\ published \in [MqttTopics -> 0 .. MqttChanges]
  /\ mbUp \in BOOLEAN /\ mbSubscribed \subseteq MqttTopics /\ mbCalls \subseteq MqttTopics
  /\ missed \subseteq MqttTopics
  /\ mqtt \in {"connecting", "connected"} /\ mbFaults \in 0 .. MqttFaults
  /\ wire \in Seq(Signals)

Later(w, i, v, pub) ==
  /\ pub[w[i].topic] <= w[i].value /\ w[i].value <= v[w[i].topic]
  /\ \A j \in (i + 1) .. Len(w) : w[j].topic = w[i].topic => w[i].value <= w[j].value

Last(w, i) == \A j \in (i + 1) .. Len(w) : w[j].topic # w[i].topic

(* Of a topic with signals under way.                                      *)
WireInv ==
  \A i \in 1 .. Len(wire) :
    /\ Later(wire, i, value, published)
    /\ Last(wire, i) /\ wire[i].topic \notin missed => wire[i].value = value[wire[i].topic]

(* Of a topic without.                                                     *)
QuietInv ==
  \A t \in MqttTopics :
    /\ published[t] <= value[t]
    /\ t \notin missed /\ (\A i \in 1 .. Len(wire) : wire[i].topic # t) => published[t] = value[t]

BridgeInv == BridgeTypes /\ WireInv /\ QuietInv

LEMMA InWireFacts ==
  ASSUME BridgeTypes, NEW t
  PROVE  t \notin M!InWire <=> \A i \in 1 .. Len(wire) : wire[i].topic # t
<1>1. DOMAIN wire = 1 .. Len(wire)
  BY LenProperties DEF BridgeTypes
<1> QED BY <1>1 DEF M!InWire

LEMMA InitBridge == M!Init => BridgeInv
<1> SUFFICES ASSUME M!Init PROVE BridgeInv
  OBVIOUS
<1>1. wire = <<>> /\ Len(wire) = 0
  BY DEF M!Init
<1>2. MqttChanges \in Nat /\ MqttFaults \in Nat
  BY ProvidersAssumption DEF M!MqttBridgeAssumption
<1>3. /\ value = [t \in MqttTopics |-> 0] /\ published = value
      /\ mbUp = FALSE /\ mbSubscribed = {} /\ mbCalls = {} /\ missed = {}
      /\ mqtt = "connecting" /\ mbFaults = 0
  BY DEF M!Init
<1>4. value \in [MqttTopics -> 0 .. MqttChanges] /\ \A t \in MqttTopics : value[t] = 0
  BY <1>2, <1>3
<1>8. wire \in Seq(Signals)
  BY <1>1
<1>9. mbFaults \in 0 .. MqttFaults /\ published \in [MqttTopics -> 0 .. MqttChanges]
  BY <1>2, <1>3, <1>4
<1>5. BridgeTypes
  BY <1>3, <1>4, <1>8, <1>9 DEF BridgeTypes
<1>6. WireInv
  BY <1>1 DEF WireInv
<1>7. QuietInv
  BY <1>3, <1>4 DEF QuietInv
<1> QED BY <1>5, <1>6, <1>7 DEF BridgeInv

(* The connections come and go; what was under way is missed.              *)
LEMMA ConnectionBridge ==
  ASSUME BridgeInv,
         \/ M!BrokerConnected \/ M!BrokerDisconnected \/ M!Subscribed
         \/ M!MqttConnected \/ M!MqttError \/ UNCHANGED mVars
  PROVE  BridgeInv' /\ published' = published
<1>1. /\ UNCHANGED <<value, published>>
      /\ mbUp' \in BOOLEAN /\ mbSubscribed' \subseteq MqttTopics /\ mbCalls' \subseteq MqttTopics
      /\ mqtt' \in {"connecting", "connected"}
  BY DEF BridgeInv, BridgeTypes, M!BrokerConnected, M!OnBrokerConnected,
         M!BrokerDisconnected, M!Subscribed, M!MqttConnected, M!MqttError, mVars
<1>4. mbFaults' \in 0 .. MqttFaults
  <2>1. mbFaults' = mbFaults \/ (mbFaults < MqttFaults /\ mbFaults' = mbFaults + 1)
    BY DEF M!BrokerConnected, M!BrokerDisconnected, M!Subscribed, M!MqttConnected, M!MqttError, M!Fault, mVars
  <2>2. mbFaults \in 0 .. MqttFaults /\ MqttFaults \in Nat
    BY ProvidersAssumption DEF BridgeInv, BridgeTypes, M!MqttBridgeAssumption
  <2> QED BY <2>1, <2>2
<1>2. CASE UNCHANGED <<wire, missed>>
  BY <1>1, <1>2, <1>4 DEF BridgeInv, BridgeTypes, WireInv, QuietInv, Later, Last
<1>3. CASE wire' = <<>> /\ missed' = missed \cup M!InWire
  <2>1. Len(wire') = 0 /\ wire' \in Seq(Signals)
    BY <1>3
  <2>2. ASSUME NEW t \in MqttTopics, t \notin missed' PROVE published[t] = value[t]
    BY <1>3, <2>2, InWireFacts DEF BridgeInv, QuietInv
  <2>3. missed' \subseteq MqttTopics
    <3>1. M!InWire \subseteq MqttTopics
      <4>1. \A i \in DOMAIN wire : wire[i] \in Signals
        BY ElementOfSeq, LenProperties DEF BridgeInv, BridgeTypes
      <4> QED BY <4>1 DEF M!InWire, Signals
    <3> QED BY <1>3, <3>1 DEF BridgeInv, BridgeTypes
  <2>4. BridgeTypes'
    BY <1>1, <1>4, <2>1, <2>3 DEF BridgeInv, BridgeTypes
  <2> QED BY <1>1, <2>1, <2>2, <2>4 DEF BridgeInv, WireInv, QuietInv
<1> QED BY <1>1, <1>2, <1>3
        DEF M!BrokerConnected, M!BrokerDisconnected, M!Subscribed, M!MqttConnected, M!MqttError, mVars

(* A signal arrives: it is published, or missed.                           *)
LEMMA SignalBridge ==
  ASSUME BridgeInv, M!OnSignal
  PROVE  BridgeInv' /\ \A t \in MqttTopics : published'[t] >= published[t]
<1> DEFINE n == Len(wire)
           s == Head(wire)
<1>1. /\ n \in Nat \ {0} /\ s = wire[1] /\ wire' = Tail(wire)
      /\ wire' \in Seq(Signals) /\ Len(wire') = n - 1
      /\ \A i \in 1 .. n - 1 : wire'[i] = wire[i + 1]
      /\ \A i \in 1 .. n : wire[i] \in Signals
  <2>1. wire \in Seq(Signals) /\ wire # <<>> /\ wire' = Tail(wire)
    BY DEF M!OnSignal, BridgeInv, BridgeTypes
  <2>2. n \in Nat \ {0}
    BY <2>1, LenProperties, EmptySeq
  <2>3. /\ s = wire[1] /\ wire' \in Seq(Signals) /\ Len(wire') = n - 1
        /\ \A i \in 1 .. n - 1 : wire'[i] = wire[i + 1]
    BY <2>1, HeadTailProperties
  <2>4. \A i \in 1 .. n : wire[i] \in Signals
    BY <2>1, ElementOfSeq
  <2> QED BY <2>1, <2>2, <2>3, <2>4
<1>2. /\ UNCHANGED <<value, mbUp, mbSubscribed, mbCalls, mqtt, mbFaults>>
      /\ \/ published' = [published EXCEPT ![s.topic] = s.value] /\ missed' = missed
         \/ missed' = missed \cup {s.topic} /\ published' = published
  BY DEF M!OnSignal
<1> HIDE DEF n, s
<1>3. s.topic \in MqttTopics /\ s.value \in 0 .. MqttChanges
  <2>1. s \in Signals
    BY <1>1
  <2> QED BY <2>1 DEF Signals
<1>4. /\ published \in [MqttTopics -> 0 .. MqttChanges] /\ value \in [MqttTopics -> 0 .. MqttChanges]
      /\ missed \subseteq MqttTopics /\ MqttChanges \in Nat
  BY ProvidersAssumption DEF BridgeInv, BridgeTypes, M!MqttBridgeAssumption
<1>5. /\ published[s.topic] <= s.value /\ s.value <= value[s.topic]
      /\ \A i \in 2 .. n : wire[i].topic = s.topic => s.value <= wire[i].value
      /\ (\A i \in 2 .. n : wire[i].topic # s.topic) /\ s.topic \notin missed => s.value = value[s.topic]
  BY <1>1 DEF BridgeInv, WireInv, Later, Last, n
<1>6. BridgeTypes'
  <2>1. published' \in [MqttTopics -> 0 .. MqttChanges] /\ missed' \subseteq MqttTopics
    BY <1>2, <1>3, <1>4
  <2> QED BY <1>1, <1>2, <2>1 DEF BridgeInv, BridgeTypes
<1>7. \A t \in MqttTopics : published'[t] >= published[t]
  BY <1>2, <1>3, <1>4, <1>5
<1>8. WireInv'
  <2> SUFFICES ASSUME NEW i \in 1 .. n - 1
      PROVE  /\ Later(wire', i, value, published')
             /\ Last(wire', i) /\ wire'[i].topic \notin missed' => wire'[i].value = value[wire'[i].topic]
    BY <1>1, <1>2 DEF WireInv
  <2>1. i + 1 \in 1 .. n /\ i + 1 \in 2 .. n /\ wire'[i] = wire[i + 1] /\ wire[i + 1].topic \in MqttTopics
        /\ wire[i + 1].value \in 0 .. MqttChanges
    <3>1. i + 1 \in 1 .. n /\ i + 1 \in 2 .. n
      BY <1>1
    <3>2. wire'[i] = wire[i + 1] /\ wire[i + 1] \in Signals
      BY <1>1, <3>1
    <3> QED BY <3>1, <3>2 DEF Signals
  <2>2. /\ published[wire[i + 1].topic] <= wire[i + 1].value /\ wire[i + 1].value <= value[wire[i + 1].topic]
        /\ \A j \in (i + 2) .. n : wire[j].topic = wire[i + 1].topic => wire[i + 1].value <= wire[j].value
    BY <1>1, <2>1 DEF BridgeInv, WireInv, Later, n
  <2>3. published'[wire[i + 1].topic] <= wire[i + 1].value
    <3>1. CASE wire[i + 1].topic = s.topic
      BY <1>2, <1>3, <1>4, <1>5, <2>1, <2>2, <3>1
    <3>2. CASE wire[i + 1].topic # s.topic
      BY <1>2, <1>3, <1>4, <2>1, <2>2, <3>2
    <3> QED BY <3>1, <3>2
  <2>4. \A j \in (i + 1) .. n - 1 : j + 1 \in (i + 2) .. n /\ wire'[j] = wire[j + 1]
    <3> TAKE j \in (i + 1) .. n - 1
    <3>1. j \in 1 .. n - 1 /\ j + 1 \in (i + 2) .. n
      BY <1>1
    <3> QED BY <1>1, <3>1
  <2>5. Later(wire', i, value, published')
    BY <1>1, <2>1, <2>2, <2>3, <2>4 DEF Later
  <2>6. ASSUME Last(wire', i), wire'[i].topic \notin missed' PROVE wire'[i].value = value[wire'[i].topic]
    <3>1. ASSUME NEW k \in (i + 2) .. n PROVE wire[k].topic # wire[i + 1].topic
      <4>1. k - 1 \in (i + 1) .. n - 1 /\ (k - 1) + 1 = k
        BY <1>1
      <4>2. wire'[k - 1] = wire[k] /\ wire'[k - 1].topic # wire'[i].topic
        BY <1>1, <2>4, <2>6, <4>1 DEF Last
      <4> QED BY <2>1, <4>2
    <3>2. Last(wire, i + 1) /\ wire[i + 1].topic \notin missed
      BY <1>1, <1>2, <2>1, <2>6, <3>1 DEF Last, n
    <3> QED BY <2>1, <3>2 DEF BridgeInv, WireInv, n
  <2> QED BY <2>5, <2>6
<1>9. QuietInv'
  <2> SUFFICES ASSUME NEW t \in MqttTopics
      PROVE  /\ published'[t] <= value[t]
             /\ t \notin missed' /\ (\A i \in 1 .. n - 1 : wire'[i].topic # t) => published'[t] = value[t]
    BY <1>1, <1>2 DEF QuietInv
  <2>1. published[t] <= value[t]
    BY DEF BridgeInv, QuietInv
  <2>2. published'[t] <= value[t]
    BY <1>2, <1>3, <1>4, <1>5, <2>1
  <2>3. ASSUME t \notin missed', \A i \in 1 .. n - 1 : wire'[i].topic # t PROVE published'[t] = value[t]
    <3>1. ASSUME NEW k \in 2 .. n PROVE wire[k].topic # t
      <4>1. k - 1 \in 1 .. n - 1 /\ (k - 1) + 1 = k
        BY <1>1
      <4>2. wire'[k - 1] = wire[k]
        BY <1>1, <4>1
      <4> QED BY <2>3, <4>1, <4>2
    <3>2. t \notin missed
      BY <1>2, <2>3
    <3>3. CASE t = s.topic
      BY <1>2, <1>3, <1>4, <1>5, <2>3, <3>1, <3>2, <3>3
    <3>4. CASE t # s.topic
      <4>1. \A i \in 1 .. n : wire[i].topic # t
        BY <1>1, <3>1, <3>4
      <4>2. published[t] = value[t]
        BY <3>2, <4>1 DEF BridgeInv, QuietInv, n
      <4> QED BY <1>2, <1>3, <1>4, <3>4, <4>2
    <3> QED BY <3>3, <3>4
  <2> QED BY <2>2, <2>3
<1> QED BY <1>6, <1>7, <1>8, <1>9 DEF BridgeInv

(* A value changes, and its signal is sent or missed.                      *)
LEMMA ChangesBridge == BridgeInv /\ M!Changes => BridgeInv' /\ published' = published
<1> SUFFICES ASSUME BridgeInv, M!Changes PROVE BridgeInv' /\ published' = published
  OBVIOUS
<1>1. PICK t \in MqttTopics :
        /\ value[t] < MqttChanges /\ value' = [value EXCEPT ![t] = @ + 1]
        /\ \/ /\ wire' = Append(wire, [topic |-> t, value |-> value'[t]])
              /\ missed' = missed \ {t}
           \/ missed' = missed \cup {t} /\ UNCHANGED wire
  BY DEF M!Changes
<1>2. UNCHANGED <<published, mbUp, mbSubscribed, mbCalls, mqtt, mbFaults>>
  BY DEF M!Changes
<1> DEFINE n == Len(wire)
<1>3. wire \in Seq(Signals) /\ n \in Nat
  BY LenProperties DEF BridgeInv, BridgeTypes
<1>4. \A i \in 1 .. n : wire[i] \in Signals
  BY <1>3, ElementOfSeq
<1>5. /\ published \in [MqttTopics -> 0 .. MqttChanges] /\ value \in [MqttTopics -> 0 .. MqttChanges]
      /\ missed \subseteq MqttTopics /\ MqttChanges \in Nat
  BY ProvidersAssumption DEF BridgeInv, BridgeTypes, M!MqttBridgeAssumption
<1>6. /\ value' \in [MqttTopics -> 0 .. MqttChanges] /\ value'[t] = value[t] + 1
      /\ \A u \in MqttTopics \ {t} : value'[u] = value[u]
  BY <1>1, <1>5
<1>7. \A u \in MqttTopics : value[u] <= value'[u] /\ value[u] \in Nat /\ value'[u] \in Nat
  BY <1>5, <1>6
<1>8. \A i \in 1 .. n : wire[i].topic \in MqttTopics /\ wire[i].value \in 0 .. MqttChanges
  BY <1>4 DEF Signals
<1>9. ASSUME NEW i \in 1 .. n PROVE Later(wire, i, value', published')
  <2>1. Later(wire, i, value, published)
    BY DEF BridgeInv, WireInv
  <2> QED BY <1>2, <1>7, <1>8, <2>1 DEF Later
<1>10. \A u \in MqttTopics : published'[u] <= value'[u]
  <2>1. \A u \in MqttTopics : published[u] <= value[u] /\ published[u] \in Nat
    BY <1>5 DEF BridgeInv, QuietInv
  <2> QED BY <1>2, <1>7, <2>1
<1> HIDE DEF n
<1>11. CASE missed' = missed \cup {t} /\ UNCHANGED wire
  <2>1. BridgeTypes'
    BY <1>1, <1>2, <1>5, <1>6, <1>11 DEF BridgeInv, BridgeTypes
  <2>2. WireInv'
    <3> SUFFICES ASSUME NEW i \in 1 .. n, Last(wire, i), wire[i].topic \notin missed'
        PROVE  wire[i].value = value'[wire[i].topic]
      BY <1>9, <1>11 DEF WireInv, n
    <3>1. wire[i].topic # t /\ wire[i].topic \notin missed
      BY <1>11
    <3> QED BY <1>6, <1>8, <3>1 DEF BridgeInv, WireInv, n
  <2>3. QuietInv'
    <3> SUFFICES ASSUME NEW u \in MqttTopics, u \notin missed', \A i \in 1 .. n : wire[i].topic # u
        PROVE  published'[u] = value'[u]
      BY <1>10, <1>11 DEF QuietInv, n
    <3>1. u # t /\ u \notin missed
      BY <1>11
    <3> QED BY <1>2, <1>6, <3>1 DEF BridgeInv, QuietInv, n
  <2> QED BY <1>2, <2>1, <2>2, <2>3 DEF BridgeInv
<1>12. CASE wire' = Append(wire, [topic |-> t, value |-> value'[t]]) /\ missed' = missed \ {t}
  <2> DEFINE s == [topic |-> t, value |-> value'[t]]
  <2>1. s \in Signals /\ s.topic = t /\ s.value = value'[t]
    BY <1>6 DEF Signals
  <2> HIDE DEF s
  <2>2. wire' = Append(wire, s)
    BY <1>12 DEF s
  <2>3. /\ wire' \in Seq(Signals)
        /\ Len(wire') = n + 1 /\ wire'[n + 1] = s
        /\ \A i \in 1 .. n : wire'[i] = wire[i]
    BY <1>3, <2>1, <2>2, AppendProperties DEF n
  <2>4. BridgeTypes'
    BY <1>2, <1>5, <1>6, <1>12, <2>3 DEF BridgeInv, BridgeTypes
  <2>5. Later(wire', n + 1, value', published')
    BY <1>3, <1>7, <1>10, <2>1, <2>3 DEF Later
  <2>6. ASSUME NEW i \in 1 .. n PROVE Later(wire', i, value', published')
    <3>1. Later(wire, i, value', published')
      BY <1>9 DEF n
    <3>2. wire[i].topic = t => wire[i].value <= value'[t]
      BY <3>1 DEF Later
    <3>3. \A j \in (i + 1) .. n + 1 : j \in (i + 1) .. n \/ j = n + 1
      BY <1>3
    <3>4. \A j \in (i + 1) .. n : j \in 1 .. n /\ wire'[j] = wire[j]
      BY <1>3, <2>3
    <3>5. \A j \in (i + 1) .. n + 1 : wire'[j].topic = wire'[i].topic => wire'[i].value <= wire'[j].value
      BY <2>1, <2>3, <3>1, <3>2, <3>3, <3>4 DEF Later, n
    <3> QED BY <2>3, <3>1, <3>5 DEF Later
  <2>7. ASSUME NEW i \in 1 .. n, Last(wire', i), wire'[i].topic \notin missed'
        PROVE  wire'[i].value = value'[wire'[i].topic]
    <3>1. wire'[i] = wire[i] /\ n + 1 \in (i + 1) .. Len(wire')
      BY <1>3, <2>3
    <3>2. wire[i].topic # t
      BY <2>1, <2>3, <2>7, <3>1 DEF Last
    <3>3. wire[i].topic \notin missed
      BY <1>12, <2>7, <3>1, <3>2
    <3>4. \A j \in (i + 1) .. n : j \in (i + 1) .. Len(wire') /\ wire'[j] = wire[j]
      BY <1>3, <2>3
    <3>5. Last(wire, i)
      BY <2>7, <3>1, <3>4 DEF Last, n
    <3> QED BY <1>6, <1>8, <3>1, <3>2, <3>3, <3>5 DEF BridgeInv, WireInv, n
  <2>8. WireInv'
    <3>1. \A i \in 1 .. n + 1 : i \in 1 .. n \/ i = n + 1
      BY <1>3
    <3> QED BY <2>1, <2>3, <2>5, <2>6, <2>7, <3>1 DEF WireInv
  <2>9. QuietInv'
    <3> SUFFICES ASSUME NEW u \in MqttTopics, u \notin missed', \A i \in 1 .. n + 1 : wire'[i].topic # u
        PROVE  published'[u] = value'[u]
      BY <1>10, <2>3 DEF QuietInv
    <3>1. n + 1 \in 1 .. n + 1 /\ \A i \in 1 .. n : i \in 1 .. n + 1
      BY <1>3
    <3>2. u # t /\ \A i \in 1 .. n : wire[i].topic # u
      BY <2>1, <2>3, <3>1
    <3>3. u \notin missed
      BY <1>12, <3>2
    <3> QED BY <1>2, <1>6, <3>2, <3>3 DEF BridgeInv, QuietInv, n
  <2> QED BY <1>2, <2>4, <2>8, <2>9 DEF BridgeInv
<1> QED BY <1>1, <1>11, <1>12

LEMMA StepBridge ==
  BridgeInv /\ [M!Next]_mVars => BridgeInv' /\ \A t \in MqttTopics : published'[t] >= published[t]
<1> SUFFICES ASSUME BridgeInv, [M!Next]_mVars
    PROVE  BridgeInv' /\ \A t \in MqttTopics : published'[t] >= published[t]
  OBVIOUS
<1>1. \A t \in MqttTopics : published[t] \in 0 .. MqttChanges
  BY DEF BridgeInv, BridgeTypes
<1>2. CASE M!OnSignal
  BY <1>2, SignalBridge
<1>3. CASE ~M!OnSignal
  <2>1. BridgeInv' /\ published' = published
    BY <1>3, ConnectionBridge, ChangesBridge DEF M!Next
  <2> QED BY <1>1, <2>1
<1> QED BY <1>2, <1>3

LEMMA BridgeHolds == BridgeInv => M!TypeOK /\ M!NewestPublished
<1> SUFFICES ASSUME BridgeInv PROVE M!TypeOK /\ M!NewestPublished
  OBVIOUS
<1>1. ASSUME NEW t \in MqttTopics, t \notin missed, t \notin M!InWire PROVE published[t] = value[t]
  BY <1>1, InWireFacts DEF BridgeInv, QuietInv
<1>2. M!TypeOK
  BY DEF BridgeInv, BridgeTypes, M!TypeOK
<1> QED BY <1>1, <1>2 DEF M!NewestPublished

LEMMA BridgeStep == [MCNext]_allVars => [M!Next]_mVars
  BY Zenon DEF MCNext, allVars

(* Whatever connections are lost between a change and its publication, a   *)
(* topic never goes back to an older value, and it is at the newest one    *)
(* when no signal of it is under way and its last change was not missed.   *)
THEOREM PublishedOrdered == MCSpec => PublishedInOrder
<1> DEFINE Forward == \A t \in MqttTopics : published'[t] >= published[t]
<1>1. MCInit => BridgeInv
  BY InitBridge DEF MCInit
<1>2. BridgeInv /\ [MCNext]_allVars => BridgeInv' /\ Forward
  BY BridgeStep, StepBridge
<1>3. BridgeInv => M!TypeOK /\ M!NewestPublished
  BY BridgeHolds
<1>4. BridgeInv /\ [MCNext]_allVars => [Forward]_(M!mbVars)
  BY <1>2
<1> HIDE DEF Forward
<1>5. MCSpec => [](M!TypeOK /\ M!NewestPublished)
  BY <1>1, <1>2, <1>3, PTL DEF MCSpec
<1>6. MCSpec => [][Forward]_(M!mbVars)
  BY <1>1, <1>2, <1>4, PTL DEF MCSpec
<1> QED BY <1>5, <1>6 DEF PublishedInOrder, M!NeverBack, Forward
=============================================================================
