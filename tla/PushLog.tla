------------------------------ MODULE PushLog -------------------------------
(***************************************************************************)
(* The pushLog method of SiteNode (sitenode.cpp, historyprovider3): a      *)
(* device that cannot be asked for its log sends it piece by piece.  The   *)
(* handler writes what it does not have yet to a file named by the since   *)
(* of the piece's header.  What it has is judged by the newest entry of    *)
(* the file with the greatest name only.                                   *)
(*                                                                         *)
(* There is no dirty log beside the files: chng is not subscribed for a    *)
(* device with push log.                                                   *)
(***************************************************************************)
EXTENDS Integers, Sequences, FiniteSets, SequencesExt

CONSTANTS
  Log,      \* the device's log, a sequence of [at |-> time, path |-> path]
  MaxFaults \* bound: lost answers and deaths of the process

PushLogAssumption ==
  /\ Log \in Seq([at : Nat \ {0}, path : STRING])
  /\ \A i, j \in 1..Len(Log) : i < j => Log[i].at <= Log[j].at /\ Log[i] # Log[j]
  /\ MaxFaults \in Nat

Indices == 1..Len(Log)
Times == {Log[i].at : i \in Indices}
Entry == {Log[i] : i \in Indices}

VARIABLES
  names,  \* the files in the cache directory
  files,  \* their entries
  acked,  \* how much of the log the device knows to be stored
  sent,   \* how much it has sent
  faults

vars == <<names, files, acked, sent, faults>>

Init ==
  /\ names = {}
  /\ files = [t \in Times |-> <<>>]
  /\ acked = 0
  /\ sent = 0
  /\ faults = 0

-----------------------------------------------------------------------------
(* The file with the greatest name, and what the handler takes from it:    *)
(* the time of its last entry, and the paths of the entries of that time.  *)
NewestFile == CHOOSE t \in names : \A u \in names : u <= t

NewestTime ==
  IF names = {} \/ files[NewestFile] = <<>> THEN 0 ELSE Last(files[NewestFile]).at

NewestPaths ==
  IF NewestTime = 0 THEN {}
  ELSE {x.path : x \in {y \in ToSet(files[NewestFile]) : y.at = NewestTime}}

(* Mutant: entries of the newest millisecond are all taken for known.      *)
AcceptedStrictly(x) == x.at > NewestTime

(* Not older than what is there, and not there yet.                        *)
Accepted(x) == x.at > NewestTime \/ (x.at = NewestTime /\ x.path \notin NewestPaths)

(* The r-th smallest member of a set of numbers.                           *)
Nth(K, r) == CHOOSE k \in K : Cardinality({l \in K : l <= k}) = r

(* The entries of the piece i..j that are written, in their order.         *)
New(i, j) ==
  LET K == {k \in i..j : Accepted(Log[k])}
  IN [r \in 1..Cardinality(K) |-> Log[Nth(K, r)]]

(* The name of the file for a piece that begins with entry i: the since of *)
(* the header, which is the time of that entry.                            *)
FileOf(i) == Log[i].at

(* The writer creates the file; an empty one is removed in the end.        *)
Write(i, j) ==
  LET t == FileOf(i) IN
  /\ files' = [files EXCEPT ![t] = @ \o New(i, j)]
  /\ names' = IF files'[t] = <<>> THEN names \ {t} ELSE names \cup {t}

(* What the device may send: all after what was acknowledged, as far as it *)
(* was sent before at least.                                               *)
MaySend(i, j) ==
  /\ i \in Indices /\ j \in i..Len(Log)
  /\ i = acked + 1 /\ j >= sent

Sent(j) == sent' = IF j > sent THEN j ELSE sent

(* The call and its answer, the since and until of the header.             *)
Push(i, j) ==
  /\ MaySend(i, j)
  /\ Write(i, j)
  /\ Sent(j)
  /\ acked' = IF j > acked THEN j ELSE acked
  /\ UNCHANGED faults

(* The answer is lost: the device will send again.                         *)
PushUnanswered(i, j) ==
  /\ MaySend(i, j) /\ faults < MaxFaults
  /\ Write(i, j)
  /\ Sent(j)
  /\ faults' = faults + 1
  /\ UNCHANGED acked

(* The process dies when k of the new entries are written, perhaps none.   *)
DieWriting(i, j, k) ==
  /\ MaySend(i, j) /\ faults < MaxFaults
  /\ k \in 0..(Len(New(i, j)) - 1)
  /\ LET t == FileOf(i) IN
       /\ names' = names \cup {t}
       /\ files' = [files EXCEPT ![t] = @ \o SubSeq(New(i, j), 1, k)]
  /\ Sent(j)
  /\ faults' = faults + 1
  /\ UNCHANGED acked

Next ==
  \E i, j \in Indices :
    \/ Push(i, j)
    \/ PushUnanswered(i, j)
    \/ \E k \in 0..Len(Log) : DieWriting(i, j, k)

Spec == Init /\ [][Next]_vars

-----------------------------------------------------------------------------
TypeOK ==
  /\ names \subseteq Times
  /\ files \in [Times -> Seq(Entry)]
  /\ \A t \in Times \ names : files[t] = <<>>
  /\ acked \in 0..sent /\ sent \in 0..Len(Log)
  /\ faults \in 0..MaxFaults

Stored(t) == ToSet(files[t])

(* What the device was told is stored is stored: no entry is taken for a   *)
(* known one that is not.                                                  *)
AckedStored == \A i \in 1..acked : \E t \in names : Log[i] \in Stored(t)

(* No entry is stored twice, though answers are lost and pieces come again *)
(* after a death in the middle of one.  The tests "pushLog rejects older   *)
(* pushlogs" and "pushLog rejects pushlogs with same timestamp and same    *)
(* path" are about it.                                                     *)
NoDuplicates ==
  /\ \A t \in Times : IsInjective(files[t])
  /\ \A t, u \in Times : t # u => Stored(t) \cap Stored(u) = {}

(* Reading the files in the order of their names gives the entries in the  *)
(* order of their times, as getLog relies on.                              *)
Chronological ==
  /\ \A t \in Times : \A j \in 1..Len(files[t]), i \in 1..Len(files[t]) :
       i < j => files[t][i].at <= files[t][j].at
  /\ \A t, u \in Times : t < u =>
       \A x \in Stored(t), y \in Stored(u) : x.at <= y.at

=============================================================================
