------------------------------ MODULE Sanitizer ------------------------------
(***************************************************************************)
(* The limit of the cache of historyprovider3: ShvJournalNode::sanitizeSize*)
(* removes the oldest log files of all directories until the cache fits.   *)
(* Between its turns directories get new files by syncs and their dirty    *)
(* logs grow by signals and are trimmed.  Sizes are small numbers.         *)
(***************************************************************************)
EXTENDS Integers, FiniteSets, FiniteSetsExt

CONSTANTS
  Dirs,     \* the directories of the sites
  Limit,    \* totalCacheSizeLimit
  MaxTime,  \* bound: names of files are instants up to it
  MaxSize   \* bound: the size of a file

SanitizerAssumption ==
  /\ Dirs # {} /\ IsFiniteSet(Dirs)
  /\ Limit \in Nat /\ MaxTime \in Nat \ {0} /\ MaxSize \in Nat \ {0}

VARIABLES
  time,    \* the present
  files,   \* the log files of all directories
  dirty    \* the size of the dirty log of a directory

vars == <<time, files, dirty>>

File == [dir : Dirs, name : 1..MaxTime, size : 1..MaxSize]

Init == time = 1 /\ files = {} /\ dirty = [d \in Dirs |-> 0]

Tick == time < MaxTime /\ time' = time + 1 /\ UNCHANGED <<files, dirty>>

(* A sync brings a file that is newer than the others of its directory and *)
(* trims the dirty log.  Files of two directories may have one name.       *)
Synced(d, size) ==
  /\ \A f \in files : f.dir = d => f.name < time
  /\ files' = files \cup {[dir |-> d, name |-> time, size |-> size]}
  /\ dirty' = [dirty EXCEPT ![d] = 0]
  /\ UNCHANGED time

SignalLogged(d) ==
  /\ dirty[d] < MaxSize
  /\ dirty' = [dirty EXCEPT ![d] = @ + 1]
  /\ UNCHANGED <<time, files>>

-----------------------------------------------------------------------------
(* get_log_info: all counts for the size, the dirty logs are not files to  *)
(* be removed.                                                             *)
Size(fs) == MapThenSumSet(LAMBDA f : f.size, fs)

TotalSize == Size(files) + MapThenSumSet(LAMBDA d : dirty[d], Dirs)

(* Directories whose files are listed; one file is left where it is alone, *)
(* as the listing says: removed files stay in it.                          *)
Removable == {f \in files : \E g \in files \ {f} : g.dir = f.dir}

(* What is left without the files R is within the limit.                   *)
Enough(R) == TotalSize - Size(R) <= Limit

(* Mutant: the order is the other way round.                               *)
Newest(R) == \A f \in R, g \in Removable \ R : f.name >= g.name

(* R comes first in the order of the names.                                *)
Oldest(R) == \A f \in R, g \in Removable \ R : f.name <= g.name

(* The files are removed in the order of their names until the rest is     *)
(* within the limit: without the last of them it was not.                  *)
SanitizeSize ==
  /\ TotalSize > Limit
  /\ \E R \in SUBSET Removable :
       /\ Oldest(R)
       /\ Enough(R) \/ R = Removable
       /\ R # {} => \E f \in R : (\A g \in R : g.name <= f.name) /\ ~Enough(R \ {f})
       /\ files' = files \ R
  /\ UNCHANGED <<time, dirty>>

Next ==
  \/ Tick \/ SanitizeSize
  \/ \E d \in Dirs : SignalLogged(d) \/ \E size \in 1..MaxSize : Synced(d, size)

Spec == Init /\ [][Next]_vars

-----------------------------------------------------------------------------
TypeOK == time \in 1..MaxTime /\ files \subseteq File /\ dirty \in [Dirs -> 0..MaxSize]

(* What the sanitizer leaves of a directory is newer than all it has taken *)
(* from it, so that the log of a site loses its beginning but gets no hole *)
(* that the next sync, which asks for what is newer, would not see; and it *)
(* never takes the one file of a directory.                                *)
OldestRemoved ==
  [][\A f \in files \ files' :
       /\ \A g \in files' : g.dir = f.dir => f.name < g.name
       /\ \E g \in files : g.dir = f.dir /\ g # f]_vars

(* "Let's leave at least one file in each directory, so that we have a     *)
(* snapshot." (sanitizeSize): a directory that has a log file keeps one.   *)
SnapshotLeft ==
  [][\A d \in Dirs : (\E f \in files : f.dir = d) => \E f \in files' : f.dir = d]_vars

=============================================================================
