------------------------------- MODULE Replica -------------------------------
(***************************************************************************)
(* What the file synchronisation of historyprovider3 promises to those who *)
(* read the cache (getLog of sitenode.cpp): a replica of the journals of   *)
(* some directories.  A directory is a row of files, each named with a     *)
(* time, of which only the newest one grows and only old ones go.  The     *)
(* replica may lag behind, in any file and by any amount, but it holds     *)
(* what the source holds, from the beginning of the file on, it never      *)
(* takes an entry back, and it takes no file before the older ones, as     *)
(* long as the source still has those and they are not too old, are whole. *)
(* FileSync implements it (Replicates).                                    *)
(***************************************************************************)
EXTENDS Integers, Sequences

CONSTANT Files   \* pairs of a directory and a time

VARIABLES
  held, source,   \* the files the source has, and the entries of each file
  present, copy,  \* the same of the replica
  limit           \* older files need not be fetched

vars == <<held, source, present, copy, limit>>

(* f is an older file of the directory of g.                               *)
OlderThan(f, g) == f[1] = g[1] /\ f[2] < g[2]
Newest(f) == ~\E g \in held : OlderThan(f, g)

(* t goes on where s ends.                                                 *)
Begins(s, t) == Len(s) <= Len(t) /\ \A i \in 1..Len(s) : t[i] = s[i]

Init ==
  /\ held = {} /\ present = {} /\ limit = 0
  /\ source = [f \in Files |-> <<>>] /\ copy = [f \in Files |-> <<>>]

Open(f) ==
  /\ \A g \in held : f[1] = g[1] => OlderThan(g, f)
  /\ held' = held \cup {f}
  /\ UNCHANGED <<source, present, copy, limit>>

Write(f) ==
  /\ f \in held /\ Newest(f)
  /\ Begins(source[f], source'[f]) /\ Len(source'[f]) = Len(source[f]) + 1
  /\ source' = [source EXCEPT ![f] = source'[f]]
  /\ UNCHANGED <<held, present, copy, limit>>

Drop(f) ==
  /\ ~Newest(f)
  /\ held' = held \ {f}
  /\ UNCHANGED <<source, present, copy, limit>>

Age ==
  /\ limit' > limit
  /\ UNCHANGED <<held, source, present, copy>>

(* One or more files are fetched, or parts of them.                        *)
Fetch ==
  /\ present \subseteq present'
  /\ \A f \in Files : Begins(copy[f], copy'[f]) /\ Begins(copy'[f], source[f])
  /\ \A g \in present', f \in held :
       limit <= f[2] /\ OlderThan(f, g) => f \in present' /\ Len(copy'[f]) = Len(source[f])
  /\ UNCHANGED <<held, source, limit>>

Next == (\E f \in Files : Open(f) \/ Write(f) \/ Drop(f)) \/ Age \/ Fetch

Spec == Init /\ [][Next]_vars
=============================================================================
