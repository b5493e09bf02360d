----------------------------- MODULE BrclabUsers ------------------------------
(***************************************************************************)
(* shvbrclabprovider: the users and their passwords, kept in a file and in *)
(* memory (brclabusersnode.cpp).  Every change truncates the file, writes  *)
(* all users and reads them back, and only then is the call answered.  The *)
(* file may not open, the disk may be full, a whole file may fail to be    *)
(* read back, and the process may die after each of these steps; a file    *)
(* that is not whole stops the next start.                                 *)
(***************************************************************************)
EXTENDS Integers, FiniteSets, Functions

CONSTANTS
  Users, Passwords,
  MaxBad   \* bound: failing writes and deaths

NoUsers == [u \in {} |-> u]

VARIABLES
  file,      \* the users in the file, if it is readable
  readable,  \* does the file hold a whole map?  "missing" before the first start
  up,        \* does the process run?
  values,    \* m_values
  acked,     \* the users as the answered calls leave them
  tried,     \* for each user what calls that got no answer of success may have left
  bad

buVars == <<file, readable, up, values, acked, tried, bad>>

(* The password of u among the users f, or none.                           *)
PasswordOf(f, u) == {f[v] : v \in DOMAIN f \cap {u}}

Init ==
  /\ file = NoUsers /\ readable = "missing" /\ up = FALSE /\ values = NoUsers
  /\ acked = NoUsers /\ tried = [u \in Users |-> {}] /\ bad = 0

(* loadValues in the constructor: a missing file is made, a broken one     *)
(* throws.                                                                 *)
Start ==
  /\ ~up /\ readable # "no" /\ up' = TRUE
  /\ file' = IF readable = "missing" THEN NoUsers ELSE file
  /\ readable' = "yes" /\ values' = file'
  /\ UNCHANGED <<acked, tried, bad>>

(* The first start fails while it makes the file, or after.                *)
FirstStartFails ==
  /\ ~up /\ readable = "missing" /\ bad < MaxBad /\ bad' = bad + 1
  /\ readable' \in {"no", "yes"}
  /\ UNCHANGED <<file, up, values, acked, tried>>

Die ==
  /\ up /\ up' = FALSE /\ bad < MaxBad /\ bad' = bad + 1
  /\ UNCHANGED <<file, readable, values, acked, tried>>

(* setUsersConfig of new, for a change of the user name that leaves the    *)
(* users as answered when the caller is told "true".  It fails before the  *)
(* file is truncated; or when the file is not whole; or when it is whole   *)
(* but is not read back, or the process dies before it answers.  The users *)
(* in memory are then kept.                                                *)
SetUsersConfig(new, answered, kept, name) ==
  \/ /\ file' = new /\ readable' = "yes" /\ values' = new /\ acked' = answered
     /\ tried' = [tried EXCEPT ![name] = {}]
     /\ UNCHANGED <<up, bad>>
  \/ /\ bad < MaxBad /\ bad' = bad + 1
     /\ values' = kept /\ acked' = acked
     /\ \/ UNCHANGED <<file, readable, up>>
        \/ file' = NoUsers /\ readable' = "no" /\ up' \in BOOLEAN
        \/ file' = new /\ readable' = "yes" /\ up' \in BOOLEAN
     /\ tried' = IF kept = values /\ file' # new THEN tried
                 ELSE [tried EXCEPT ![name] = @ \cup {PasswordOf(new, name)}]

Without(f, u) == Restrict(f, DOMAIN f \ {u})
With(f, u, p) == [v \in DOMAIN f \cup {u} |-> IF v = u THEN p ELSE f[v]]

AddUser(u, p) ==
  /\ up /\ u \notin DOMAIN values
  /\ SetUsersConfig(With(values, u, p), With(acked, u, p), values, u)

(* The user is gone from memory before the file is written.                *)
DelUser(u) ==
  /\ up /\ u \in DOMAIN values
  /\ SetUsersConfig(Without(values, u), Without(acked, u), Without(values, u), u)

(* Mutant: the new password is set in memory and not written.              *)
ChangedInMemory(u, p) ==
  /\ up /\ u \in DOMAIN values
  /\ values' = With(values, u, p) /\ acked' = With(acked, u, p)
  /\ UNCHANGED <<file, readable, up, tried, bad>>

ChangePassword(u, p) ==
  /\ up /\ u \in DOMAIN values
  /\ SetUsersConfig(With(values, u, p), With(acked, u, p), values, u)

Next ==
  \/ Start \/ FirstStartFails \/ Die
  \/ \E u \in Users : \/ DelUser(u)
                      \/ \E p \in Passwords : AddUser(u, p) \/ ChangePassword(u, p)

Spec == Init /\ [][Next]_buVars

-----------------------------------------------------------------------------
(* What getUserGrants grants, now and after a restart: for each user what  *)
(* the last change that was answered with success made of it, or what one  *)
(* after it that got no such answer would have, if the file is whole.      *)
Expected(u) == {PasswordOf(acked, u)} \cup tried[u]

GrantsAsAcked ==
  \A u \in Users : /\ up => PasswordOf(values, u) \in Expected(u)
                   /\ readable = "yes" => PasswordOf(file, u) \in Expected(u)

=============================================================================
