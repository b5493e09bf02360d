-------------------------- MODULE DownloadsProofs ---------------------------
(***************************************************************************)
(* The downloads of LegacySync in pieces leave the log whole, for any      *)
(* entries, times, limits, snapshots and faults.                           *)
(*                                                                         *)
(* What the cached files hold are all entries of the device from a time h, *)
(* not after the present horizon, to a time b, the millisecond after the   *)
(* last entry of the newest file; a running sync has got all of the time   *)
(* from b to the one it asks from next.  Batch by batch the latter moves   *)
(* on, and what is got becomes part of the newest file or the next one.    *)
(*                                                                         *)
(* The files CheckLog keeps are true to what was logged, and a trim of the *)
(* dirty log drops only what a file holds, for any times, chunks and       *)
(* faults: see the second half, from the invariant CInv on.                *)
(***************************************************************************)
EXTENDS MCDownloads, SequenceTheorems, FiniteSetTheorems,
        WellFoundedInduction, TLAPS

Evs(s) == {s[i].ev : i \in 1..Len(s)} \ {0}

Between(b, c) == {e \in Events : b <= Stamp[e] /\ Stamp[e] < c}

(* Entries follow each other in time, those of the device in their order.  *)
Ordered(s) ==
  \A j \in 1..Len(s) : \A i \in 1..(j - 1) :
    /\ s[i].at <= s[j].at
    /\ s[j].ev # 0 => s[i].ev < s[j].ev

Dated(s) == \A i \in 1..Len(s) : s[i].ev # 0 => s[i].at = Stamp[s[i].ev]

(* s holds all that was logged from b to c, perhaps after a snapshot of    *)
(* what was logged before.                                                 *)
Piece(s, b, c) ==
  /\ b <= c
  /\ Ordered(s) /\ Dated(s)
  /\ \A i \in 1..Len(s) : b <= s[i].at /\ s[i].at < c
  /\ Evs(s) = Between(b, c)
  /\ s # <<>> => \E e \in Events : Stamp[e] <= s[1].at

NoFiles(fs) == \A t \in Times : fs[t] = <<>>

IsNewest(fs, t) ==
  t \in Times /\ fs[t] # <<>> /\ \A u \in Times : fs[u] # <<>> => u <= t

(* The files fs hold all that was logged from h to b.                      *)
FileRight(fs, t) ==
  /\ Ordered(fs[t]) /\ Dated(fs[t])
  /\ fs[t] # <<>> => fs[t][1].at = t

FilesApart(fs, t, u) ==
  (t < u /\ fs[t] # <<>> /\ fs[u] # <<>>)
    => Last(fs[t]).at < u /\ (SnapSize > 0 => fs[u][1].ev = 0)

Base(fs, h, b) ==
  /\ h <= b
  /\ \A t \in Times : FileRight(fs, t)
  /\ \A t, u \in Times : FilesApart(fs, t, u)
  /\ UNION {Evs(fs[t]) : t \in Times} = Between(h, b)
  /\ NoFiles(fs) => b = h
  /\ \A t \in Times : fs[t] # <<>> => Last(fs[t]).at < b
  /\ \A t \in Times : IsNewest(fs, t) => b = Last(fs[t]).at + 1
  /\ ~NoFiles(fs) => (\E t \in Times : IsNewest(fs, t)) /\ \E e \in Events : Stamp[e] < b

(* Where what is got will be written: to the newest file, or to the next   *)
(* one, which begins with a snapshot.                                      *)
Named(fs, hint, got, snapshot) ==
  IF hint = NoName
  THEN \/ NoFiles(fs)
       \/ got = <<>> /\ snapshot
       \/ got # <<>> /\ (SnapSize > 0 => got[1].ev = 0)
  ELSE IsNewest(fs, hint)

Held(h, b) ==
  /\ Base(files, h, b)
  /\ sync.active =>
       /\ Piece(sync.got, b, sync.since)
       /\ Named(files, sync.hint, sync.got, sync.snapshot)

LInv ==
  /\ TypeOK
  /\ NoLoss
  /\ sync.snapshot => sync.since \in Times
  /\ \E h \in 0..horizon : \E b \in Starts : Held(h, b)

-----------------------------------------------------------------------------
(* Times are numbers, and a later time to ask from is one too.             *)
LEMMA TimesAreNumbers ==
  /\ Times \subseteq Nat /\ Starts \subseteq Nat
  /\ Times \subseteq Starts /\ 0 \in Times
  /\ \A e \in Events : Stamp[e] \in Times
  /\ \A t \in Times : t + 1 \in Starts
  /\ 0..MaxHorizon \subseteq Times
  /\ NoName \notin Times
BY ConstantsAssumption DEF ConstantsAssumption, Times, Starts, Events, NoName

(* The last entry of a sequence that has one.                              *)
LEMMA LastOf ==
  ASSUME NEW s \in Seq(Entry), s # <<>>
  PROVE  /\ Len(s) \in Nat \ {0} /\ Last(s) = s[Len(s)]
         /\ s[1] \in Entry /\ Last(s) \in Entry
         /\ s[1].at \in Times /\ Last(s).at \in Times
<1>1. Len(s) \in Nat \ {0} BY EmptySeq
<1>2. s[1] \in Entry /\ s[Len(s)] \in Entry BY <1>1, ElementOfSeq
<1> QED BY <1>1, <1>2 DEF Last, Entry

(* What an entry of a sequence is.                                         *)
LEMMA EntryAt ==
  ASSUME NEW s \in Seq(Entry), NEW i \in 1..Len(s)
  PROVE  s[i] \in Entry /\ s[i].at \in Times /\ s[i].at \in Nat /\ s[i].ev \in 0..MaxEvents
<1>1. s[i] \in Entry BY ElementOfSeq
<1> QED BY <1>1, TimesAreNumbers DEF Entry

(* Of entries in order none is later than the last one.                    *)
LEMMA LastIsLatest ==
  ASSUME NEW s \in Seq(Entry), Ordered(s), NEW i \in 1..Len(s)
  PROVE  s[i].at <= Last(s).at /\ s[1].at <= s[i].at
<1>1. s # <<>> /\ Len(s) \in Nat BY LenProperties
<1>2. Last(s) = s[Len(s)] /\ Len(s) \in Nat \ {0} BY <1>1, LastOf
<1>3. s[i] \in Entry /\ s[1] \in Entry BY <1>2, ElementOfSeq
<1>4. s[i].at \in Nat /\ s[1].at \in Nat BY <1>3, TimesAreNumbers DEF Entry
<1>5. i # Len(s) => s[i].at <= s[Len(s)].at BY <1>2 DEF Ordered
<1>6. i # 1 => s[1].at <= s[i].at BY <1>2 DEF Ordered
<1>7. s[i].at <= s[Len(s)].at BY <1>4, <1>5
<1>8. s[1].at <= s[i].at BY <1>4, <1>6
<1> QED BY <1>2, <1>7, <1>8

(* Two sequences, the second after the first in time, make one.            *)
LEMMA Joined ==
  ASSUME NEW s \in Seq(Entry), NEW t \in Seq(Entry),
         Ordered(s), Dated(s), Ordered(t), Dated(t),
         \A i \in 1..Len(s), j \in 1..Len(t) : s[i].at < t[j].at
  PROVE  /\ s \o t \in Seq(Entry)
         /\ Ordered(s \o t) /\ Dated(s \o t)
         /\ Evs(s \o t) = Evs(s) \cup Evs(t)
<1> DEFINE m == Len(s)  n == Len(t)  st == s \o t
<1>1. /\ m \in Nat /\ n \in Nat
      /\ st \in Seq(Entry) /\ Len(st) = m + n
      /\ \A i \in 1..(m + n) : st[i] = IF i <= m THEN s[i] ELSE t[i - m]
  BY ConcatProperties, LenProperties
<1>2. /\ \A i \in 1..m : s[i].at \in Nat /\ s[i].ev \in 0..MaxEvents
      /\ \A j \in 1..n : t[j].at \in Nat /\ t[j].ev \in 0..MaxEvents
  BY EntryAt
<1>3. \A i \in 1..m, j \in 1..n : s[i].at < t[j].at OBVIOUS
<1>4. MaxEvents \in Nat BY ConstantsAssumption DEF ConstantsAssumption
<1>5. Dated(st)
  <2> SUFFICES ASSUME NEW i \in 1..(m + n), st[i].ev # 0
               PROVE  st[i].at = Stamp[st[i].ev]
    BY <1>1 DEF Dated
  <2>1. CASE i <= m BY <2>1, <1>1 DEF Dated
  <2>2. CASE i > m
    <3>1. i - m \in 1..n /\ st[i] = t[i - m] BY <2>2, <1>1
    <3> QED BY <3>1 DEF Dated
  <2> QED BY <2>1, <2>2, <1>1
<1>6. Ordered(st)
  <2> SUFFICES ASSUME NEW j \in 1..(m + n), NEW i \in 1..(j - 1)
               PROVE  st[i].at <= st[j].at /\ (st[j].ev # 0 => st[i].ev < st[j].ev)
    BY <1>1 DEF Ordered
  <2>1. CASE j <= m
    <3>1. j \in 1..m /\ i <= m /\ st[i] = s[i] /\ st[j] = s[j] BY <2>1, <1>1
    <3> QED BY <3>1 DEF Ordered
  <2>2. CASE i > m
    <3>1. j - m \in 1..n /\ i - m \in 1..((j - m) - 1) /\ st[i] = t[i - m] /\ st[j] = t[j - m]
      BY <2>2, <1>1
    <3> QED BY <3>1 DEF Ordered
  <2>3. CASE i <= m /\ j > m
    <3> DEFINE d == s[i]  f == t[j - m]
    <3>1. i \in 1..m /\ j - m \in 1..n /\ st[i] = d /\ st[j] = f BY <2>3, <1>1
    <3>2. d.at < f.at /\ d.at \in Nat /\ f.at \in Nat /\ d.ev \in 0..MaxEvents /\ f.ev \in 0..MaxEvents
      BY <3>1, <1>2, <1>3
    <3>3. (d.ev # 0 => d.at = Stamp[d.ev]) /\ (f.ev # 0 => f.at = Stamp[f.ev])
      BY <3>1 DEF Dated
    <3> HIDE DEF d, f, m, n, st
    <3>4. f.ev # 0 => d.ev < f.ev
      <4>1. CASE d.ev = 0 BY <4>1, <3>2, <1>4
      <4>2. CASE d.ev # 0 /\ f.ev # 0
        <5>1. d.ev \in Events /\ f.ev \in Events BY <4>2, <3>2, <1>4 DEF Events
        <5>2. ~(Stamp[f.ev] <= Stamp[d.ev]) BY <4>2, <3>2, <3>3
        <5>3. ~(f.ev <= d.ev) BY <5>1, <5>2, ConstantsAssumption DEF ConstantsAssumption
        <5> QED BY <5>1, <5>3, <1>4 DEF Events
      <4> QED BY <4>1, <4>2
    <3> QED BY <3>1, <3>2, <3>4
  <2> QED BY <2>1, <2>2, <2>3, <1>1
<1>7. Evs(st) = Evs(s) \cup Evs(t)
  <2>1. \A i \in 1..m : i \in 1..(m + n) /\ st[i] = s[i] BY <1>1
  <2>2. \A j \in 1..n : m + j \in 1..(m + n) /\ st[m + j] = t[j]
    <3> TAKE j \in 1..n
    <3>1. m + j \in 1..(m + n) /\ ~(m + j <= m) /\ (m + j) - m = j BY <1>1
    <3> QED BY <3>1, <1>1
  <2>3. \A i \in 1..(m + n) :
          (i \in 1..m /\ st[i] = s[i]) \/ (i - m \in 1..n /\ st[i] = t[i - m])
    BY <1>1
  <2>4. Evs(st) \subseteq Evs(s) \cup Evs(t) BY <2>3, <1>1 DEF Evs
  <2>5. Evs(s) \cup Evs(t) \subseteq Evs(st)
    <3> HIDE DEF st
    <3>1. ASSUME NEW x \in Evs(s) PROVE x \in Evs(st)
      <4>1. PICK i \in 1..m : x = s[i].ev BY DEF Evs
      <4> QED BY <4>1, <2>1, <1>1 DEF Evs
    <3>2. ASSUME NEW x \in Evs(t) PROVE x \in Evs(st)
      <4>1. PICK j \in 1..n : x = t[j].ev BY DEF Evs
      <4> QED BY <4>1, <2>2, <1>1 DEF Evs
    <3> QED BY <3>1, <3>2
  <2> QED BY <2>4, <2>5
<1> QED BY <1>1, <1>5, <1>6, <1>7

-----------------------------------------------------------------------------
(* Batches.                                                                *)

(* s is a batch from time c: m entries of a snapshot, and what was logged  *)
(* after the k-th entry, the last one before c.                            *)
BatchFrom(s, c, k, m) ==
  /\ s \in Seq(Entry) /\ s # <<>>
  /\ c \in Starts /\ k \in 0..MaxEvents /\ m \in Nat
  /\ m # 0 => k # 0 /\ m = SnapSize /\ c \in Times
  /\ \A e \in Events : Stamp[e] < c <=> e <= k
  /\ \A i \in 1..Len(s) : i <= m => s[i] = [ev |-> 0, at |-> c]
  /\ \A i \in 1..Len(s) : i > m =>
       k + (i - m) \in Events /\ s[i] = [ev |-> k + (i - m), at |-> Stamp[k + (i - m)]]

(* A batch is in order.                                                    *)
LEMMA BatchInOrder ==
  ASSUME NEW s, NEW c, NEW k, NEW m, BatchFrom(s, c, k, m)
  PROVE  /\ Ordered(s) /\ Dated(s)
         /\ \A i \in 1..Len(s) : c <= s[i].at
         /\ \E e \in Events : Stamp[e] <= s[1].at
<1>1. s \in Seq(Entry) /\ Len(s) \in Nat \ {0} BY LastOf DEF BatchFrom
<1>2. c \in Nat /\ k \in Nat /\ m \in Nat /\ MaxEvents \in Nat /\ k <= MaxEvents
  BY TimesAreNumbers, ConstantsAssumption DEF BatchFrom, ConstantsAssumption
<1>3. \A i \in 1..Len(s) : i <= m => s[i].ev = 0 /\ s[i].at = c
  BY DEF BatchFrom
<1>4. \A i \in 1..Len(s) : i > m =>
        /\ k + (i - m) \in Events /\ s[i].ev = k + (i - m) /\ s[i].at = Stamp[k + (i - m)]
        /\ s[i].at \in Nat /\ c <= s[i].at
  <2> SUFFICES ASSUME NEW i \in 1..Len(s), i > m
      PROVE /\ k + (i - m) \in Events /\ s[i].ev = k + (i - m) /\ s[i].at = Stamp[k + (i - m)]
            /\ s[i].at \in Nat /\ c <= s[i].at
    OBVIOUS
  <2> DEFINE e == k + (i - m)
  <2>0. e > k BY <1>1, <1>2
  <2>4. e \in Events /\ s[i] = [ev |-> e, at |-> Stamp[e]] BY Zenon DEF BatchFrom
  <2>5. e \in Nat BY <2>4, <1>2 DEF Events
  <2> HIDE DEF e
  <2>1. e \in Events /\ s[i].ev = e /\ s[i].at = Stamp[e] /\ ~(e <= k)
    BY <2>0, <2>4, <2>5, <1>2
  <2>2. Stamp[e] \in Nat BY <2>1, ConstantsAssumption DEF ConstantsAssumption
  <2>3. ~(Stamp[e] < c) BY <2>1 DEF BatchFrom
  <2> QED BY <2>1, <2>2, <2>3, <1>2 DEF e
<1>5. Dated(s) BY <1>3, <1>4, <1>1, <1>2 DEF Dated
<1>6. \A i \in 1..Len(s) : c <= s[i].at BY <1>3, <1>4, <1>1, <1>2
<1>7. Ordered(s)
  <2> SUFFICES ASSUME NEW j \in 1..Len(s), NEW i \in 1..(j - 1)
               PROVE  s[i].at <= s[j].at /\ (s[j].ev # 0 => s[i].ev < s[j].ev)
    BY DEF Ordered
  <2>1. i \in 1..Len(s) /\ i < j BY <1>1
  <2>2. CASE j <= m BY <2>1, <2>2, <1>2, <1>3
  <2>3. CASE i <= m /\ j > m BY <2>1, <2>3, <1>2, <1>3, <1>4
  <2>4. CASE i > m
    <3> DEFINE d == k + (i - m)  e == k + (j - m)
    <3>1. d \in Events /\ e \in Events /\ d < e /\ d <= e BY <2>1, <2>4, <1>1, <1>2, <1>4
    <3>2. s[i].ev = d /\ s[j].ev = e /\ s[i].at = Stamp[d] /\ s[j].at = Stamp[e]
      BY <2>1, <2>4, <1>1, <1>2, <1>4
    <3> HIDE DEF d, e
    <3>3. Stamp[d] <= Stamp[e] BY <3>1, ConstantsAssumption DEF ConstantsAssumption
    <3> QED BY <3>1, <3>2, <3>3
  <2> QED BY <2>1, <2>2, <2>3, <2>4, <1>1, <1>2
<1>8. \E e \in Events : Stamp[e] <= s[1].at
  <2>1. CASE 1 <= m
    <3>1. k # 0 /\ s[1].at = c BY <2>1, <1>1, <1>2, <1>3 DEF BatchFrom
    <3>2. k \in Events BY <3>1, <1>2 DEF Events
    <3>3. Stamp[k] < c BY <3>2, <1>2 DEF BatchFrom
    <3>4. Stamp[k] \in Nat BY <3>2, ConstantsAssumption DEF ConstantsAssumption
    <3>5. Stamp[k] <= c BY <3>3, <3>4, <1>2
    <3> QED BY <3>1, <3>2, <3>5
  <2>2. CASE ~(1 <= m)
    <3>1. k + (1 - m) \in Events /\ s[1].at = Stamp[k + (1 - m)] /\ s[1].at \in Nat
      BY <2>2, <1>1, <1>2, <1>4
    <3>2. s[1].at <= s[1].at BY <3>1
    <3> QED BY <3>1, <3>2
  <2> QED BY <2>1, <2>2
<1> QED BY <1>5, <1>6, <1>7, <1>8

(* A set of numbers that holds a number has a smallest one.                *)
LEMMA HasLeast ==
  ASSUME NEW X \in SUBSET Nat, NEW x \in X
  PROVE  \E y \in X : \A z \in X : y <= z
<1>1. IsWellFoundedOn(OpToRel(<, Nat), Nat) BY NatLessThanWellFounded
<1>2. PICK y \in X : \A z \in X : ~(<<z, y>> \in OpToRel(<, Nat))
  BY <1>1, WFMin
<1>3. \A z \in X : ~(z < y) BY <1>2 DEF OpToRel
<1> QED BY <1>3

(* Where the last millisecond of a batch begins.                           *)
LEMMA LastMillisecond ==
  ASSUME NEW s \in Seq(Entry), s # <<>>
  PROVE  /\ LastBegins(s) \in 1..Len(s)
         /\ s[LastBegins(s)].at = Last(s).at
         /\ \A j \in 1..(LastBegins(s) - 1) : s[j].at # Last(s).at
<1> DEFINE X == {i \in 1..Len(s) : s[i].at = Last(s).at}
<1>1. Len(s) \in Nat \ {0} /\ Last(s) = s[Len(s)] BY LastOf
<1>2. Len(s) \in X /\ X \in SUBSET Nat BY <1>1
<1>3. PICK y \in X : \A z \in X : y <= z BY <1>2, HasLeast
<1>4. y \in 1..Len(s) /\ s[y].at = Last(s).at OBVIOUS
<1>5. \A j \in 1..(y - 1) : s[j].at # Last(s).at
  <2> SUFFICES ASSUME NEW j \in 1..(y - 1), s[j].at = Last(s).at PROVE FALSE
    OBVIOUS
  <2>1. j \in X /\ j < y BY <1>1, <1>4
  <2> QED BY <2>1, <1>3, <1>4
<1> HIDE DEF X
<1> QED BY <1>4, <1>5 DEF LastBegins

(* What is complete of a batch is a piece of the log.                      *)
LEMMA CompleteIsPiece ==
  ASSUME NEW s, NEW c, NEW k, NEW m, BatchFrom(s, c, k, m)
  PROVE  /\ Complete(s) \in Seq(Entry) /\ Last(s).at \in Times
         /\ Piece(Complete(s), c, Last(s).at)
         /\ Complete(s) # <<>> => Complete(s)[1] = s[1]
<1> DEFINE q == LastBegins(s) - 1  z == Last(s).at  r == Complete(s)
<1>1. s \in Seq(Entry) /\ s # <<>> /\ c \in Nat BY TimesAreNumbers DEF BatchFrom
<1>2. Len(s) \in Nat \ {0} /\ Last(s) = s[Len(s)] /\ z \in Times /\ z \in Nat
  BY <1>1, LastOf, TimesAreNumbers
<1>3. /\ LastBegins(s) \in 1..Len(s) /\ s[LastBegins(s)].at = z
      /\ \A j \in 1..q : s[j].at # z
  BY <1>1, LastMillisecond
<1>4. q \in 0..(Len(s) - 1) BY <1>2, <1>3
<1>5. /\ Ordered(s) /\ Dated(s)
      /\ \A i \in 1..Len(s) : c <= s[i].at
      /\ \E e \in Events : Stamp[e] <= s[1].at
  BY BatchInOrder
<1>6. r \in Seq(Entry) /\ Len(r) = q /\ \A i \in 1..q : r[i] = s[i]
  <2>1. r = SubSeq(s, 1, q) BY DEF Complete
  <2>2. 1 \in 1..Len(s) /\ q \in 0..Len(s) BY <1>2, <1>4
  <2> HIDE DEF q, r
  <2>3. \A i \in 1..q : s[i] \in Entry BY <2>2, <1>1, EntryAt
  <2>4. 1 \in Int /\ q \in Int /\ \A i \in 1..q : s[i] \in Entry BY <2>2, <2>3
  <2>5. /\ SubSeq(s, 1, q) \in Seq(Entry)
        /\ Len(SubSeq(s, 1, q)) = IF 1 <= q THEN q - 1 + 1 ELSE 0
        /\ \A i \in 1..(q - 1 + 1) : SubSeq(s, 1, q)[i] = s[1 + i - 1]
    BY <2>4, SubSeqProperties, <1>1
  <2>6. q - 1 + 1 = q /\ \A i \in 1..q : 1 + i - 1 = i BY <2>2
  <2> QED BY <2>1, <2>2, <2>5, <2>6
<1>7. \A i \in 1..Len(s) : s[i].at \in Nat /\ s[i].at <= z /\ s[i].ev \in 0..MaxEvents
  BY <1>1, <1>5, LastIsLatest, EntryAt
<1>8. \A i \in 1..q : i \in 1..Len(s) BY <1>2, <1>4
<1>9. Ordered(r) /\ Dated(r)
  <2> HIDE DEF q, r
  <2>1. Dated(r) BY <1>5, <1>6, <1>8 DEF Dated
  <2>2. \A j \in 1..q : \A i \in 1..(j - 1) : i \in 1..q BY <1>4
  <2>3. Ordered(r) BY <1>5, <1>6, <1>8, <2>2 DEF Ordered
  <2> QED BY <2>1, <2>3
<1>10. \A i \in 1..q : c <= r[i].at /\ r[i].at < z
  <2> SUFFICES ASSUME NEW i \in 1..q PROVE c <= s[i].at /\ s[i].at < z
    BY <1>6
  <2> HIDE DEF q, z
  <2>1. s[i].at # z /\ s[i].at <= z /\ s[i].at \in Nat /\ c <= s[i].at
    BY <1>3, <1>5, <1>7, <1>8
  <2> QED BY <2>1, <1>2
<1>11. c <= z BY <1>2, <1>5
<1>12. Evs(r) \subseteq Between(c, z)
  <2> SUFFICES ASSUME NEW x \in Evs(r) PROVE x \in Between(c, z)
    OBVIOUS
  <2> HIDE DEF q, r, z
  <2>1. PICK i \in 1..q : x = r[i].ev /\ x # 0 BY <1>6 DEF Evs
  <2>2. x = s[i].ev /\ s[i].ev # 0 /\ s[i].ev \in 0..MaxEvents BY <2>1, <1>6, <1>7, <1>8
  <2>3. x \in Events /\ s[i].at = Stamp[x]
    BY <2>2, <1>5, <1>8, ConstantsAssumption DEF ConstantsAssumption, Events, Dated
  <2>4. c <= s[i].at /\ s[i].at < z BY <1>6, <1>10
  <2> QED BY <2>3, <2>4 DEF Between
<1>13. Between(c, z) \subseteq Evs(r)
  <2> SUFFICES ASSUME NEW e \in Events, c <= Stamp[e], Stamp[e] < z PROVE e \in Evs(r)
    BY DEF Between
  <2> DEFINE n == Len(s)  i == m + (e - k)
  <2>1. /\ k \in Nat /\ m \in Nat /\ e \in Nat \ {0} /\ Stamp[e] \in Nat
        /\ MaxEvents \in Nat /\ Stamp \in [Events -> Nat]
    BY ConstantsAssumption DEF ConstantsAssumption, BatchFrom, Events
  <2>2. e > k
    <3>1. ~(Stamp[e] < c) BY <2>1, <1>1
    <3>2. ~(e <= k) BY <3>1 DEF BatchFrom
    <3> QED BY <3>2, <2>1
  <2>3. ~(n <= m)
    <3> SUFFICES ASSUME n <= m PROVE FALSE
      OBVIOUS
    <3>1. s[n] = [ev |-> 0, at |-> c] BY <1>2 DEF BatchFrom
    <3>2. z = c BY <3>1, <1>2
    <3> HIDE DEF z
    <3> QED BY <3>2, <2>1, <1>1
  <2> DEFINE d == k + (n - m)
  <2>4. d \in Events /\ s[n] = [ev |-> d, at |-> Stamp[d]]
    <3>1. n \in 1..Len(s) /\ n > m BY <2>1, <2>3, <1>2
    <3> QED BY <3>1, Zenon DEF BatchFrom
  <2>5. z = Stamp[d] BY <2>4, <1>2
  <2>6. d \in Nat BY <2>4 DEF Events
  <2>7. e < d
    <3> HIDE DEF d, z
    <3>1. ~(Stamp[d] <= Stamp[e]) BY <2>1, <2>4, <2>5
    <3>2. ~(d <= e) BY <3>1, <2>4, ConstantsAssumption DEF ConstantsAssumption
    <3> QED BY <3>2, <2>6, <2>1
  <2>8. n \in Nat BY <1>2
  <2>9. i \in 1..n /\ i > m /\ k + (i - m) = e
    <3> HIDE DEF n
    <3> QED BY <2>1, <2>2, <2>6, <2>7, <2>8
  <2>10. s[i] = [ev |-> e, at |-> Stamp[e]]
    <3>1. s[i] = [ev |-> k + (i - m), at |-> Stamp[k + (i - m)]]
      BY <2>9, Zenon DEF BatchFrom
    <3> QED BY <3>1, <2>9
  <2> DEFINE g == LastBegins(s)
  <2>11. i <= q
    <3> SUFFICES ASSUME ~(i <= q) PROVE FALSE
      OBVIOUS
    <3>1. g \in 1..n /\ s[g].at = z BY <1>3
    <3>2. s[i].at = Stamp[e] BY <2>10
    <3> HIDE DEF z, n, g, i
    <3>3. g <= i BY <3>1, <2>8, <2>9 DEF g
    <3>4. CASE g = i BY <3>1, <3>2, <3>4, <2>1, <1>2
    <3>5. CASE g # i
      <4>1. g \in 1..(i - 1) BY <3>1, <3>3, <3>5, <2>8, <2>9
      <4>2. s[g].at <= s[i].at BY <4>1, <2>9, <1>5 DEF Ordered, n
      <4> QED BY <4>2, <3>1, <3>2, <2>1, <1>2
    <3> QED BY <3>4, <3>5
  <2>12. i \in 1..q /\ r[i] = s[i]
    <3> HIDE DEF q, r, n, i
    <3>1. i \in 1..q BY <2>11, <2>9, <2>8, <1>4
    <3> QED BY <3>1, <1>6
  <2>13. r[i].ev = e /\ e # 0 BY <2>12, <2>10, <2>1
  <2> HIDE DEF q, r, i
  <2> QED BY <2>12, <2>13, <1>6 DEF Evs
<1>14. r # <<>> => r[1] = s[1]
  <2> HIDE DEF q, r
  <2> QED BY <1>4, <1>6, EmptySeq
<1>15. r # <<>> => \E e \in Events : Stamp[e] <= r[1].at BY <1>5, <1>14
<1> HIDE DEF q, z, r
<1>16. Piece(r, c, z) BY <1>6, <1>9, <1>10, <1>11, <1>12, <1>13, <1>15 DEF Piece
<1> QED BY <1>2, <1>6, <1>14, <1>16 DEF r, z

(* A full batch is not of a single millisecond.                            *)
LEMMA FullBatch ==
  ASSUME NEW s, NEW c, NEW k, NEW m, BatchFrom(s, c, k, m), Len(s) = Limit
  PROVE  Complete(s) # <<>>
<1> DEFINE n == Len(s)  g == LastBegins(s)
<1>1. s \in Seq(Entry) /\ s # <<>> BY DEF BatchFrom
<1>2. n \in Nat \ {0} /\ Last(s) = s[n] BY <1>1, LastOf
<1>3. /\ k \in Nat /\ m \in Nat /\ SnapSize \in Nat /\ MaxEvents \in Nat
      /\ k <= MaxEvents /\ Stamp \in [Events -> Nat]
  BY ConstantsAssumption DEF ConstantsAssumption, BatchFrom
<1>4. \A d \in Events : SnapSize + Cardinality({e \in Events : Stamp[e] = Stamp[d]}) < n
  BY ConstantsAssumption DEF ConstantsAssumption
<1>5. IsFiniteSet(Events)
  <2>1. IsFiniteSet(1..MaxEvents) BY <1>3, FS_Interval
  <2> QED BY <2>1 DEF Events
<1>6. \A d \in Events : Cardinality({e \in Events : Stamp[e] = Stamp[d]}) \in Nat
  <2> TAKE d \in Events
  <2> DEFINE X == {e \in Events : Stamp[e] = Stamp[d]}
  <2>1. X \subseteq Events OBVIOUS
  <2> HIDE DEF X
  <2>2. IsFiniteSet(X) BY <2>1, <1>5, FS_Subset
  <2> QED BY <2>2, FS_CardinalityType DEF X
<1>7. n > m
  <2> SUFFICES ASSUME ~(n > m) PROVE FALSE
    OBVIOUS
  <2>1. m # 0 BY <1>2, <1>3
  <2>2. k # 0 /\ m = SnapSize BY <2>1 DEF BatchFrom
  <2>3. k \in Events BY <2>2, <1>3 DEF Events
  <2> DEFINE w == Cardinality({e \in Events : Stamp[e] = Stamp[k]})
  <2>4. SnapSize + w < n /\ w \in Nat BY <2>3, <1>4, <1>6
  <2> HIDE DEF w, n
  <2> QED BY <2>2, <2>4, <1>2, <1>3
<1>8. ASSUME g = 1 PROVE FALSE
  <2> DEFINE d == k + (n - m)
  <2>1. d \in Events /\ s[n] = [ev |-> d, at |-> Stamp[d]]
    <3>1. n \in 1..Len(s) BY <1>2
    <3> QED BY <3>1, <1>7, Zenon DEF BatchFrom
  <2>2. d \in Nat /\ d <= MaxEvents BY <2>1, <1>3 DEF Events
  <2> DEFINE X == {e \in Events : Stamp[e] = Stamp[d]}
             Y == (k + 1)..d
  <2>3. s[1].at = Stamp[d] BY <1>1, <1>2, <1>8, <2>1, LastMillisecond
  <2>4. \A i \in 1..n : s[i].at = Stamp[d]
    <3>1. \A i \in 1..n : s[i].at <= Last(s).at /\ s[1].at <= s[i].at
      BY <1>1, BatchInOrder, LastIsLatest
    <3>2. \A i \in 1..n : s[i].at \in Nat BY <1>1, EntryAt
    <3>3. Last(s).at = Stamp[d] /\ Stamp[d] \in Nat BY <1>2, <1>3, <2>1
    <3> HIDE DEF d, n
    <3> QED BY <3>1, <3>2, <3>3, <2>3
  <2>5. Y \subseteq X
    <3> SUFFICES ASSUME NEW e \in Y PROVE e \in Events /\ Stamp[e] = Stamp[d]
      OBVIOUS
    <3> DEFINE i == m + (e - k)
    <3>1. e \in Events BY <2>2, <1>3 DEF Events
    <3>2. i \in 1..n /\ i > m /\ k + (i - m) = e
      <4> HIDE DEF n
      <4> QED BY <1>2, <1>3, <1>7
    <3>3. s[i] = [ev |-> k + (i - m), at |-> Stamp[k + (i - m)]]
      BY <3>2, Zenon DEF BatchFrom
    <3>4. s[i].at = Stamp[e] BY <3>2, <3>3
    <3> HIDE DEF i
    <3> QED BY <3>1, <3>2, <3>4, <2>4
  <2>6. Cardinality(Y) = n - m
    <3> HIDE DEF n
    <3>1. k + 1 \in Int /\ d \in Int BY <2>2, <1>3
    <3>2. Cardinality(Y) = IF k + 1 > d THEN 0 ELSE d - (k + 1) + 1
      BY <3>1, FS_Interval
    <3> QED BY <3>2, <1>2, <1>3, <1>7
  <2>7. Cardinality(Y) <= Cardinality(X)
    <3>1. X \subseteq Events OBVIOUS
    <3> HIDE DEF X, Y
    <3>2. IsFiniteSet(X) BY <3>1, <1>5, FS_Subset
    <3> QED BY <3>2, <2>5, FS_Subset
  <2>8. SnapSize + Cardinality(X) < n /\ Cardinality(X) \in Nat
    BY <2>1, <1>4, <1>6
  <2>9. m <= SnapSize BY <1>3 DEF BatchFrom
  <2> HIDE DEF X, Y, n, d
  <2> QED BY <2>6, <2>7, <2>8, <2>9, <1>2, <1>3
<1>9. g \in 1..n BY <1>1, LastMillisecond
<1>10. Complete(s) = SubSeq(s, 1, g - 1) BY DEF Complete
<1>11. \A i \in 1..(g - 1) : s[i] \in Entry
  <2> HIDE DEF g
  <2>1. \A i \in 1..(g - 1) : i \in 1..n BY <1>2, <1>9
  <2> QED BY <2>1, <1>1, EntryAt
<1> HIDE DEF g, n
<1>12. g - 1 \in Int /\ 1 <= g - 1 /\ 1 \in Int BY <1>2, <1>8, <1>9
<1>13. Len(SubSeq(s, 1, g - 1)) = IF 1 <= g - 1 THEN g - 1 - 1 + 1 ELSE 0
  BY <1>11, <1>12, SubSeqProperties
<1>14. Len(SubSeq(s, 1, g - 1)) # 0 BY <1>12, <1>13
<1> QED BY <1>10, <1>14, EmptySeq

(* The entries before a time are the first ones.                           *)
LEMMA OlderOnes ==
  ASSUME NEW c \in Nat
  PROVE  \E k \in 0..MaxEvents :
           /\ \A e \in Events : Stamp[e] < c <=> e <= k
           /\ Cardinality({e \in Events : Stamp[e] < c}) = k
<1> DEFINE X == {e \in Events : Stamp[e] < c}
           Z == {k \in Nat : \A e \in X : e <= k}
<1>1. MaxEvents \in Nat /\ Stamp \in [Events -> Nat]
      /\ \A d, e \in Events : d <= e => Stamp[d] <= Stamp[e]
  BY ConstantsAssumption DEF ConstantsAssumption
<1>2. MaxEvents \in Z BY <1>1 DEF Events
<1>3. PICK k \in Z : \A j \in Z : k <= j
  <2>1. Z \in SUBSET Nat OBVIOUS
  <2> HIDE DEF Z
  <2> QED BY <2>1, <1>2, HasLeast
<1>4. k \in Nat /\ k <= MaxEvents /\ \A e \in X : e <= k BY <1>2, <1>3
<1>5. k # 0 => k \in X
  <2> SUFFICES ASSUME k # 0, k \notin X PROVE FALSE
    OBVIOUS
  <2>1. \A e \in X : e <= k - 1 BY <1>4 DEF Events
  <2>2. k - 1 \in Nat BY <1>4
  <2>3. k - 1 \in Z BY <2>1, <2>2
  <2>4. k <= k - 1 BY <2>3, <1>3
  <2> QED BY <2>4, <1>4
<1>6. ASSUME NEW e \in Events PROVE Stamp[e] < c <=> e <= k
  <2>1. Stamp[e] < c => e <= k BY <1>4
  <2>2. e <= k => Stamp[e] < c
    <3> SUFFICES ASSUME e <= k PROVE Stamp[e] < c
      OBVIOUS
    <3>1. k \in Events /\ Stamp[k] < c BY <1>4, <1>5 DEF Events
    <3>2. Stamp[e] <= Stamp[k] /\ Stamp[e] \in Nat /\ Stamp[k] \in Nat BY <3>1, <1>1
    <3> QED BY <3>1, <3>2
  <2> QED BY <2>1, <2>2
<1>7. X = 1..k BY <1>1, <1>4, <1>6 DEF Events
<1>8. Cardinality(1..k) = k
  <2>1. Cardinality(1..k) = IF 1 > k THEN 0 ELSE k - 1 + 1 BY <1>4, FS_Interval
  <2> QED BY <2>1, <1>4
<1>9. k \in 0..MaxEvents BY <1>1, <1>4
<1> QED BY <1>6, <1>7, <1>8, <1>9

(* What getLog answers is a batch from the time asked for, with a snapshot *)
(* when one is asked for and there is something before.                    *)
LEMMA BatchShape ==
  ASSUME TypeOK, sync.snapshot => sync.since \in Times,
         NEW n \in 0..MaxEvents, Batch(n) # <<>>
  PROVE  /\ \E k, m : BatchFrom(Batch(n), sync.since, k, m)
         /\ (sync.snapshot /\ SnapSize > 0 /\ \E e \in Events : Stamp[e] < sync.since)
              => Batch(n)[1].ev = 0
<1> DEFINE c == sync.since
<1>1. c \in Starts /\ c \in Nat BY TimesAreNumbers DEF TypeOK, Syncer
<1>2. PICK k \in 0..MaxEvents :
        /\ \A e \in Events : Stamp[e] < c <=> e <= k
        /\ Cardinality({e \in Events : Stamp[e] < c}) = k
  BY <1>1, OlderOnes
<1> DEFINE first == k + 1
           m == IF sync.snapshot /\ first > 1 THEN SnapSize ELSE 0
           snap == IF sync.snapshot /\ first > 1
                   THEN [i \in 1..SnapSize |-> [ev |-> 0, at |-> c]] ELSE <<>>
           log == [i \in 1..n |-> [ev |-> i, at |-> Stamp[i]]]
           rest == SubSeq(log, first, n)
           all == snap \o rest
           s == Batch(n)
<1>3. Remote(n) = all BY <1>2 DEF Remote
<1>4. /\ SnapSize \in Nat /\ MaxEvents \in Nat /\ Limit \in Nat \ {0}
      /\ Stamp \in [Events -> Nat] /\ k \in Nat /\ n \in Nat /\ m \in Nat
      /\ n <= MaxEvents
  BY ConstantsAssumption DEF ConstantsAssumption
<1>5. snap \in Seq(Entry) /\ Len(snap) = m /\ \A i \in 1..m : snap[i] = [ev |-> 0, at |-> c]
  <2>1. CASE sync.snapshot /\ first > 1
    <3>1. [ev |-> 0, at |-> c] \in Entry BY <2>1, <1>4 DEF Entry
    <3>2. snap = [i \in 1..SnapSize |-> [ev |-> 0, at |-> c]] /\ m = SnapSize BY <2>1
    <3> HIDE DEF snap, m
    <3>3. snap \in [1..SnapSize -> Entry] BY <3>1, <3>2
    <3>4. snap \in Seq(Entry) BY <3>3, <1>4, SeqDef
    <3>5. Len(snap) = SnapSize BY <3>3, <3>4, <1>4, LenProperties
    <3> QED BY <3>2, <3>4, <3>5
  <2>2. CASE ~(sync.snapshot /\ first > 1)
    <3>1. snap = <<>> /\ m = 0 BY <2>2
    <3> HIDE DEF snap, m
    <3> QED BY <3>1, EmptySeq
  <2> QED BY <2>1, <2>2
<1>6. log \in Seq(Entry) /\ Len(log) = n /\ \A i \in 1..n : log[i] = [ev |-> i, at |-> Stamp[i]]
  <2>1. \A i \in 1..n : [ev |-> i, at |-> Stamp[i]] \in Entry
    BY <1>4, TimesAreNumbers DEF Entry, Events
  <2>2. log \in [1..n -> Entry] BY <2>1
  <2>3. log \in Seq(Entry) BY <2>2, <1>4, SeqDef
  <2> HIDE DEF log
  <2>4. Len(log) = n BY <2>2, <2>3, <1>4, LenProperties
  <2> QED BY <2>3, <2>4 DEF log
<1>7. /\ rest \in Seq(Entry) /\ Len(rest) \in Nat /\ k + Len(rest) <= MaxEvents
      /\ \A i \in 1..Len(rest) : rest[i] = [ev |-> k + i, at |-> Stamp[k + i]]
  <2>1. \A i \in first..n : i \in 1..n BY <1>4
  <2> HIDE DEF log
  <2>2. \A i \in first..n : log[i] \in Entry BY <2>1, <1>6, ElementOfSeq
  <2>3. first \in Int /\ n \in Int BY <1>4
  <2> HIDE DEF first
  <2>4. /\ rest \in Seq(Entry)
        /\ Len(rest) = IF first <= n THEN n - first + 1 ELSE 0
        /\ \A i \in 1..(n - first + 1) : rest[i] = log[first + i - 1]
    BY <2>2, <2>3, SubSeqProperties
  <2> HIDE DEF rest
  <2>5. Len(rest) \in Nat /\ k + Len(rest) <= MaxEvents BY <2>4, <1>4 DEF first
  <2>6. ASSUME NEW i \in 1..Len(rest) PROVE rest[i] = [ev |-> k + i, at |-> Stamp[k + i]]
    <3>1. i \in 1..(n - first + 1) /\ first + i - 1 = k + i /\ k + i \in 1..n
      BY <2>4, <1>4 DEF first
    <3>2. rest[i] = log[k + i] BY <3>1, <2>4
    <3>3. log[k + i] = [ev |-> k + i, at |-> Stamp[k + i]] BY <3>1, <1>6
    <3> QED BY <3>2, <3>3
  <2> QED BY <2>4, <2>5, <2>6
<1> HIDE DEF snap, rest
<1>8. /\ all \in Seq(Entry) /\ Len(all) = m + Len(rest)
      /\ \A i \in 1..(m + Len(rest)) : all[i] = IF i <= m THEN snap[i] ELSE rest[i - m]
  <2>1. /\ all \in Seq(Entry) /\ Len(all) = Len(snap) + Len(rest)
        /\ \A i \in 1..(Len(snap) + Len(rest)) :
             all[i] = IF i <= Len(snap) THEN snap[i] ELSE rest[i - Len(snap)]
    BY <1>5, <1>7, ConcatProperties
  <2> HIDE DEF m, all
  <2> QED BY <2>1, <1>5
<1> HIDE DEF all
<1> DEFINE l == IF Len(all) < Limit THEN Len(all) ELSE Limit
<1>9. s = SubSeq(all, 1, l) BY <1>3 DEF Batch
<1> HIDE DEF m, s
<1>10. l \in Nat /\ l <= Len(all) /\ l <= Limit /\ l <= m + Len(rest) BY <1>4, <1>7, <1>8
<1>11. s \in Seq(Entry) /\ Len(s) = l /\ \A i \in 1..l : s[i] = all[i]
  <2> HIDE DEF l
  <2>1. \A i \in 1..l : i \in 1..Len(all) BY <1>8, <1>10, <1>4, <1>7
  <2>2. \A i \in 1..l : all[i] \in Entry BY <2>1, <1>8, EntryAt
  <2>3. 1 \in Int /\ l \in Int BY <1>10
  <2>4. /\ SubSeq(all, 1, l) \in Seq(Entry)
        /\ Len(SubSeq(all, 1, l)) = IF 1 <= l THEN l - 1 + 1 ELSE 0
        /\ \A i \in 1..(l - 1 + 1) : SubSeq(all, 1, l)[i] = all[1 + i - 1]
    BY <2>2, <2>3, SubSeqProperties
  <2>5. l - 1 + 1 = l /\ \A i \in 1..l : 1 + i - 1 = i BY <1>10
  <2> QED BY <2>4, <2>5, <1>9, <1>10
<1> HIDE DEF l
<1>12. s # <<>> BY DEF s
<1>13. l # 0 BY <1>11, <1>12, EmptySeq
<1>14. \A i \in 1..l : i <= m => s[i] = [ev |-> 0, at |-> c]
  <2> SUFFICES ASSUME NEW i \in 1..l, i <= m PROVE s[i] = [ev |-> 0, at |-> c]
    OBVIOUS
  <2>1. i \in 1..m /\ i \in 1..(m + Len(rest)) BY <1>4, <1>7, <1>10
  <2> QED BY <2>1, <1>5, <1>8, <1>11
<1>15. \A i \in 1..l : i > m =>
         k + (i - m) \in Events /\ s[i] = [ev |-> k + (i - m), at |-> Stamp[k + (i - m)]]
  <2> SUFFICES ASSUME NEW i \in 1..l, i > m
      PROVE k + (i - m) \in Events /\ s[i] = [ev |-> k + (i - m), at |-> Stamp[k + (i - m)]]
    OBVIOUS
  <2>1. i - m \in 1..Len(rest) /\ i \in 1..(m + Len(rest)) /\ ~(i <= m)
    BY <1>4, <1>7, <1>10
  <2>2. k + (i - m) \in Events BY <2>1, <1>4, <1>7 DEF Events
  <2>3. s[i] = rest[i - m] BY <2>1, <1>8, <1>11
  <2> QED BY <2>1, <2>2, <2>3, <1>7
<1>16. m # 0 => k # 0 /\ m = SnapSize /\ c \in Times BY <1>4 DEF m
<1> HIDE DEF first, log
<1>17. BatchFrom(s, c, k, m)
  <2> HIDE DEF c
  <2> QED BY <1>1, <1>2, <1>4, <1>11, <1>12, <1>14, <1>15, <1>16 DEF BatchFrom
<1>18. ASSUME sync.snapshot, SnapSize > 0, NEW e \in Events, Stamp[e] < c
       PROVE  s[1].ev = 0
  <2>1. e <= k BY <1>18, <1>2
  <2>2. k # 0 BY <2>1, <1>4 DEF Events
  <2>3. m = SnapSize BY <2>2, <1>18, <1>4 DEF m, first
  <2>4. 1 \in 1..l /\ 1 <= m BY <2>3, <1>4, <1>10, <1>13, <1>18
  <2> QED BY <2>4, <1>14
<1> QED BY <1>17, <1>18 DEF s

-----------------------------------------------------------------------------
(* Files.                                                                  *)

(* A piece got up to c, and the name of the file it is written to.         *)
Written(fs, h, b, c, got, hint, snapshot, name) ==
  /\ fs \in [Times -> Seq(Entry)] /\ h \in Nat /\ b \in Nat /\ c \in Nat
  /\ got \in Seq(Entry) /\ got # <<>>
  /\ Base(fs, h, b) /\ Piece(got, b, c) /\ Named(fs, hint, got, snapshot)
  /\ name = IF hint # NoName THEN hint ELSE Head(got).at

Added(fs, name, got) == [fs EXCEPT ![name] = @ \o got]

(* Where a piece is written: after all that is cached.                     *)
LEMMA PlaceOfPiece ==
  ASSUME NEW fs, NEW h, NEW b, NEW c, NEW got, NEW hint, NEW snapshot, NEW name,
         Written(fs, h, b, c, got, hint, snapshot, name)
  PROVE  /\ name \in Times
         /\ \A u \in Times : fs[u] # <<>> => u <= name
         /\ \A u \in Times : fs[u] # <<>> /\ u # name => Last(fs[u]).at < name
         /\ fs[name] = <<>> => got[1].at = name
         /\ \A u \in Times : u < name /\ fs[u] # <<>> /\ SnapSize > 0 =>
              IF fs[name] = <<>> THEN got[1].ev = 0 ELSE fs[name][1].ev = 0
<1> fs \in [Times -> Seq(Entry)] /\ h \in Nat /\ b \in Nat /\ c \in Nat
  BY DEF Written
<1> got \in Seq(Entry) /\ got # <<>> BY DEF Written
<1> Base(fs, h, b) /\ Piece(got, b, c) /\ Named(fs, hint, got, snapshot) BY DEF Written
<1> name = IF hint # NoName THEN hint ELSE Head(got).at BY DEF Written
<1>1. Len(got) \in Nat \ {0} /\ got[1].at \in Times /\ Head(got) = got[1]
  BY LastOf
<1>2. b <= got[1].at BY <1>1 DEF Piece
<1>3. Times \subseteq Nat BY TimesAreNumbers
<1>4. CASE hint # NoName
  <2>1. name = hint /\ IsNewest(fs, name) BY <1>4 DEF Named
  <2>2. /\ name \in Times /\ fs[name] # <<>>
        /\ \A u \in Times : fs[u] # <<>> => u <= name
    BY <2>1 DEF IsNewest
  <2>3. \A u \in Times : fs[u] # <<>> /\ u # name => u < name BY <2>2, <1>3
  <2>4. \A u \in Times : FilesApart(fs, u, name) BY <2>2 DEF Base
  <2> QED BY <2>2, <2>3, <2>4, Zenon DEF FilesApart
<1>5. CASE hint = NoName
  <2>1. name = got[1].at BY <1>1, <1>5
  <2>2. \A u \in Times : fs[u] # <<>> => Last(fs[u]).at < name /\ u < name
    <3> SUFFICES ASSUME NEW u \in Times, fs[u] # <<>>
                 PROVE  Last(fs[u]).at < name /\ u < name
      OBVIOUS
    <3> DEFINE f == fs[u]
    <3>1. f \in Seq(Entry) /\ f # <<>> OBVIOUS
    <3>2. Ordered(f) /\ f[1].at = u /\ Last(f).at < b BY DEF Base, FileRight
    <3> HIDE DEF f
    <3>3. Len(f) \in Nat \ {0} /\ Last(f).at \in Times BY <3>1, LastOf
    <3>4. f[1].at <= Last(f).at BY <3>1, <3>2, <3>3, LastIsLatest
    <3>6. Last(f).at \in Nat /\ u \in Nat /\ got[1].at \in Nat BY <3>3, <1>1, <1>3
    <3>5. Last(f).at < name /\ u < name
      BY <2>1, <3>2, <3>4, <3>6, <1>2
    <3> QED BY <3>5 DEF f
  <2>3. fs[name] = <<>>
    <3>1. name \in Nat /\ name \in Times BY <2>1, <1>1, <1>3
    <3>2. ~(name < name) BY <3>1
    <3> QED BY <3>1, <3>2, <2>2
  <2>4. \A u \in Times : fs[u] # <<>> /\ SnapSize > 0 => got[1].ev = 0
    BY <1>5 DEF Named, NoFiles
  <2>5. name \in Times BY <2>1, <1>1
  <2>6. \A u \in Times : fs[u] # <<>> => u <= name BY <2>2, <2>5, <1>3
  <2> QED BY <2>1, <2>2, <2>3, <2>4, <2>5, <2>6, Zenon
<1> QED BY <1>4, <1>5

(* Once a piece is written, the files hold the log up to its end.          *)
LEMMA StoredPiece ==
  ASSUME NEW fs, NEW h, NEW b, NEW c, NEW got, NEW hint, NEW snapshot, NEW name, NEW gs,
         Written(fs, h, b, c, got, hint, snapshot, name),
         gs = Added(fs, name, got)
  PROVE  /\ gs \in [Times -> Seq(Entry)]
         /\ IsNewest(gs, name) /\ Last(gs[name]).at = Last(got).at
         /\ Base(gs, h, Last(got).at + 1)
         /\ Piece(<<>>, Last(got).at + 1, c)
<1> fs \in [Times -> Seq(Entry)] /\ h \in Nat /\ b \in Nat /\ c \in Nat
  BY DEF Written
<1> got \in Seq(Entry) /\ got # <<>> BY DEF Written
<1> Base(fs, h, b) /\ Piece(got, b, c) /\ Named(fs, hint, got, snapshot) BY DEF Written
<1> DEFINE z == Last(got).at  f == fs[name]  g == f \o got
<1>1. /\ name \in Times
      /\ \A u \in Times : fs[u] # <<>> => u <= name
      /\ \A u \in Times : fs[u] # <<>> /\ u # name => Last(fs[u]).at < name
      /\ f = <<>> => got[1].at = name
      /\ \A u \in Times : u < name /\ fs[u] # <<>> /\ SnapSize > 0 =>
           IF f = <<>> THEN got[1].ev = 0 ELSE f[1].ev = 0
  BY PlaceOfPiece
<1>2. Times \subseteq Nat BY TimesAreNumbers
<1>3. /\ Len(got) \in Nat \ {0} /\ got[1].at \in Times /\ z \in Times
      /\ Last(got) = got[Len(got)]
  BY LastOf
<1>4. Ordered(got) /\ Dated(got) /\ (\A i \in 1..Len(got) : b <= got[i].at /\ got[i].at < c)
  BY DEF Piece
<1>5. got[1].at <= z BY <1>3, <1>4, LastIsLatest
<1>6. b <= got[1].at /\ z < c /\ z + 1 <= c
  <2>1. 1 \in 1..Len(got) /\ Len(got) \in 1..Len(got) BY <1>3
  <2>2. b <= got[1].at /\ z < c BY <2>1, <1>3, <1>4
  <2>3. z \in Nat BY <1>2, <1>3
  <2> HIDE DEF z
  <2> QED BY <2>2, <2>3
<1>7. f \in Seq(Entry) /\ FileRight(fs, name) BY <1>1 DEF Base
<1>8. Ordered(f) /\ Dated(f) /\ (f # <<>> => f[1].at = name /\ Last(f).at < b)
  BY <1>1, <1>7 DEF FileRight, Base
<1>9. ASSUME NEW i \in 1..Len(f), NEW j \in 1..Len(got) PROVE f[i].at < got[j].at
  <2> HIDE DEF f
  <2>1. f # <<>> BY <1>7, LenProperties
  <2>2. f[i].at <= Last(f).at /\ f[i].at \in Nat BY <1>7, <1>8, LastIsLatest, EntryAt
  <2>3. Last(f).at < b /\ Last(f).at \in Nat BY <1>2, <1>7, <1>8, <2>1, LastOf
  <2>4. b <= got[j].at /\ got[j].at \in Nat BY <1>4, EntryAt
  <2> QED BY <2>2, <2>3, <2>4
<1>10. g \in Seq(Entry) /\ Ordered(g) /\ Dated(g) /\ Evs(g) = Evs(f) \cup Evs(got)
  <2> HIDE DEF f
  <2> QED BY <1>4, <1>7, <1>8, <1>9, Joined
<1>11. /\ g # <<>> /\ Last(g) = Last(got)
       /\ g[1] = IF f = <<>> THEN got[1] ELSE f[1]
  <2> HIDE DEF f
  <2> DEFINE m == Len(f)  n == Len(got)
  <2>1. m \in Nat /\ n \in Nat \ {0} /\ (m = 0 <=> f = <<>>)
    BY <1>3, <1>7, EmptySeq, LenProperties
  <2>2. Len(g) = m + n /\ \A i \in 1..(m + n) : g[i] = IF i <= m THEN f[i] ELSE got[i - m]
    BY <1>7, ConcatProperties
  <2> HIDE DEF g, m, n
  <2>3. Len(g) \in Nat \ {0} BY <2>1, <2>2
  <2>4. g # <<>> BY <2>3, EmptySeq
  <2>5. Last(g) = g[m + n] BY <1>10, <2>2, <2>4, LastOf
  <2>6. g[m + n] = got[n] /\ g[1] = IF m = 0 THEN got[1] ELSE f[1]
    <3>1. m + n \in 1..(m + n) /\ 1 \in 1..(m + n) /\ ~(m + n <= m) /\ (m + n) - m = n
      BY <2>1
    <3>2. g[m + n] = got[n] BY <3>1, <2>2
    <3>3. m = 0 => g[1] = got[1] BY <3>1, <2>1, <2>2
    <3>4. m # 0 => g[1] = f[1] BY <3>1, <2>1, <2>2
    <3> QED BY <3>2, <3>3, <3>4
  <2> QED BY <2>1, <2>4, <2>5, <2>6, <1>3 DEF n
<1>12. /\ gs \in [Times -> Seq(Entry)] /\ gs[name] = g
       /\ \A u \in Times : u # name => gs[u] = fs[u]
  <2> HIDE DEF g
  <2>1. gs = [fs EXCEPT ![name] = g] BY DEF g, Added
  <2> QED BY <2>1, <1>1, <1>10
<1> HIDE DEF g
<1>13. IsNewest(gs, name)
  <2> SUFFICES ASSUME NEW u \in Times, gs[u] # <<>> PROVE u <= name
    BY <1>1, <1>11, <1>12 DEF IsNewest
  <2>1. CASE u = name BY <2>1, <1>1, <1>2
  <2>2. CASE u # name BY <2>2, <1>1, <1>12
  <2> QED BY <2>1, <2>2
<1>14. ASSUME NEW t \in Times PROVE FileRight(gs, t)
  <2>1. CASE t = name
    <3>1. g[1].at = name BY <1>8, <1>11, <1>1
    <3> QED BY <2>1, <3>1, <1>10, <1>12 DEF FileRight
  <2>2. CASE t # name
    <3>1. FileRight(fs, t) BY DEF Base
    <3> QED BY <2>2, <3>1, <1>12 DEF FileRight
  <2> QED BY <2>1, <2>2
<1>15. ASSUME NEW t \in Times, NEW u \in Times PROVE FilesApart(gs, t, u)
  <2> SUFFICES ASSUME t < u, gs[t] # <<>>, gs[u] # <<>>
               PROVE  Last(gs[t]).at < u /\ (SnapSize > 0 => gs[u][1].ev = 0)
    BY DEF FilesApart
  <2>1. u <= name BY <1>13 DEF IsNewest
  <2>2. t # name BY <2>1, <1>1, <1>2
  <2>3. gs[t] = fs[t] /\ fs[t] # <<>> BY <2>2, <1>12
  <2>4. CASE u = name
    <3>1. Last(fs[t]).at < name BY <2>2, <2>3, <1>1
    <3>2. SnapSize > 0 => g[1].ev = 0 BY <2>3, <2>4, <1>1, <1>11
    <3> QED BY <2>3, <2>4, <3>1, <3>2, <1>12
  <2>5. CASE u # name
    <3>1. FilesApart(fs, t, u) BY DEF Base
    <3>2. gs[u] = fs[u] BY <2>5, <1>12
    <3> QED BY <2>3, <3>1, <3>2 DEF FilesApart
  <2> QED BY <2>4, <2>5
<1>23. ASSUME NEW e \in Between(b, c) PROVE Stamp[e] <= z
  <2>1. PICK i \in 1..Len(got) : got[i].ev = e /\ e # 0 BY DEF Evs, Piece
  <2>2. got[i].at = Stamp[e] BY <2>1, <1>4 DEF Dated
  <2>3. got[i].at <= z BY <1>4, LastIsLatest
  <2> QED BY <2>2, <2>3
<1>24. Piece(<<>>, z + 1, c)
  <2>1. z \in Nat /\ got[1].at \in Nat /\ Stamp \in [Events -> Nat]
    BY <1>2, <1>3, ConstantsAssumption DEF ConstantsAssumption
  <2> HIDE DEF z
  <2>2. Between(z + 1, c) = {}
    <3> SUFFICES ASSUME NEW e \in Events, z + 1 <= Stamp[e], Stamp[e] < c PROVE FALSE
      BY DEF Between
    <3>1. Stamp[e] \in Nat BY <2>1
    <3>2. b <= Stamp[e] BY <2>1, <3>1, <1>5, <1>6
    <3>3. e \in Between(b, c) BY <3>2 DEF Between
    <3> QED BY <3>1, <3>3, <2>1, <1>23
  <2>3. Len(<<>>) = 0 BY EmptySeq
  <2>4. Evs(<<>>) = {} BY <2>3 DEF Evs
  <2>5. Ordered(<<>>) /\ Dated(<<>>) BY <2>3 DEF Ordered, Dated
  <2>6. z + 1 <= c BY <1>6
  <2>7. \A i \in 1..Len(<<>>) : FALSE BY <2>3
  <2> QED BY <2>2, <2>4, <2>5, <2>6, <2>7, Zenon DEF Piece
<1>16. UNION {Evs(gs[t]) : t \in Times} = Between(h, z + 1)
  <2>1. UNION {Evs(gs[t]) : t \in Times} = (UNION {Evs(fs[t]) : t \in Times}) \cup Evs(got)
    <3>1. \A t \in Times : Evs(fs[t]) \subseteq Evs(gs[t])
      BY <1>10, <1>12
    <3>2. \A t \in Times : Evs(gs[t]) \subseteq Evs(fs[t]) \cup Evs(got)
      BY <1>10, <1>12
    <3>3. name \in Times /\ Evs(got) \subseteq Evs(gs[name]) BY <1>1, <1>10, <1>12
    <3> DEFINE F(t) == Evs(fs[t])  G(t) == Evs(gs[t])  V == Evs(got)
    <3>4. \A t \in Times : F(t) \subseteq G(t) /\ G(t) \subseteq F(t) \cup V
      BY <3>1, <3>2
    <3>5. name \in Times /\ V \subseteq G(name) BY <3>3
    <3> HIDE DEF F, G, V
    <3>6. UNION {G(t) : t \in Times} = (UNION {F(t) : t \in Times}) \cup V
      BY <3>4, <3>5
    <3> QED BY <3>6 DEF F, G, V
  <2>2. UNION {Evs(fs[t]) : t \in Times} = Between(h, b) /\ Evs(got) = Between(b, c) /\ h <= b
    BY DEF Base, Piece
  <2>3. Stamp \in [Events -> Nat] /\ z \in Nat /\ MaxEvents \in Nat
    BY <1>2, <1>3, ConstantsAssumption DEF ConstantsAssumption
  <2> HIDE DEF z
  <2>5. Between(h, b) \cup Between(b, c) = Between(h, z + 1)
    <3>1. ASSUME NEW e \in Between(h, b) PROVE e \in Between(h, z + 1)
      <4>1. e \in Events /\ h <= Stamp[e] /\ Stamp[e] < b /\ Stamp[e] \in Nat
        BY <2>3 DEF Between
      <4>2. b <= z
        <5>1. got[1].at \in Nat BY <1>2, <1>3
        <5> QED BY <5>1, <1>5, <1>6, <2>3
      <4>3. Stamp[e] < z + 1 BY <4>1, <4>2, <2>3
      <4> QED BY <4>1, <4>3 DEF Between
    <3>2. ASSUME NEW e \in Between(b, c) PROVE e \in Between(h, z + 1)
      <4>1. e \in Events /\ b <= Stamp[e] /\ Stamp[e] \in Nat BY <2>3 DEF Between
      <4>2. h <= Stamp[e] /\ Stamp[e] < z + 1 BY <4>1, <2>2, <2>3, <1>23
      <4> QED BY <4>1, <4>2 DEF Between
    <3>3. ASSUME NEW e \in Between(h, z + 1) PROVE e \in Between(h, b) \cup Between(b, c)
      <4>1. e \in Events /\ h <= Stamp[e] /\ Stamp[e] < z + 1 /\ Stamp[e] \in Nat
        BY <2>3 DEF Between
      <4>2. CASE Stamp[e] < b BY <4>1, <4>2 DEF Between
      <4>3. CASE ~(Stamp[e] < b)
        <5>1. b <= Stamp[e] /\ Stamp[e] < c BY <4>1, <4>3, <1>6, <2>3
        <5> QED BY <4>1, <5>1 DEF Between
      <4> QED BY <4>2, <4>3
    <3> QED BY <3>1, <3>2, <3>3
  <2> DEFINE P == UNION {Evs(gs[t]) : t \in Times}  Q == UNION {Evs(fs[t]) : t \in Times}
  <2>6. P = Q \cup Evs(got) /\ Q = Between(h, b) BY <2>1, <2>2
  <2> HIDE DEF P, Q
  <2>7. P = Between(h, z + 1) BY <2>2, <2>5, <2>6
  <2> QED BY <2>7 DEF P
<1>17. h <= z + 1
  <2>1. h <= b /\ z \in Nat /\ got[1].at \in Nat BY <1>2, <1>3 DEF Base
  <2> HIDE DEF z
  <2> QED BY <2>1, <1>5, <1>6
<1>18. ASSUME NEW t \in Times, gs[t] # <<>> PROVE Last(gs[t]).at < z + 1
  <2>1. z \in Nat /\ got[1].at \in Nat BY <1>2, <1>3
  <2>2. CASE t = name
    <3>1. Last(gs[t]).at = z BY <2>2, <1>11, <1>12
    <3> HIDE DEF z
    <3> QED BY <3>1, <2>1
  <2>3. CASE t # name
    <3>1. gs[t] = fs[t] /\ Last(fs[t]).at < b /\ fs[t] \in Seq(Entry) /\ fs[t] # <<>>
      BY <2>3, <1>12, <1>18 DEF Base
    <3>2. Last(fs[t]).at \in Nat BY <3>1, <1>2, LastOf
    <3> HIDE DEF z
    <3> QED BY <3>1, <3>2, <2>1, <1>5, <1>6
  <2> QED BY <2>2, <2>3
<1>19. ASSUME NEW t \in Times, IsNewest(gs, t) PROVE z + 1 = Last(gs[t]).at + 1
  <2>1. t = name
    <3>1. t <= name /\ name <= t BY <1>13, <1>19 DEF IsNewest
    <3> QED BY <3>1, <1>1, <1>2
  <2> QED BY <2>1, <1>11, <1>12
<1>20. \E e \in Events : Stamp[e] < z + 1
  <2>1. PICK e \in Events : Stamp[e] <= got[1].at BY DEF Piece
  <2>2. Stamp[e] \in Nat /\ z \in Nat /\ got[1].at \in Nat
    BY <1>2, <1>3, ConstantsAssumption DEF ConstantsAssumption
  <2> HIDE DEF z
  <2>3. Stamp[e] < z + 1 BY <2>1, <2>2, <1>5
  <2> QED BY <2>3
<1>21. ~NoFiles(gs) BY <1>1, <1>11, <1>12 DEF NoFiles
<1> HIDE DEF z
<1>22. Base(gs, h, z + 1)
  BY <1>1, <1>13, <1>14, <1>15, <1>16, <1>17, <1>18, <1>19, <1>20, <1>21 DEF Base
<1> QED BY <1>11, <1>12, <1>13, <1>22, <1>24 DEF z

(* A piece and the piece after it make one.                                *)
LEMMA ExtendedPiece ==
  ASSUME NEW got \in Seq(Entry), NEW r \in Seq(Entry),
         NEW b \in Nat, NEW c \in Nat, NEW z \in Nat, Piece(got, b, c), Piece(r, c, z)
  PROVE  /\ got \o r \in Seq(Entry)
         /\ Piece(got \o r, b, z)
         /\ got # <<>> => got \o r # <<>> /\ (got \o r)[1] = got[1]
         /\ got = <<>> => got \o r = r
<1> DEFINE g == got \o r  m == Len(got)  n == Len(r)
<1>1. /\ b <= c /\ Ordered(got) /\ Dated(got) /\ Evs(got) = Between(b, c)
      /\ \A i \in 1..m : b <= got[i].at /\ got[i].at < c
      /\ got # <<>> => \E e \in Events : Stamp[e] <= got[1].at
  BY DEF Piece
<1>2. /\ c <= z /\ Ordered(r) /\ Dated(r) /\ Evs(r) = Between(c, z)
      /\ \A i \in 1..n : c <= r[i].at /\ r[i].at < z
      /\ r # <<>> => \E e \in Events : Stamp[e] <= r[1].at
  BY DEF Piece
<1>3. /\ \A i \in 1..m : got[i].at \in Nat
      /\ \A i \in 1..n : r[i].at \in Nat
  BY EntryAt
<1>4. \A i \in 1..m, j \in 1..n : got[i].at < r[j].at BY <1>1, <1>2, <1>3
<1>5. g \in Seq(Entry) /\ Ordered(g) /\ Dated(g) /\ Evs(g) = Evs(got) \cup Evs(r)
  BY <1>1, <1>2, <1>4, Joined
<1>6. /\ m \in Nat /\ n \in Nat /\ Len(g) = m + n /\ (m = 0 <=> got = <<>>)
      /\ \A i \in 1..(m + n) : g[i] = IF i <= m THEN got[i] ELSE r[i - m]
  BY ConcatProperties, LenProperties, EmptySeq
<1>7. got = <<>> => g = r BY ConcatEmptySeq
<1>8. got # <<>> => g # <<>> /\ g[1] = got[1]
  <2> SUFFICES ASSUME got # <<>> PROVE g # <<>> /\ g[1] = got[1]
    OBVIOUS
  <2> HIDE DEF g, m, n
  <2>1. m # 0 /\ 1 \in 1..(m + n) /\ 1 <= m BY <1>6
  <2> QED BY <2>1, <1>6, EmptySeq
<1>9. \A i \in 1..(m + n) : b <= g[i].at /\ g[i].at < z
  <2> TAKE i \in 1..(m + n)
  <2> HIDE DEF g, m, n
  <2>1. CASE i <= m
    <3>1. i \in 1..m /\ g[i] = got[i] BY <2>1, <1>6
    <3> QED BY <3>1, <1>1, <1>2, <1>3
  <2>2. CASE ~(i <= m)
    <3>1. i - m \in 1..n /\ g[i] = r[i - m] BY <2>2, <1>6
    <3>2. c <= r[i - m].at /\ r[i - m].at < z /\ r[i - m].at \in Nat BY <3>1, <1>2, <1>3
    <3> QED BY <3>1, <3>2, <1>1
  <2> QED BY <2>1, <2>2
<1>10. Evs(g) = Between(b, z)
  <2>1. Stamp \in [Events -> Nat] BY ConstantsAssumption DEF ConstantsAssumption
  <2>2. Between(b, c) \cup Between(c, z) = Between(b, z)
    BY <2>1, <1>1, <1>2 DEF Between
  <2> QED BY <2>2, <1>1, <1>2, <1>5
<1>11. g # <<>> => \E e \in Events : Stamp[e] <= g[1].at
  BY <1>1, <1>2, <1>7, <1>8
<1>12. b <= z BY <1>1, <1>2
<1> HIDE DEF g
<1>13. Piece(g, b, z) BY <1>5, <1>6, <1>9, <1>10, <1>11, <1>12 DEF Piece
<1> QED BY <1>5, <1>7, <1>8, <1>13 DEF g

(* Nothing is got yet.                                                     *)
LEMMA NothingYet ==
  ASSUME NEW b \in Nat
  PROVE  Piece(<<>>, b, b) /\ Between(b, b) = {} /\ Evs(<<>>) = {}
<1>1. Len(<<>>) = 0 BY EmptySeq
<1>2. Stamp \in [Events -> Nat] BY ConstantsAssumption DEF ConstantsAssumption
<1>3. Between(b, b) = {} BY <1>2 DEF Between
<1>4. Evs(<<>>) = {} BY <1>1 DEF Evs
<1>5. Ordered(<<>>) /\ Dated(<<>>) BY <1>1 DEF Ordered, Dated
<1> QED BY <1>1, <1>3, <1>4, <1>5 DEF Piece

(* The newest file is the one that is chosen.                              *)
LEMMA NewestIs ==
  ASSUME NEW fs, NEW t, IsNewest(fs, t)
  PROVE  Newest(fs) = t
<1>1. \A u \in Times : fs[u] # <<>> /\ (\A v \in Times : fs[v] # <<>> => v <= u) => u = t
  BY TimesAreNumbers DEF IsNewest
<1>2. t \in Times /\ fs[t] # <<>> /\ \A v \in Times : fs[v] # <<>> => v <= t
  BY DEF IsNewest
<1> QED BY <1>1, <1>2 DEF Newest

-----------------------------------------------------------------------------
(* The steps.                                                              *)

(* What is cached, by the time it is from.                                 *)
LEMMA CachedIs ==
  /\ Cached = UNION {Evs(files[t]) : t \in Times}
  /\ Cached' = UNION {Evs(files'[t]) : t \in Times}
BY DEF Cached, InFile, Evs

(* Storing what is got keeps the files whole, and what is trimmed from the *)
(* dirty log is in a file or older than what was asked for first.          *)
LEMMA StoreKeeps ==
  ASSUME TypeOK, NoLoss, NEW h \in 0..horizon, NEW b \in Starts, NEW c \in Nat,
         NEW got \in Seq(Entry), NEW snapshot,
         Base(files, h, b), Piece(got, b, c), Named(files, sync.hint, got, snapshot),
         Store(got), horizon' = horizon, recorded' = recorded
  PROVE  /\ files' \in [Times -> Seq(Entry)] /\ dirty' \subseteq recorded'
         /\ NoLoss'
         /\ \E d \in Starts : Base(files', h, d) /\ (got # <<>> => Piece(<<>>, d, c))
<1>1. /\ files \in [Times -> Seq(Entry)] /\ dirty \subseteq recorded
      /\ horizon \in 0..MaxHorizon /\ recorded \subseteq Events
  BY DEF TypeOK
<1>2. CASE got = <<>>
  <2>1. files' = files /\ dirty' = dirty BY <1>2 DEF Store
  <2>2. NoLoss' BY <2>1 DEF NoLoss, Cached, InFile
  <2> QED BY <1>1, <1>2, <2>1, <2>2
<1>3. CASE got # <<>>
  <2> DEFINE hint == sync.hint
             name == IF hint # NoName THEN hint ELSE Head(got).at
             fs == files
             gs == [files EXCEPT ![name] = @ \o got]
             d == Last(got).at + 1
  <2>1. files' = gs /\ dirty' = Trimmed(files') BY <1>3 DEF Store
  <2>2. h \in Nat /\ b \in Nat
    BY <1>1, TimesAreNumbers, ConstantsAssumption DEF ConstantsAssumption
  <2>3. Written(fs, h, b, c, got, hint, snapshot, name)
    <3> HIDE DEF hint
    <3> QED BY <1>1, <1>3, <2>2 DEF Written, hint
  <2> HIDE DEF name, gs, hint, fs
  <2>4. gs = Added(fs, name, got) BY DEF gs, fs, Added
  <2>5. PICK pfs, phint, pname, pgs :
          pfs = fs /\ phint = hint /\ pname = name /\ pgs = gs
    OBVIOUS
  <2>6. /\ Written(pfs, h, b, c, got, phint, snapshot, pname)
        /\ pgs = Added(pfs, pname, got)
    BY <2>3, <2>4, <2>5
  <2>7. /\ pgs \in [Times -> Seq(Entry)]
        /\ IsNewest(pgs, pname) /\ Last(pgs[pname]).at = Last(got).at
        /\ Base(pgs, h, d)
        /\ Piece(<<>>, d, c)
    BY <2>6, StoredPiece
  <2>8. files' = pgs /\ dirty' = Trimmed(pgs) BY <2>1, <2>5
  <2>9. Last(got).at \in Times /\ d \in Starts BY <1>3, LastOf, TimesAreNumbers
  <2>10. Newest(pgs) = pname BY <2>7, NewestIs
  <2>11. dirty' = {e \in dirty : Stamp[e] >= Last(got).at}
    BY <2>7, <2>8, <2>10 DEF Trimmed
  <2>12. Cached' = Between(h, d)
    <3>1. Cached' = UNION {Evs(files'[t]) : t \in Times} BY CachedIs
    <3>2. files' = pgs BY <2>8
    <3>3. Cached' = UNION {Evs(pgs[t]) : t \in Times} BY <3>1, <3>2, Zenon
    <3> QED BY <3>3, <2>7 DEF Base
  <2>13. Cached = Between(h, b) BY CachedIs DEF Base
  <2>14. b <= d
    <3>1. Len(got) \in Nat \ {0} /\ got[1].at \in Times /\ Ordered(got)
      BY <1>3, LastOf DEF Piece
    <3>2. b <= got[1].at /\ got[1].at <= Last(got).at
      BY <3>1, LastIsLatest DEF Piece
    <3>3. got[1].at \in Nat /\ Last(got).at \in Nat BY <3>1, <2>9, TimesAreNumbers
    <3> QED BY <3>2, <3>3, <2>2
  <2>15. NoLoss'
    <3> SUFFICES ASSUME NEW e \in recorded, e \notin dirty'
                 PROVE  e \in Cached' \/ Stamp[e] < horizon
      BY DEF NoLoss
    <3>1. e \in Events /\ Stamp[e] \in Nat /\ Last(got).at \in Nat /\ horizon \in Nat
      BY <1>1, <2>9, TimesAreNumbers, ConstantsAssumption DEF ConstantsAssumption
    <3>2. CASE e \in dirty
      <4>1. Stamp[e] < Last(got).at BY <3>1, <3>2, <2>11
      <4>2. Stamp[e] < d BY <3>1, <4>1
      <4>3. CASE h <= Stamp[e] BY <4>2, <4>3, <3>1, <2>12 DEF Between
      <4>4. CASE ~(h <= Stamp[e])
        <5>1. Stamp[e] < horizon BY <4>4, <3>1, <2>2
        <5> QED BY <5>1
      <4> QED BY <4>3, <4>4
    <3>3. CASE e \in Cached
      <4>1. h <= Stamp[e] /\ Stamp[e] < b BY <3>3, <2>13 DEF Between
      <4>2. d \in Nat BY <2>9, TimesAreNumbers
      <4>3. Stamp[e] < d BY <4>1, <4>2, <3>1, <2>2, <2>14
      <4> QED BY <4>1, <4>3, <3>1, <2>12 DEF Between
    <3> QED BY <3>2, <3>3 DEF NoLoss
  <2>16. dirty' \subseteq recorded' BY <1>1, <2>11
  <2>17. files' \in [Times -> Seq(Entry)] /\ Base(files', h, d) BY <2>7, <2>8
  <2> HIDE DEF d
  <2> QED BY <2>7, <2>9, <2>15, <2>16, <2>17
<1> QED BY <1>2, <1>3

(* At first nothing is cached.                                             *)
LEMMA LInitially == Init => LInv
<1> SUFFICES ASSUME Init PROVE LInv
  OBVIOUS
<1>1. /\ MaxEvents \in Nat /\ MaxHorizon \in Nat /\ MaxFaults \in Nat
  BY ConstantsAssumption DEF ConstantsAssumption
<1>2. <<>> \in Seq(Entry) /\ Len(<<>>) = 0 BY EmptySeq
<1>3. 0 \in Starts /\ 0 \in Times BY TimesAreNumbers
<1>4. NoSync \in Syncer BY <1>1, <1>2, <1>3 DEF NoSync, Syncer
<1>5. TypeOK BY <1>1, <1>2, <1>4 DEF Init, TypeOK
<1>6. NoLoss BY DEF Init, NoLoss
<1>7. ~sync.snapshot /\ ~sync.active BY DEF Init, NoSync
<1>8. Evs(<<>>) = {} /\ Between(0, 0) = {} BY NothingYet
<1>9. \A t \in Times : files[t] = <<>> BY DEF Init
<1>10. Base(files, 0, 0)
  <2>1. \A t \in Times : FileRight(files, t)
    BY <1>2, <1>9 DEF FileRight, Ordered, Dated
  <2>2. \A t, u \in Times : FilesApart(files, t, u) BY <1>9 DEF FilesApart
  <2>3. UNION {Evs(files[t]) : t \in Times} = {} BY <1>8, <1>9
  <2>4. NoFiles(files) /\ \A t \in Times : ~IsNewest(files, t)
    BY <1>9 DEF NoFiles, IsNewest
  <2> QED BY <2>1, <2>2, <2>3, <2>4, <1>8, <1>9 DEF Base
<1>11. 0 \in 0..horizon BY DEF Init
<1> QED BY <1>3, <1>5, <1>6, <1>7, <1>10, <1>11 DEF LInv, Held

(* The answer of getLog: the batch is stored, or kept to be stored later.  *)
LEMMA AnswerKeeps ==
  ASSUME LInv, NEW n \in sync.seen..logged, Answer(n)
  PROVE  LInv'
<1> DEFINE batch == Batch(n)  c == sync.since  r == Complete(batch)
           got == sync.got \o r  z == Last(batch).at
<1>1. PICK h \in 0..horizon, b \in Starts : Held(h, b) BY DEF LInv
<1>2. /\ Base(files, h, b) /\ Piece(sync.got, b, c)
      /\ Named(files, sync.hint, sync.got, sync.snapshot)
  BY <1>1 DEF Held, Answer
<1>3. /\ TypeOK /\ NoLoss /\ (sync.snapshot => sync.since \in Times)
      /\ sync \in Syncer /\ sync.got \in Seq(Entry) /\ c \in Starts
      /\ logged \in 0..MaxEvents /\ horizon \in 0..MaxHorizon /\ sync.active
      /\ sync.seen \in 0..MaxEvents
  BY DEF LInv, TypeOK, Syncer, Answer
<1>4. /\ MaxEvents \in Nat /\ MaxHorizon \in Nat /\ MaxPerFile \in Nat
  BY ConstantsAssumption DEF ConstantsAssumption
<1>5. n \in 0..MaxEvents BY <1>3, <1>4
<1>6. b \in Nat /\ c \in Nat /\ Times \subseteq Nat /\ Times \subseteq Starts
  BY <1>3, TimesAreNumbers
<1>7. UNCHANGED <<logged, horizon, faults, recorded>> BY DEF Answer
<1>8. NoSync \in Syncer /\ ~NoSync.active /\ ~NoSync.snapshot
  BY <1>4, TimesAreNumbers, EmptySeq DEF NoSync, Syncer
<1>9. ASSUME NEW g \in Seq(Entry), NEW e \in Nat, Piece(g, b, e),
             Named(files, sync.hint, g, sync.snapshot), Finish(g)
      PROVE  LInv'
  <2>1. Store(g) /\ sync' = NoSync BY <1>9 DEF Finish
  <2> DEFINE snapshot == sync.snapshot
  <2>2. Named(files, sync.hint, g, snapshot) BY <1>9
  <2> HIDE DEF snapshot
  <2>3. PICK psnap : psnap = snapshot OBVIOUS
  <2>4. Named(files, sync.hint, g, psnap) BY <2>2, <2>3
  <2>5. /\ files' \in [Times -> Seq(Entry)] /\ dirty' \subseteq recorded' /\ NoLoss'
        /\ \E d \in Starts : Base(files', h, d)
    BY <1>2, <1>3, <1>7, <1>9, <2>1, <2>4, StoreKeeps
  <2>6. TypeOK' BY <1>3, <1>7, <1>8, <2>1, <2>5 DEF TypeOK
  <2> QED BY <1>7, <1>8, <2>1, <2>5, <2>6 DEF LInv, Held
<1>10. CASE batch = <<>> /\ Finish(sync.got)
  BY <1>2, <1>3, <1>6, <1>9, <1>10
<1>11. ASSUME batch # <<>>
       PROVE  /\ got \in Seq(Entry) /\ z \in Times /\ Piece(got, b, z)
              /\ Named(files, sync.hint, got, sync.snapshot)
              /\ Len(batch) = Limit => got # <<>>
              /\ (Len(batch) = Limit /\ sync.got = <<>> /\ sync.snapshot /\ SnapSize > 0
                   /\ ~NoFiles(files)) => got[1].ev = 0
  <2>1. PICK k, m : BatchFrom(batch, c, k, m)
    BY <1>3, <1>5, <1>11, BatchShape
  <2>2. (sync.snapshot /\ SnapSize > 0 /\ \E e \in Events : Stamp[e] < c) => batch[1].ev = 0
    BY <1>3, <1>5, <1>11, BatchShape
  <2> HIDE DEF batch, c
  <2>3. PICK p, q : p = batch /\ q = c OBVIOUS
  <2>4. BatchFrom(p, q, k, m) BY <2>1, <2>3
  <2>5. /\ Complete(p) \in Seq(Entry) /\ Last(p).at \in Times
        /\ Piece(Complete(p), q, Last(p).at)
        /\ Complete(p) # <<>> => Complete(p)[1] = p[1]
    BY <2>4, CompleteIsPiece
  <2>6. Len(p) = Limit => Complete(p) # <<>> BY <2>4, FullBatch
  <2>7. /\ r \in Seq(Entry) /\ z \in Times /\ Piece(r, c, z)
        /\ r # <<>> => r[1] = batch[1]
        /\ Len(batch) = Limit => r # <<>>
    BY <2>3, <2>5, <2>6
  <2> HIDE DEF r, z
  <2>8. PICK sg, pr, pz : sg = sync.got /\ pr = r /\ pz = z OBVIOUS
  <2>9. /\ sg \in Seq(Entry) /\ pr \in Seq(Entry) /\ q \in Nat /\ pz \in Nat
        /\ Piece(sg, b, q) /\ Piece(pr, q, pz)
    BY <1>2, <1>3, <1>6, <2>3, <2>7, <2>8 DEF c
  <2>10. /\ sg \o pr \in Seq(Entry) /\ Piece(sg \o pr, b, pz)
         /\ sg # <<>> => sg \o pr # <<>> /\ (sg \o pr)[1] = sg[1]
         /\ sg = <<>> => sg \o pr = pr
    BY <2>9, <1>6, ExtendedPiece
  <2>11. got = sg \o pr BY <2>8
  <2> HIDE DEF got
  <2>12. /\ got \in Seq(Entry) /\ Piece(got, b, z)
         /\ sync.got # <<>> => got # <<>> /\ got[1] = sync.got[1]
         /\ sync.got = <<>> => got = r
    BY <2>8, <2>10, <2>11
  <2>13. Len(batch) = Limit => got # <<>> BY <2>7, <2>12
  <2>14. ASSUME sync.got = <<>>, sync.snapshot, SnapSize > 0, ~NoFiles(files), got # <<>>
         PROVE  got[1].ev = 0
    <3>1. got[1] = batch[1] BY <2>7, <2>12, <2>14
    <3>2. PICK e \in Events : Stamp[e] < b BY <1>2, <2>14 DEF Base
    <3>3. Stamp[e] < c
      <4>1. b <= c /\ Stamp[e] \in Nat
        BY <1>2, ConstantsAssumption DEF ConstantsAssumption, Piece, c
      <4> QED BY <4>1, <3>2, <1>6 DEF c
    <3> QED BY <3>1, <3>3, <2>2, <2>14
  <2>15. Named(files, sync.hint, got, sync.snapshot)
    <3>1. CASE sync.hint # NoName BY <1>2, <3>1 DEF Named
    <3>2. CASE sync.hint = NoName /\ NoFiles(files) BY <3>2 DEF Named
    <3>3. CASE sync.hint = NoName /\ ~NoFiles(files) /\ sync.got # <<>>
      BY <1>2, <2>12, <3>3 DEF Named
    <3>4. CASE sync.hint = NoName /\ ~NoFiles(files) /\ sync.got = <<>>
      <4>1. sync.snapshot BY <1>2, <3>4 DEF Named
      <4>2. SnapSize > 0 /\ got # <<>> => got[1].ev = 0 BY <2>14, <3>4, <4>1
      <4> QED BY <3>4, <4>1, <4>2 DEF Named
    <3> QED BY <3>1, <3>2, <3>3, <3>4
  <2> QED BY <2>7, <2>12, <2>13, <2>14, <2>15
<1>12. CASE batch # <<>> /\ Finish(got)
  <2>1. z \in Nat BY <1>6, <1>11, <1>12
  <2> HIDE DEF got, z
  <2>2. PICK pg, pz : pg = got /\ pz = z OBVIOUS
  <2>3. /\ pg \in Seq(Entry) /\ pz \in Nat /\ Piece(pg, b, pz)
        /\ Named(files, sync.hint, pg, sync.snapshot) /\ Finish(pg)
    BY <1>11, <1>12, <2>1, <2>2
  <2> QED BY <2>3, <1>9
<1>13. ASSUME Len(batch) = Limit PROVE batch # <<>>
  <2>1. Limit # 0 BY ConstantsAssumption DEF ConstantsAssumption
  <2> HIDE DEF batch
  <2> QED BY <1>13, <2>1, EmptySeq
<1>14. CASE Len(batch) = Limit /\ Split(got, z)
  <2>1. /\ got \in Seq(Entry) /\ got # <<>> /\ z \in Times /\ z \in Nat /\ Piece(got, b, z)
        /\ Named(files, sync.hint, got, sync.snapshot)
    BY <1>6, <1>11, <1>13, <1>14
  <2>2. /\ Store(got)
        /\ sync' = [sync EXCEPT !.since = z, !.snapshot = TRUE, !.got = <<>>,
                                !.count = 0, !.hint = NoName, !.seen = logged]
    BY <1>14 DEF Split
  <2> HIDE DEF got, z
  <2>3. PICK pg, pz, psnap : pg = got /\ pz = z /\ psnap = sync.snapshot OBVIOUS
  <2>4. /\ pg \in Seq(Entry) /\ pg # <<>> /\ pz \in Nat /\ Piece(pg, b, pz)
        /\ Named(files, sync.hint, pg, psnap) /\ Store(pg)
    BY <2>1, <2>2, <2>3
  <2>5. /\ files' \in [Times -> Seq(Entry)] /\ dirty' \subseteq recorded' /\ NoLoss'
        /\ \E d \in Starts : Base(files', h, d) /\ (pg # <<>> => Piece(<<>>, d, pz))
    BY <1>2, <1>3, <1>7, <2>4, StoreKeeps
  <2>6. PICK d \in Starts : Base(files', h, d) /\ Piece(<<>>, d, z) BY <2>3, <2>4, <2>5
  <2>7. sync' \in Syncer
    <3>1. <<>> \in Seq(Entry) BY EmptySeq
    <3>2. z \in Starts BY <2>1, <1>6
    <3> QED BY <1>3, <2>2, <3>1, <3>2 DEF Syncer
  <2>8. /\ sync'.since = z /\ sync'.snapshot /\ sync'.got = <<>> /\ sync'.hint = NoName
    BY <1>3, <2>2 DEF Syncer
  <2>9. TypeOK' BY <1>3, <1>7, <2>5, <2>7 DEF TypeOK
  <2>10. Named(files', sync'.hint, sync'.got, sync'.snapshot) BY <2>8 DEF Named
  <2>11. Held(h, d)' BY <2>6, <2>8, <2>10 DEF Held
  <2> QED BY <1>7, <2>1, <2>5, <2>8, <2>9, <2>11 DEF LInv
<1>15. CASE Len(batch) = Limit /\ Continue(got, z) /\ UNCHANGED <<files, dirty>>
  <2>1. /\ got \in Seq(Entry) /\ got # <<>> /\ z \in Times /\ Piece(got, b, z)
        /\ Named(files, sync.hint, got, sync.snapshot)
        /\ (sync.got = <<>> /\ sync.snapshot /\ SnapSize > 0 /\ ~NoFiles(files))
             => got[1].ev = 0
    BY <1>11, <1>13, <1>15
  <2>2. sync' = [sync EXCEPT !.since = z, !.snapshot = FALSE, !.got = got, !.seen = logged]
    BY <1>15 DEF Continue
  <2> HIDE DEF got, z
  <2>3. sync' \in Syncer
    <3>1. z \in Starts BY <2>1, <1>6
    <3> QED BY <1>3, <2>1, <2>2, <3>1 DEF Syncer
  <2>4. /\ sync'.since = z /\ ~sync'.snapshot /\ sync'.got = got /\ sync'.hint = sync.hint
    BY <1>3, <2>2 DEF Syncer
  <2>5. TypeOK' BY <1>3, <1>7, <1>15, <2>3 DEF TypeOK
  <2>6. NoLoss' BY <1>3, <1>7, <1>15 DEF NoLoss, Cached, InFile
  <2>7. Named(files', sync'.hint, sync'.got, sync'.snapshot)
    BY <1>15, <2>1, <2>4 DEF Named
  <2>8. Held(h, b)' BY <1>2, <1>15, <2>1, <2>4, <2>7 DEF Held
  <2> QED BY <1>7, <2>4, <2>5, <2>6, <2>8 DEF LInv
<1> QED BY <1>10, <1>12, <1>14, <1>15 DEF Answer

(* Where files are, one is the newest; where a sync starts, nothing is got.*)
LEMMA StartKeeps ==
  ASSUME LInv, StartSync
  PROVE  LInv'
<1>1. PICK h \in 0..horizon, b \in Starts : Held(h, b) BY DEF LInv
<1>2. Base(files, h, b) /\ b \in Nat BY <1>1, TimesAreNumbers DEF Held
<1>3. /\ TypeOK /\ NoLoss /\ files \in [Times -> Seq(Entry)]
      /\ logged \in 0..MaxEvents /\ horizon \in 0..MaxHorizon
      /\ UNCHANGED <<logged, files, dirty, horizon, faults, recorded>>
  BY DEF LInv, TypeOK, StartSync
<1>4. MaxEvents \in Nat /\ MaxHorizon \in Nat BY ConstantsAssumption DEF ConstantsAssumption
<1>5. <<>> \in Seq(Entry) /\ Len(<<>>) = 0 BY EmptySeq
<1>6. NoSync \in Syncer BY <1>4, <1>5, TimesAreNumbers DEF NoSync, Syncer
<1>7. NoLoss' BY <1>3 DEF NoLoss, Cached, InFile
<1>8. CASE NoFiles(files)
  <2>1. sync' = [NoSync EXCEPT !.active = TRUE, !.since = horizon,
                               !.snapshot = TRUE, !.seen = logged]
    BY <1>8 DEF StartSync, NoFiles
  <2>2. horizon \in Times /\ horizon \in Starts /\ horizon \in Nat /\ horizon \in 0..horizon
    BY <1>3, <1>4, TimesAreNumbers
  <2>3. sync' \in Syncer BY <1>3, <1>6, <2>1, <2>2 DEF Syncer
  <2>4. /\ sync'.since = horizon /\ sync'.snapshot /\ sync'.got = <<>>
        /\ sync'.hint = NoName
    BY <2>1 DEF NoSync
  <2>5. Base(files, horizon, horizon)
    <3>1. Evs(<<>>) = {} /\ Between(horizon, horizon) = {} BY <2>2, NothingYet
    <3>2. \A t \in Times : FileRight(files, t) BY <1>2 DEF Base
    <3>3. \A t, u \in Times : FilesApart(files, t, u) BY <1>2 DEF Base
    <3>4. UNION {Evs(files[t]) : t \in Times} = {} BY <1>8, <3>1 DEF NoFiles
    <3>5. \A t \in Times : files[t] = <<>> /\ ~IsNewest(files, t)
      BY <1>8 DEF NoFiles, IsNewest
    <3>6. horizon <= horizon BY <2>2
    <3> QED BY <3>1, <3>2, <3>3, <3>4, <3>5, <3>6, <1>8 DEF Base
  <2>6. Piece(<<>>, horizon, horizon) BY <2>2, NothingYet
  <2>7. Named(files', sync'.hint, sync'.got, sync'.snapshot) BY <2>4 DEF Named
  <2>8. Held(horizon, horizon)' BY <1>3, <2>4, <2>5, <2>6, <2>7 DEF Held
  <2>9. TypeOK' BY <1>3, <2>3 DEF TypeOK
  <2> QED BY <1>3, <1>7, <2>2, <2>4, <2>8, <2>9 DEF LInv
<1>9. CASE ~NoFiles(files)
  <2>1. PICK t \in Times : IsNewest(files, t) BY <1>2, <1>9 DEF Base
  <2>2. Newest(files) = t BY <2>1, NewestIs
  <2>3. files[t] \in Seq(Entry) /\ files[t] # <<>> BY <1>3, <2>1 DEF IsNewest
  <2>4. Len(files[t]) \in Nat /\ Last(files[t]).at \in Times BY <2>3, LastOf
  <2>5. ResumeAfter(t) = b /\ b = Last(files[t]).at + 1
    BY <1>2, <2>1 DEF ResumeAfter, Base
  <2>6. sync' = [NoSync EXCEPT !.active = TRUE, !.since = b, !.count = Len(files[t]),
                               !.hint = t, !.seen = logged]
    BY <1>9, <2>2, <2>5 DEF StartSync, NoFiles
  <2>7. sync' \in Syncer BY <1>3, <1>6, <2>4, <2>6 DEF Syncer
  <2>8. /\ sync'.since = b /\ ~sync'.snapshot /\ sync'.got = <<>> /\ sync'.hint = t
    BY <2>6 DEF NoSync
  <2>9. t # NoName BY TimesAreNumbers
  <2>10. Named(files', sync'.hint, sync'.got, sync'.snapshot)
    BY <1>3, <2>1, <2>8, <2>9 DEF Named
  <2>11. Piece(<<>>, b, b) BY <1>2, NothingYet
  <2>12. Held(h, b)' BY <1>2, <1>3, <2>8, <2>10, <2>11 DEF Held
  <2>13. TypeOK' BY <1>3, <2>7 DEF TypeOK
  <2> QED BY <1>3, <1>7, <2>8, <2>12, <2>13 DEF LInv
<1> QED BY <1>8, <1>9

(* Every step keeps the invariant.                                         *)
LEMMA LKept ==
  ASSUME LInv, [Next]_vars
  PROVE  LInv'
<1>1. PICK h \in 0..horizon, b \in Starts : Held(h, b) BY DEF LInv
<1>2. /\ TypeOK /\ NoLoss /\ (sync.snapshot => sync.since \in Times)
      /\ files \in [Times -> Seq(Entry)] /\ dirty \subseteq recorded /\ sync \in Syncer
      /\ logged \in 0..MaxEvents /\ horizon \in 0..MaxHorizon
      /\ faults \in 0..MaxFaults /\ recorded \subseteq Events
  BY DEF LInv, TypeOK
<1>3. MaxEvents \in Nat /\ MaxHorizon \in Nat /\ MaxFaults \in Nat
  BY ConstantsAssumption DEF ConstantsAssumption
<1>4. NoSync \in Syncer /\ ~NoSync.active /\ ~NoSync.snapshot
  BY <1>3, TimesAreNumbers, EmptySeq DEF NoSync, Syncer
<1>5. CASE RemoteAppend
  <2>1. TypeOK' BY <1>2, <1>3, <1>5 DEF RemoteAppend, TypeOK
  <2>2. NoLoss' BY <1>2, <1>5 DEF RemoteAppend, NoLoss, Cached, InFile
  <2>3. Held(h, b)' BY <1>1, <1>5 DEF RemoteAppend, Held
  <2> QED BY <1>2, <1>5, <2>1, <2>2, <2>3 DEF RemoteAppend, LInv
<1>6. CASE TimePasses
  <2>1. TypeOK' BY <1>2, <1>3, <1>6 DEF TimePasses, TypeOK
  <2>2. NoLoss'
    <3> SUFFICES ASSUME NEW e \in recorded, e \notin dirty, e \notin Cached
                 PROVE  Stamp[e] < horizon + 1
      BY <1>6 DEF TimePasses, NoLoss, Cached, InFile
    <3>1. Stamp[e] < horizon BY <1>2 DEF NoLoss
    <3>2. Stamp[e] \in Nat BY <1>2, ConstantsAssumption DEF ConstantsAssumption
    <3> QED BY <3>1, <3>2, <1>2, <1>3
  <2>3. Held(h, b)' BY <1>1, <1>6 DEF TimePasses, Held
  <2>4. h \in 0..(horizon + 1) BY <1>2, <1>3
  <2> QED BY <1>2, <1>6, <2>1, <2>2, <2>3, <2>4 DEF TimePasses, LInv
<1>7. ASSUME NEW e \in Events, Record(e) PROVE LInv'
  <2>1. TypeOK' BY <1>2, <1>7 DEF Record, TypeOK
  <2>2. NoLoss' BY <1>2, <1>7 DEF Record, NoLoss, Cached, InFile
  <2>3. Held(h, b)' BY <1>1, <1>7 DEF Record, Held
  <2> QED BY <1>2, <1>7, <2>1, <2>2, <2>3 DEF Record, LInv
<1>8. CASE Fail
  <2>1. /\ Store(sync.got) /\ sync' = NoSync /\ UNCHANGED <<logged, horizon, recorded>>
        /\ faults' = faults + 1 /\ faults < MaxFaults /\ sync.active
    BY <1>8 DEF Fail, Finish
  <2>2. /\ Base(files, h, b) /\ Piece(sync.got, b, sync.since)
        /\ Named(files, sync.hint, sync.got, sync.snapshot)
    BY <1>1, <2>1 DEF Held
  <2>3. PICK pg, pz, psnap : pg = sync.got /\ pz = sync.since /\ psnap = sync.snapshot
    OBVIOUS
  <2>4. /\ pg \in Seq(Entry) /\ pz \in Nat /\ Piece(pg, b, pz)
        /\ Named(files, sync.hint, pg, psnap) /\ Store(pg)
    BY <1>2, <2>1, <2>2, <2>3, TimesAreNumbers DEF Syncer
  <2>5. /\ files' \in [Times -> Seq(Entry)] /\ dirty' \subseteq recorded' /\ NoLoss'
        /\ \E d \in Starts : Base(files', h, d)
    BY <1>2, <2>1, <2>2, <2>4, StoreKeeps
  <2>6. TypeOK' BY <1>2, <1>3, <1>4, <2>1, <2>5 DEF TypeOK
  <2> QED BY <1>4, <2>1, <2>5, <2>6 DEF LInv, Held
<1>9. CASE Abort
  <2>1. TypeOK' BY <1>2, <1>3, <1>4, <1>9 DEF Abort, TypeOK
  <2>2. NoLoss' BY <1>2, <1>9 DEF Abort, NoLoss, Cached, InFile
  <2>3. Held(h, b)' BY <1>1, <1>4, <1>9 DEF Abort, Held
  <2> QED BY <1>4, <1>9, <2>1, <2>2, <2>3 DEF Abort, LInv
<1>10. CASE UNCHANGED vars
  <2>1. TypeOK' BY <1>2, <1>10 DEF vars, TypeOK
  <2>2. NoLoss' BY <1>2, <1>10 DEF vars, NoLoss, Cached, InFile
  <2>3. Held(h, b)' BY <1>1, <1>10 DEF vars, Held
  <2> QED BY <1>2, <1>10, <2>1, <2>2, <2>3 DEF vars, LInv
<1> QED
  BY <1>5, <1>6, <1>7, <1>8, <1>9, <1>10, StartKeeps, AnswerKeeps DEF Next

-----------------------------------------------------------------------------
(* What the cached files hold is a stretch of the log, file after file.    *)
LEMMA WholeFiles == LInv => BatchesWhole
<1> SUFFICES ASSUME LInv PROVE BatchesWhole
  OBVIOUS
<1>1. PICK h \in 0..horizon, b \in Starts : Held(h, b) BY DEF LInv
<1>2. Base(files, h, b) BY <1>1 DEF Held
<1>3. TypeOK /\ NoLoss /\ files \in [Times -> Seq(Entry)] BY DEF LInv, TypeOK
<1>4. /\ MaxEvents \in Nat /\ Stamp \in [Events -> Nat]
      /\ \A d, e \in Events : d <= e => Stamp[d] <= Stamp[e]
  BY ConstantsAssumption DEF ConstantsAssumption
<1>5. SnapshotFirst
  <2>1. \A t, u \in Times : FilesApart(files, t, u) BY <1>2 DEF Base
  <2> QED BY <2>1 DEF FilesApart, SnapshotFirst
<1>6. \A t \in Times : Ordered(files[t]) /\ Dated(files[t]) BY <1>2 DEF Base, FileRight
<1>7. Cached = Between(h, b) BY <1>2, CachedIs DEF Base
<1>8. ASSUME NEW t \in Times, NEW d \in InFile(t)
      PROVE  /\ d \in Events /\ files[t] # <<>>
             /\ files[t][1].at <= Stamp[d] /\ Stamp[d] <= Last(files[t]).at
  <2> DEFINE f == files[t]
  <2>1. f \in Seq(Entry) /\ Ordered(f) /\ Dated(f) BY <1>3, <1>6
  <2>2. PICK i \in 1..Len(f) : d = f[i].ev /\ d # 0 BY <1>8 DEF InFile
  <2>3. d \in Cached BY <1>8 DEF Cached
  <2>4. d \in Events BY <2>3, <1>7 DEF Between
  <2> HIDE DEF f
  <2>5. f[i].at = Stamp[d] BY <2>1, <2>2 DEF Dated
  <2>6. f[i].at <= Last(f).at /\ f[1].at <= f[i].at BY <2>1, LastIsLatest
  <2>7. f # <<>> BY <2>1, <2>2, LenProperties
  <2> QED BY <2>4, <2>5, <2>6, <2>7 DEF f
<1>9. ASSUME NEW t \in Times, NEW u \in Times, t < u, NEW d \in InFile(t), NEW e \in InFile(u)
      PROVE  d < e
  <2>1. /\ d \in Events /\ e \in Events /\ files[t] # <<>> /\ files[u] # <<>>
        /\ Stamp[d] <= Last(files[t]).at /\ files[u][1].at <= Stamp[e]
    BY <1>8
  <2>2. Last(files[t]).at < u /\ files[u][1].at = u
    <3>1. FilesApart(files, t, u) /\ FileRight(files, u) BY <1>2 DEF Base
    <3> QED BY <3>1, <2>1, <1>9 DEF FilesApart, FileRight
  <2>3. Last(files[t]).at \in Nat /\ u \in Nat
    <3>1. files[t] \in Seq(Entry) BY <1>3
    <3> QED BY <3>1, <2>1, LastOf, TimesAreNumbers
  <2>4. Stamp[d] < Stamp[e] /\ Stamp[d] \in Nat /\ Stamp[e] \in Nat
    <3>1. Stamp[d] \in Nat /\ Stamp[e] \in Nat BY <2>1, <1>4
    <3> QED BY <3>1, <2>1, <2>2, <2>3
  <2>5. ~(e <= d) BY <2>1, <2>4, <1>4
  <2> QED BY <2>1, <2>5, <1>4 DEF Events
<1>10. ASSUME NEW d \in Cached, NEW e \in Cached, NEW m \in d..e PROVE m \in Cached
  <2>1. /\ d \in Events /\ e \in Events /\ h <= Stamp[d] /\ Stamp[e] < b
    BY <1>7 DEF Between
  <2>2. m \in Events /\ d <= m /\ m <= e BY <2>1, <1>4 DEF Events
  <2>3. Stamp[d] <= Stamp[m] /\ Stamp[m] <= Stamp[e] BY <2>1, <2>2, <1>4
  <2>4. Stamp[d] \in Nat /\ Stamp[m] \in Nat /\ Stamp[e] \in Nat /\ b \in Nat /\ h \in Int
    BY <2>1, <2>2, <1>4, TimesAreNumbers
  <2>5. h <= Stamp[m] /\ Stamp[m] < b BY <2>1, <2>3, <2>4
  <2> QED BY <2>2, <2>5, <1>7 DEF Between
<1>11. ASSUME NEW t \in Times, NEW j \in 1..Len(files[t]), NEW i \in 1..(j - 1),
              files[t][j].ev # 0
       PROVE  files[t][i].ev < files[t][j].ev
  BY <1>6, <1>11 DEF Ordered
<1>12. Consecutive BY <1>9, <1>10, <1>11, Zenon DEF Consecutive
<1> QED BY <1>3, <1>5, <1>12 DEF BatchesWhole

(* However batches and files are cut, whatever fails and wherever a sync   *)
(* is aborted: the files of a device that knows only getLog hold a stretch *)
(* of its log without gap and duplicate, all but the oldest begin with a   *)
(* snapshot, and what is trimmed from the dirty log is in the files or was *)
(* too old at the first sync.                                              *)
THEOREM BatchesAreWhole == MCSpec => []BatchesWhole
<1>1. MCInit => LInv BY LInitially DEF MCInit
<1>2. LInv /\ [MCNext]_allVars => LInv'
  <2>1. [MCNext]_allVars => [Next]_vars BY Zenon DEF MCNext, allVars
  <2> QED BY <2>1, LKept
<1> QED BY <1>1, <1>2, WholeFiles, PTL DEF MCSpec

-----------------------------------------------------------------------------
(* CheckLog: every file that can be read holds its interval of the log, no *)
(* two overlap, and the requests are for stretches between them.  What is  *)
(* in the dirty log of the time before a request is in a file already or   *)
(* is asked for by another one, so that trimming loses nothing.            *)

WholeFile(f, log, t) ==
  IF f.ok
  THEN /\ f.since < f.until /\ f.until <= t
       /\ f.recs = {e \in log : f.since <= e /\ e < f.until}
       /\ f.first => \A e \in log : f.since <= e
  ELSE f.until = 0

FilesRight(fs, log, t) ==
  /\ \A f \in fs : WholeFile(f, log, t)
  /\ \A f, g \in fs : (f.ok /\ g.ok /\ f # g) => f.until <= g.since \/ g.until <= f.since

DirtyRight(d, log, t) ==
  /\ d.lines = 0 => d = C!NoDirtyLog
  /\ d.begin <= t
  /\ \A e \in d.data : e \in log /\ d.begin < e

In(e, q) == q.since <= e /\ (q.until # 0 => e < q.until)

Before(q, r) == q.until # 0 /\ q.until <= r.since

Stretch(q, fs, t) ==
  /\ q.since <= t /\ q.until <= t
  /\ q.until # 0 => q.since < q.until
  /\ \A f \in fs : f.ok => f.until <= q.since \/ Before(q, f)

Known(e, fs, rs) == (\E f \in fs : f.ok /\ e \in f.recs) \/ (\E q \in rs : In(e, q))

RequestsRight(rs, fs, data, t) ==
  /\ \A q \in rs : Stretch(q, fs, t)
  /\ \A q, r \in rs : q # r => Before(q, r) \/ Before(r, q)
  /\ \A r \in rs : \A e \in data : e < r.since => Known(e, fs, rs)

CInv ==
  /\ C!TypeOK
  /\ FilesRight(clFiles, clLogged, now)
  /\ DirtyRight(clDirty, clLogged, now)
  /\ RequestsRight(requests, clFiles, clDirty.data, asked)
  /\ task = "none" => requests = {}

(* What the library counts and compares is what CheckLog does.             *)
LEMMA CountsAlike ==
  ASSUME NEW X
  PROVE  C!Cardinality(X) = Cardinality(X)
BY DEF C!Cardinality, Cardinality

(* A set of instants that is not empty has a greatest and a least one.     *)
LEMMA Extremes ==
  ASSUME NEW m \in Nat, NEW X \in SUBSET (0..m), X # {}
  PROVE  /\ C!Max(X) \in X /\ \A z \in X : z <= C!Max(X)
         /\ C!Min(X) \in X /\ \A z \in X : C!Min(X) <= z
<1> DEFINE Y == {m - x : x \in X}
<1>1. PICK x \in X : TRUE OBVIOUS
<1>2. X \in SUBSET Nat /\ Y \in SUBSET Nat BY SMT
<1>3. m - x \in Y BY <1>1
<1>4. PICK y \in Y : \A z \in Y : y <= z
  <2> HIDE DEF Y
  <2> QED BY <1>2, <1>3, HasLeast
<1>5. PICK a \in X : y = m - a BY <1>4
<1>6. \A z \in X : a >= z
  <2> TAKE z \in X
  <2>1. m - z \in Y OBVIOUS
  <2>2. y <= m - z BY <1>4, <2>1
  <2> QED BY <2>2, <1>5, <1>2
<1>7. PICK b \in X : \A z \in X : b <= z BY <1>1, <1>2, HasLeast
<1>8. C!Max(X) \in X /\ \A z \in X : C!Max(X) >= z BY <1>6, Zenon DEF C!Max
<1>9. C!Min(X) \in X /\ \A z \in X : C!Min(X) <= z BY <1>7, Zenon DEF C!Min
<1> QED BY <1>8, <1>9, <1>2

(* Of files, and of requests, one is the first and one is the last.        *)
LEMMA FirstAndLast ==
  ASSUME MaxNow \in Nat, NEW fs, fs # {}, \A f \in fs : f.since \in 0..MaxNow
  PROVE  /\ C!LastOf(fs) \in fs /\ \A g \in fs : g.since <= C!LastOf(fs).since
         /\ C!FirstOf(fs) \in fs /\ \A g \in fs : C!FirstOf(fs).since <= g.since
         /\ (CHOOSE r \in fs : \A q \in fs : r.since <= q.since) \in fs
         /\ \A q \in fs : (CHOOSE r \in fs : \A g \in fs : r.since <= g.since).since <= q.since
<1> DEFINE X == {f.since : f \in fs}
<1>1. X \in SUBSET (0..MaxNow) /\ X # {} OBVIOUS
<1>2. /\ C!Max(X) \in X /\ \A z \in X : z <= C!Max(X)
      /\ C!Min(X) \in X /\ \A z \in X : C!Min(X) <= z
  <2> HIDE DEF X
  <2> QED BY <1>1, Extremes
<1>3. PICK a \in fs : a.since = C!Max(X) BY <1>2
<1>4. PICK b \in fs : b.since = C!Min(X) BY <1>2
<1>5. \A g \in fs : g.since \in X OBVIOUS
<1>6. \A g \in fs : g.since <= a.since /\ b.since <= g.since BY <1>2, <1>3, <1>4, <1>5
<1>7. \A g \in fs : g.since >= b.since BY <1>6
<1>8. C!LastOf(fs) \in fs /\ \A g \in fs : g.since <= C!LastOf(fs).since
  BY <1>6, Zenon DEF C!LastOf
<1>9. C!FirstOf(fs) \in fs /\ \A g \in fs : g.since >= C!FirstOf(fs).since
  BY <1>7, Zenon DEF C!FirstOf
<1>10. C!FirstOf(fs) \in fs /\ \A g \in fs : C!FirstOf(fs).since <= g.since BY <1>9
<1>11. /\ (CHOOSE r \in fs : \A q \in fs : r.since <= q.since) \in fs
       /\ \A q \in fs : (CHOOSE r \in fs : \A g \in fs : r.since <= g.since).since <= q.since
  BY <1>6, Zenon
<1> QED BY <1>8, <1>10, <1>11

(* The answer to the first request, if a full one: all entries before the  *)
(* last of it; otherwise: all.                                             *)
FirstOnes(X, k) == {e \in X : C!Cardinality({d \in X : d < e}) < k}

(* The first k of a set of instants are all of it when there are fewer.    *)
LEMMA FirstOnesAre ==
  ASSUME NEW m \in Nat, NEW X \in SUBSET (0..m), NEW k \in Nat, k > 2
  PROVE  LET A == FirstOnes(X, k)
         IN /\ C!Cardinality(A) \in Nat
            /\ C!Cardinality(A) <= k
            /\ C!Cardinality(A) # k => A = X
            /\ A \in SUBSET X
            /\ C!Cardinality({}) = 0
            /\ A # {} => /\ C!Max(A) \in A /\ \A z \in A : z <= C!Max(A)
                         /\ C!Min(A) \in A /\ \A z \in X : C!Min(A) <= z
                         /\ \A e \in X : e <= C!Max(A) => e \in A
            /\ C!Cardinality(A) = k => A # {} /\ \E e \in A : e < C!Max(A)
            /\ X # {} => A # {}
<1> DEFINE A == FirstOnes(X, k)
           Less(e) == {d \in X : d < e}
<1>1. /\ X \subseteq Int /\ X \subseteq Nat /\ A \subseteq X BY SMT DEF FirstOnes
<1>2. IsFiniteSet(0..m) BY FS_Interval
<1>3. \A Y \in SUBSET X : IsFiniteSet(Y) /\ Cardinality(Y) \in Nat
  BY <1>2, FS_Subset, FS_CardinalityType
<1>4. \A e \in X : e \in A <=> Cardinality(Less(e)) < k
  BY CountsAlike DEF FirstOnes
<1>5. ASSUME NEW e \in X, NEW d \in X, d <= e
      PROVE  Cardinality(Less(d)) <= Cardinality(Less(e))
  <2>1. \A x \in X : x < d => x < e
    <3>1. d \in Int /\ e \in Int /\ \A x \in X : x \in Int BY <1>1
    <3> QED BY <3>1, <1>5
  <2>2. Less(d) \subseteq Less(e) BY <2>1
  <2>3. IsFiniteSet(Less(e)) BY <1>3
  <2> QED BY <2>2, <2>3, FS_Subset
<1>6. ASSUME NEW e \in A, NEW d \in X, d <= e PROVE d \in A
  <2>1. e \in X /\ d \in X BY <1>1
  <2>2. Cardinality(Less(d)) <= Cardinality(Less(e)) BY <2>1, <1>5, <1>6
  <2>3. Cardinality(Less(d)) \in Nat /\ Cardinality(Less(e)) \in Nat BY <1>3
  <2> QED BY <2>1, <2>2, <2>3, <1>4
<1> DEFINE top == C!Max(A)
<1>7. ASSUME A # {}
      PROVE  /\ top \in A /\ \A z \in A : z <= top
             /\ C!Min(A) \in A /\ \A z \in A : C!Min(A) <= z
             /\ Cardinality(A) = Cardinality(Less(top)) + 1
             /\ Cardinality(Less(top)) \in Nat /\ Cardinality(Less(top)) < k
  <2> HIDE DEF A
  <2>1. /\ top \in A /\ \A z \in A : z <= top
        /\ C!Min(A) \in A /\ \A z \in A : C!Min(A) <= z
    BY <1>1, <1>7, Extremes
  <2>2. top \in X /\ top \in Int /\ top \notin Less(top)
    <3> HIDE DEF top
    <3>1. top \in X /\ top \in Int BY <2>1, <1>1 DEF A, top
    <3> QED BY <3>1
  <2>3. A = Less(top) \cup {top}
    <3>1. \A e \in A : e \in X /\ e <= top BY <2>1, <1>1
    <3>2. \A e \in A : e < top \/ e = top
      <4> HIDE DEF top
      <4> QED BY <3>1, <2>2, <1>1
    <3>3. \A e \in X : e < top => e \in A
      <4> SUFFICES ASSUME NEW e \in X, e < top PROVE e \in A OBVIOUS
      <4>1. e <= top
        <5> HIDE DEF top
        <5> QED BY <2>2, <1>1
      <4> QED BY <4>1, <2>1, <1>6
    <3> HIDE DEF top
    <3> QED BY <3>1, <3>2, <3>3, <2>1
  <2>4. IsFiniteSet(Less(top)) /\ Cardinality(Less(top)) \in Nat BY <1>3
  <2>5. Cardinality(A) = Cardinality(Less(top)) + 1
    BY <2>2, <2>3, <2>4, FS_AddElement
  <2> QED BY <2>1, <2>2, <2>4, <2>5, <1>4
<1>8. Cardinality({}) = 0 BY FS_EmptySet
<1>9. Cardinality(A) \in Nat /\ Cardinality(A) <= k
  <2>1. Cardinality(A) \in Nat BY <1>1, <1>3
  <2>2. CASE A = {} BY <2>2, <1>8
  <2>3. CASE A # {} BY <2>3, <1>7
  <2> QED BY <2>1, <2>2, <2>3
<1>10. ASSUME A # X PROVE Cardinality(A) = k
  <2> DEFINE Z == X \ A
  <2>1. PICK z \in Z : TRUE BY <1>10, <1>1
  <2>2. Z \in SUBSET Nat BY <1>1
  <2>3. PICK y \in Z : \A w \in Z : y <= w
    <3> HIDE DEF Z
    <3> QED BY <2>1, <2>2, HasLeast
  <2>4. y \in X /\ y \notin A BY <2>3
  <2>5. A = Less(y)
    <3>1. ASSUME NEW e \in A PROVE e \in Less(y)
      <4>1. e \in X /\ e \in Nat /\ y \in Nat BY <1>1, <2>4
      <4>2. ~(y <= e) BY <2>4, <1>6
      <4> QED BY <4>1, <4>2
    <3>2. ASSUME NEW e \in Less(y) PROVE e \in A
      <4>1. e \in X /\ e \in Nat /\ y \in Nat /\ ~(y <= e) BY <1>1, <2>4
      <4>2. e \notin Z BY <4>1, <2>3
      <4> QED BY <4>1, <4>2
    <3> QED BY <3>1, <3>2
  <2>6. ~(Cardinality(Less(y)) < k) BY <2>4, <1>4
  <2>7. ~(Cardinality(A) < k) BY <2>5, <2>6
  <2> HIDE DEF A
  <2> QED BY <2>7, <1>9
<1>11. A # {} => /\ \A z \in X : C!Min(A) <= z
                 /\ \A e \in X : e <= top => e \in A
  <2> SUFFICES ASSUME A # {} PROVE /\ \A z \in X : C!Min(A) <= z
                                   /\ \A e \in X : e <= top => e \in A
    OBVIOUS
  <2>1. \A e \in X : e <= top => e \in A BY <1>6, <1>7
  <2>2. ASSUME NEW z \in X PROVE C!Min(A) <= z
    <3>1. CASE z \in A BY <3>1, <1>7
    <3>2. CASE z \notin A
      <4>1. ~(z <= top) /\ top \in Nat /\ z \in Nat /\ C!Min(A) \in Nat
        BY <3>2, <2>1, <1>7, <1>1
      <4>2. C!Min(A) <= top BY <1>7
      <4> HIDE DEF A, top
      <4> QED BY <4>1, <4>2
    <3> QED BY <3>1, <3>2
  <2> QED BY <2>1, <2>2
<1>12. ASSUME Cardinality(A) = k PROVE A # {} /\ \E e \in A : e < top
  <2>1. A # {} BY <1>12, <1>8
  <2>2. Cardinality(Less(top)) # 0 BY <2>1, <1>7, <1>12
  <2>3. Less(top) # {} BY <2>2, <1>8
  <2>4. PICK e \in X : e < top BY <2>3
  <2>5. e <= top
    <3>1. top \in Int /\ e \in Int BY <2>1, <1>7, <1>1
    <3> HIDE DEF top
    <3> QED BY <2>4, <3>1
  <2> QED BY <2>1, <2>4, <2>5, <1>11
<1>13. X # {} => A # {}
  <2> SUFFICES ASSUME X # {} PROVE A # {} OBVIOUS
  <2>1. CASE A = X BY <2>1
  <2>2. CASE A # X BY <2>2, <1>10, <1>12
  <2> QED BY <2>1, <2>2
<1>14. C!Cardinality(A) = Cardinality(A) /\ C!Cardinality({}) = Cardinality({})
  BY CountsAlike
<1>15. A \in SUBSET X BY <1>1
<1> HIDE DEF A
<1>16. /\ C!Cardinality(A) \in Nat
       /\ C!Cardinality(A) <= k
       /\ C!Cardinality(A) # k => A = X
       /\ A \in SUBSET X
       /\ C!Cardinality({}) = 0
       /\ A # {} => /\ C!Max(A) \in A /\ \A z \in A : z <= C!Max(A)
                    /\ C!Min(A) \in A /\ \A z \in X : C!Min(A) <= z
                    /\ \A e \in X : e <= C!Max(A) => e \in A
       /\ C!Cardinality(A) = k => A # {} /\ \E e \in A : e < C!Max(A)
       /\ X # {} => A # {}
  BY <1>7, <1>8, <1>9, <1>10, <1>11, <1>12, <1>13, <1>14, <1>15
<1> QED BY <1>16 DEF A

(* What the device has of the request r when the answer is given.          *)
Wanted(r, log, n) == {e \in log : e >= r.since /\ e <= n /\ (r.until # 0 => e < r.until)}

(* The first request, the end of an answer to it and what is kept of it.   *)
Size(n, until) == C!Cardinality(C!Kept(n, until)) + C!Marks(n)

(* The request under way is one of the earliest.                           *)
LEMMA FirstRequest ==
  ASSUME C!TypeOK, requests # {}
  PROVE  /\ C!Rq \in requests /\ \A q \in requests : C!Rq.since <= q.since
         /\ requests \subseteq C!Interval
         /\ \A q \in requests : q.since \in 0..MaxNow /\ q.until \in 0..MaxNow
<1>1. MaxNow \in Nat BY CheckAssumption DEF C!CheckLogAssumption
<1>2. requests \subseteq C!Interval BY DEF C!TypeOK
<1>3. \A q \in requests : q.since \in 0..MaxNow /\ q.until \in 0..MaxNow
  BY <1>1, <1>2 DEF C!Interval, C!Times, C!NoTime
<1>4. C!Rq \in requests /\ \A q \in requests : C!Rq.since <= q.since
  BY <1>1, <1>3, FirstAndLast, Zenon DEF C!Rq
<1> QED BY <1>2, <1>3, <1>4

(* The other requests are for what comes later.                            *)
LEMMA OthersLater ==
  ASSUME C!TypeOK, requests # {}, RequestsRight(requests, clFiles, clDirty.data, asked)
  PROVE  \A q \in requests : q # C!Rq => Before(C!Rq, q)
<1>1. /\ C!Rq \in requests /\ \A q \in requests : C!Rq.since <= q.since
      /\ \A q \in requests : q.since \in 0..MaxNow /\ q.until \in 0..MaxNow
  BY FirstRequest
<1>2. MaxNow \in Nat BY CheckAssumption DEF C!CheckLogAssumption
<1> SUFFICES ASSUME NEW q \in requests, q # C!Rq PROVE Before(C!Rq, q) OBVIOUS
<1>3. Before(C!Rq, q) \/ Before(q, C!Rq) BY <1>1 DEF RequestsRight
<1>4. q.until # 0 => q.since < q.until BY DEF RequestsRight, Stretch
<1> QED BY <1>1, <1>2, <1>3, <1>4 DEF Before

(* What is received of a request: the log from its start to u.             *)
LEMMA Answered ==
  ASSUME C!TypeOK, requests # {}, RequestsRight(requests, clFiles, clDirty.data, asked),
         NEW n \in asked..now, NEW u \in C!Untils(n), NEW r, r = C!Rq
  PROVE  /\ u \in 0..n
         /\ u = 0 => r.until = 0
         /\ u # 0 =>
              /\ r.until # 0 => u <= r.until
              /\ C!Kept(n, u) = {e \in clLogged : r.since <= e /\ e < u}
              /\ IF C!Cardinality(C!Answer(n)) + C!Marks(n) < Chunk
                 THEN r.until # 0 => u = r.until
                 ELSE C!Kept(n, u) # {} /\ (r.until # 0 => u < r.until)
              /\ Size(n, u) \in Nat
              /\ Size(n, u) = 0 => C!Kept(n, u) = {}
              /\ Size(n, u) # 0 => r.since < u
              /\ (Size(n, u) # 0 /\ r.since = 0) =>
                   /\ C!Min(C!Answer(n)) \in C!Kept(n, u)
                   /\ \A e \in clLogged : C!Min(C!Answer(n)) <= e
              /\ C!Kept(n, u) = {} /\ C!Marks(n) = 0 => Size(n, u) = 0
<1> DEFINE X == Wanted(r, clLogged, n)
           A == C!Answer(n)
           K == C!Kept(n, u)
<1>1. /\ MaxNow \in Nat /\ Chunk \in Nat /\ Chunk > 2
  BY CheckAssumption DEF C!CheckLogAssumption
<1>2. /\ now \in 1..MaxNow /\ clLogged \subseteq 1..now /\ asked \in 0..now
  BY DEF C!TypeOK, C!Times
<1>3. n \in Nat /\ asked <= n /\ n <= MaxNow /\ now \in Nat /\ asked \in Nat /\ n <= now
  BY <1>1, <1>2
<1>4. r \in requests /\ r.since \in 0..MaxNow /\ r.until \in 0..MaxNow BY FirstRequest
<1>5. r.since \in Nat /\ r.until \in Nat BY <1>1, <1>4
<1>6. r.until <= asked /\ (r.until # 0 => r.since < r.until)
  BY <1>4 DEF RequestsRight, Stretch
<1>7. A = FirstOnes(X, Chunk)
  BY DEF C!Answer, FirstOnes, Wanted, C!NoTime
<1>8. \A e \in clLogged : e \in Nat /\ e >= 1 /\ e <= MaxNow BY <1>1, <1>2
<1>9. X \in SUBSET (0..MaxNow) BY <1>1, <1>8 DEF Wanted
<1>10. \A e : e \in X <=> e \in clLogged /\ r.since <= e /\ e <= n /\ (r.until # 0 => e < r.until)
  BY <1>8, <1>5 DEF Wanted
<1>11. /\ C!Cardinality(A) \in Nat
       /\ C!Cardinality(A) <= Chunk
       /\ C!Cardinality(A) # Chunk => A = X
       /\ A \in SUBSET X
       /\ C!Cardinality({}) = 0
       /\ A # {} => /\ C!Max(A) \in A /\ \A z \in A : z <= C!Max(A)
                    /\ C!Min(A) \in A /\ \A z \in X : C!Min(A) <= z
                    /\ \A e \in X : e <= C!Max(A) => e \in A
       /\ C!Cardinality(A) = Chunk => A # {} /\ \E e \in A : e < C!Max(A)
       /\ X # {} => A # {}
  <2> HIDE DEF X, A
  <2> QED BY <1>1, <1>7, <1>9, FirstOnesAre
<1>12. K = A \ {u} BY DEF C!Kept
<1>13. /\ C!Marks(n) = IF A = {} /\ r.since # 0 /\ r.until # 0 THEN 2 ELSE 0
  BY DEF C!Marks, C!NoTime
<1>14. u \in IF C!Cardinality(A) = Chunk THEN {C!Max(A)}
             ELSE IF r.until # 0 THEN {r.until}
             ELSE IF A = {} THEN {0} ELSE {C!Max(A), n}
  BY DEF C!Untils, C!NoTime
<1>15. C!Cardinality(K) \in Nat /\ (C!Cardinality(K) = 0 <=> K = {})
  <2>1. K \subseteq 0..MaxNow
    <3> HIDE DEF X, A, K
    <3> QED BY <1>9, <1>11, <1>12
  <2>2. IsFiniteSet(0..MaxNow) BY <1>1, FS_Interval
  <2>4. IsFiniteSet(K) BY <2>1, <2>2, FS_Subset
  <2>3. C!Cardinality(K) = Cardinality(K) BY CountsAlike
  <2> QED BY <2>4, <2>3, FS_CardinalityType, FS_EmptySet
<1> HIDE DEF X, A, K
<1>16. \A e \in A : e \in X /\ e \in Nat /\ e <= n BY <1>10, <1>11, <1>8
<1>17. Size(n, u) = C!Cardinality(K) + C!Marks(n) BY DEF Size, K
<1>18. u \in 0..n /\ u \in Nat
  <2>1. A # {} => C!Max(A) \in Nat /\ C!Max(A) <= n BY <1>11, <1>16
  <2>2. r.until <= n BY <1>3, <1>5, <1>6
  <2> QED BY <2>1, <2>2, <1>14, <1>11, <1>5, <1>3
<1>19. u = 0 => r.until = 0
  <2>1. A # {} => C!Max(A) >= 1 /\ C!Max(A) # 0
    <3>1. \A e \in A : e >= 1 /\ e # 0 BY <1>16, <1>10, <1>8
    <3> QED BY <3>1, <1>11
  <2>2. n = 0 => A = {} BY <1>16, <1>10, <1>8
  <2> QED BY <2>1, <2>2, <1>14, <1>11, <1>1
<1>20. ASSUME u # 0, C!Cardinality(A) = Chunk
       PROVE  /\ r.until # 0 => u < r.until
              /\ K = {e \in clLogged : r.since <= e /\ e < u}
              /\ K # {} /\ C!Marks(n) = 0
  <2>1. u = C!Max(A) /\ A # {} /\ u \in A BY <1>20, <1>14, <1>11
  <2>2. u \in X /\ (r.until # 0 => u < r.until) BY <2>1, <1>16, <1>10
  <2>3. ASSUME NEW e \in clLogged, r.since <= e, e < u PROVE e \in K
    <3>1. e <= n /\ (r.until # 0 => e < r.until) BY <2>2, <2>3, <1>8, <1>18, <1>3, <1>5
    <3>2. e \in X /\ e <= u BY <3>1, <2>3, <1>10, <1>8, <1>18
    <3>3. e \in A BY <3>2, <2>1, <1>11
    <3> QED BY <3>3, <2>3, <1>12, <1>8
  <2>4. ASSUME NEW e \in K PROVE e \in clLogged /\ r.since <= e /\ e < u
    <3>1. e \in A /\ e # u BY <1>12
    <3>2. e <= u BY <3>1, <2>1, <1>11
    <3> QED BY <3>1, <3>2, <1>16, <1>10, <1>18
  <2>5. PICK e \in A : e < u BY <2>1, <1>11, <1>20
  <2>6. e \in K BY <2>5, <1>12, <1>16, <1>18
  <2> QED BY <2>1, <2>2, <2>3, <2>4, <2>6, <1>13
<1>21. ASSUME u # 0, C!Cardinality(A) # Chunk
       PROVE  /\ r.until # 0 => u = r.until
              /\ K = {e \in clLogged : r.since <= e /\ e < u}
              /\ C!Cardinality(A) + C!Marks(n) < Chunk
  <2>1. A = X BY <1>21, <1>11
  <2>2. r.until # 0 => u = r.until BY <1>21, <1>14
  <2>3. r.until = 0 => A # {} /\ (u = C!Max(A) \/ u = n) BY <1>21, <1>14
  <2>4. ASSUME NEW e \in clLogged, r.since <= e, e < u PROVE e \in K
    <3>1. e <= n /\ (r.until # 0 => e < r.until) BY <2>2, <2>4, <1>8, <1>18, <1>3
    <3>2. e \in X /\ e # u BY <3>1, <2>4, <1>10, <1>8, <1>18
    <3> QED BY <3>2, <2>1, <1>12
  <2>5. ASSUME NEW e \in K PROVE e \in clLogged /\ r.since <= e /\ e < u
    <3>1. e \in A /\ e \in X /\ e # u BY <1>12, <2>1
    <3>2. e <= u
      <4>1. r.until # 0 => e < u BY <3>1, <2>2, <1>10
      <4>2. r.until = 0 => e <= u BY <3>1, <2>3, <1>11, <1>10
      <4> QED BY <4>1, <4>2, <3>1, <1>16, <1>18
    <3> QED BY <3>1, <3>2, <1>16, <1>10, <1>18
  <2>6. C!Cardinality(A) + C!Marks(n) < Chunk
    BY <1>1, <1>11, <1>13, <1>21
  <2> QED BY <2>2, <2>4, <2>5, <2>6
<1>22. ASSUME u # 0
       PROVE  /\ r.until # 0 => u <= r.until
              /\ K = {e \in clLogged : r.since <= e /\ e < u}
              /\ IF C!Cardinality(A) + C!Marks(n) < Chunk
                 THEN r.until # 0 => u = r.until
                 ELSE K # {} /\ (r.until # 0 => u < r.until)
  <2>1. CASE C!Cardinality(A) = Chunk
    <3>1. ~(C!Cardinality(A) + C!Marks(n) < Chunk) BY <2>1, <1>1, <1>20, <1>22
    <3> QED BY <3>1, <2>1, <1>20, <1>22, <1>18, <1>5
  <2>2. CASE C!Cardinality(A) # Chunk
    BY <2>2, <1>21, <1>22, <1>18, <1>5
  <2> QED BY <2>1, <2>2
<1>23. /\ Size(n, u) \in Nat
       /\ Size(n, u) = 0 => K = {}
       /\ K = {} /\ C!Marks(n) = 0 => Size(n, u) = 0
  BY <1>13, <1>15, <1>17
<1>24. ASSUME u # 0, Size(n, u) # 0
       PROVE  /\ r.since < u
              /\ r.since = 0 => C!Min(A) \in K /\ \A e \in clLogged : C!Min(A) <= e
  <2>1. CASE K = {}
    <3>1. C!Marks(n) # 0 BY <2>1, <1>23, <1>24
    <3>2. A = {} /\ r.since # 0 /\ r.until # 0 BY <3>1, <1>13
    <3>3. C!Cardinality(A) # Chunk BY <3>2, <1>11, <1>1
    <3>4. u = r.until BY <3>2, <3>3, <1>21, <1>24
    <3> QED BY <3>2, <3>4, <1>6
  <2>2. CASE K # {}
    <3>1. PICK e \in K : TRUE BY <2>2
    <3>2. e \in A /\ e \in clLogged /\ r.since <= e /\ e < u BY <3>1, <1>12, <1>22, <1>24
    <3>3. r.since < u BY <3>2, <1>5, <1>8, <1>18
    <3>4. C!Min(A) \in A /\ C!Min(A) <= e /\ \A z \in X : C!Min(A) <= z BY <3>2, <1>11, <1>16
    <3>5. C!Min(A) \in Nat /\ C!Min(A) < u BY <3>2, <3>4, <1>16, <1>18
    <3>6. C!Min(A) \in K BY <3>4, <3>5, <1>12
    <3>7. ASSUME r.since = 0, NEW z \in clLogged PROVE C!Min(A) <= z
      <4>1. CASE z \in X BY <4>1, <3>4
      <4>2. CASE z \notin X
        <5>1. z > n \/ (r.until # 0 /\ z >= r.until)
          BY <4>2, <3>7, <1>10, <1>8, <1>3, <1>5
        <5>2. u <= n /\ (r.until # 0 => u <= r.until) BY <1>18, <1>22, <1>24
        <5> QED BY <5>1, <5>2, <3>5, <1>8, <1>3, <1>5, <1>18
      <4> QED BY <4>1, <4>2
    <3> QED BY <3>3, <3>6, <3>7
  <2> QED BY <2>1, <2>2
<1> QED BY <1>18, <1>19, <1>22, <1>23, <1>24 DEF A, K

(* What saving makes of the files fs: nothing is stored, a file that ends  *)
(* where the request begins goes on to u, or a new one ends at u.          *)
NewFile(h, log, r, u, kept) ==
  /\ h \in C!File /\ h.ok
  /\ h.until = u /\ h.recs = kept
  /\ r.since <= h.since /\ h.since < u
  /\ kept = {e \in log : h.since <= e /\ e < u}
  /\ h.first => \A e \in log : h.since <= e

LongerFile(f, h, r, u, kept) ==
  /\ f.ok /\ f.until = r.since /\ r.since < u
  /\ \E z \in Nat : h = [f EXCEPT !.until = u, !.recs = @ \cup kept, !.size = z]

Stored(fs, gs, log, r, u, kept) ==
  \/ gs = fs /\ kept = {}
  \/ \E f \in fs : \E h : LongerFile(f, h, r, u, kept) /\ gs = (fs \ {f}) \cup {h}
  \/ \E h : NewFile(h, log, r, u, kept) /\ gs = {f \in fs : f.since # h.since} \cup {h}

(* The fields of a file.                                                   *)
LEMMA FileFields ==
  ASSUME NEW f \in C!File
  PROVE  /\ MaxNow \in Nat
         /\ f.since \in 1..MaxNow /\ f.until \in 0..MaxNow
         /\ f.since \in Nat /\ f.until \in Nat /\ f.since # 0
         /\ f.recs \subseteq 1..MaxNow /\ f.size \in Nat
         /\ f.ok \in BOOLEAN /\ f.first \in BOOLEAN
<1>1. MaxNow \in Nat BY CheckAssumption DEF C!CheckLogAssumption
<1>2. f \in [since : 1..MaxNow, until : (1..MaxNow) \cup {0}, recs : SUBSET (1..MaxNow),
             size : Nat, first : BOOLEAN, ok : BOOLEAN]
  BY DEF C!File, C!Times, C!NoTime
<1> QED BY <1>1, <1>2

(* Right files, at the time t, and a request for what is between them, of  *)
(* which all up to u is kept.                                              *)
SaveAt(fs, gs, log, t, r, s, u, kept) ==
  /\ fs \subseteq C!File /\ log \subseteq 1..t /\ t \in Nat /\ t <= MaxNow
  /\ FilesRight(fs, log, t)
  /\ r.since \in Nat /\ r.until \in Nat /\ s \in Nat /\ Stretch(r, fs, s)
  /\ u \in 1..t /\ (r.until # 0 => u <= r.until)
  /\ kept = {e \in log : r.since <= e /\ e < u}
  /\ Stored(fs, gs, log, r, u, kept)

(* Files stored right stay right, and hold what they held.                 *)
LEMMA FilesStored ==
  ASSUME NEW fs, NEW gs, NEW log, NEW t, NEW r, NEW s, NEW u, NEW kept,
         SaveAt(fs, gs, log, t, r, s, u, kept)
  PROVE  /\ gs \subseteq C!File
         /\ FilesRight(gs, log, t)
         /\ \A g \in gs : g \in fs \/ g.until = u
         /\ \A e : (\E f \in fs : f.ok /\ e \in f.recs) => \E g \in gs : g.ok /\ e \in g.recs
         /\ \A e \in kept : \E g \in gs : g.ok /\ e \in g.recs
<1>0. /\ fs \subseteq C!File /\ log \subseteq 1..t /\ t \in Nat /\ t <= MaxNow
      /\ FilesRight(fs, log, t)
      /\ r.since \in Nat /\ r.until \in Nat /\ s \in Nat /\ Stretch(r, fs, s)
      /\ u \in 1..t /\ (r.until # 0 => u <= r.until)
      /\ kept = {e \in log : r.since <= e /\ e < u}
      /\ Stored(fs, gs, log, r, u, kept)
  BY Zenon DEF SaveAt
<1> USE <1>0
<1>1. /\ MaxNow \in Nat /\ u \in Nat /\ u # 0 /\ u <= t /\ log \subseteq Nat
  BY CheckAssumption DEF C!CheckLogAssumption
<1>2. \A f \in fs : /\ f.since \in Nat /\ f.until \in Nat /\ f \in C!File
                    /\ f.ok \in BOOLEAN
  BY FileFields
<1>3. \A f \in fs : WholeFile(f, log, t)
  BY DEF FilesRight
<1>4. \A f \in fs : f.ok =>
        /\ f.since < f.until
        /\ f.until <= r.since \/ (r.until # 0 /\ r.until <= f.since)
  BY <1>3, Zenon DEF WholeFile, Stretch, Before
<1>5. CASE gs = fs /\ kept = {} BY <1>5, Zenon
<1>6. ASSUME NEW f \in fs, NEW h, LongerFile(f, h, r, u, kept), gs = (fs \ {f}) \cup {h}
      PROVE  /\ gs \subseteq C!File
             /\ FilesRight(gs, log, t)
             /\ h.until = u /\ h.ok /\ f.recs \subseteq h.recs /\ kept \subseteq h.recs
  <2>1. f.ok /\ f.until = r.since /\ r.since < u BY <1>6 DEF LongerFile
  <2>2. PICK z \in Nat : h = [f EXCEPT !.until = u, !.recs = @ \cup kept, !.size = z]
    BY <1>6 DEF LongerFile
  <2>3. f \in [since : 1..MaxNow, until : (1..MaxNow) \cup {0}, recs : SUBSET (1..MaxNow),
               size : Nat, first : BOOLEAN, ok : BOOLEAN]
    BY <1>2 DEF C!File, C!Times, C!NoTime
  <2>4. /\ h.until = u /\ h.recs = f.recs \cup kept /\ h.since = f.since
        /\ h.first = f.first /\ h.ok = f.ok
    BY <2>2, <2>3
  <2>5. kept \subseteq 1..MaxNow /\ u \in 1..MaxNow
    <3>1. \A e \in 1..t : e \in 1..MaxNow BY <1>1
    <3> QED BY <3>1
  <2>6. h \in [since : 1..MaxNow, until : (1..MaxNow) \cup {0}, recs : SUBSET (1..MaxNow),
               size : Nat, first : BOOLEAN, ok : BOOLEAN]
    BY <2>2, <2>3, <2>5
  <2>7. gs \subseteq C!File BY <2>6, <1>6 DEF C!File, C!Times, C!NoTime
  <2>8. f.since < f.until /\ f.recs = {e \in log : f.since <= e /\ e < f.until}
        /\ (f.first => \A e \in log : f.since <= e)
    BY <1>3, <2>1, Zenon DEF WholeFile
  <2>9. h.recs = {e \in log : h.since <= e /\ e < u}
    <3>1. /\ f.since \in Nat /\ f.until \in Nat /\ u \in Nat /\ \A e \in log : e \in Nat
          /\ f.since < f.until /\ f.until < u
      BY <2>1, <2>8, <1>1, <1>2
    <3>2. \A e \in log : f.since <= e /\ e < u <=>
                         (f.since <= e /\ e < f.until) \/ (f.until <= e /\ e < u)
      BY <3>1
    <3>3. kept = {e \in log : f.until <= e /\ e < u} BY <2>1
    <3>4. f.recs = {e \in log : f.since <= e /\ e < f.until} BY <2>8
    <3>5. h.recs = {e \in log : f.since <= e /\ e < u} BY <2>4, <3>2, <3>3, <3>4, Zenon
    <3> QED BY <3>5, <2>4
  <2>10. h.since < u BY <2>1, <2>4, <2>8, <1>1, <1>2
  <2>11. WholeFile(h, log, t) BY <2>1, <2>4, <2>8, <2>9, <2>10, <1>1 DEF WholeFile
  <2>12. ASSUME NEW g \in fs, g # f, g.ok PROVE u <= g.since \/ g.until <= h.since
    <3>1. f.until <= g.since \/ g.until <= f.since
      BY <2>1, <2>12 DEF FilesRight
    <3>2. g.since < g.until BY <2>12, <1>4
    <3>3. g.until <= r.since \/ (r.until # 0 /\ r.until <= g.since) BY <2>12, <1>4
    <3>4. g.since \in Nat /\ g.until \in Nat /\ f.since \in Nat BY <1>2
    <3> QED BY <3>1, <3>2, <3>3, <3>4, <2>1, <2>4, <1>1
  <2>13. FilesRight(gs, log, t)
    <3>1. \A g \in gs : WholeFile(g, log, t) BY <1>3, <2>11, <1>6
    <3>2. ASSUME NEW g1 \in gs, NEW g2 \in gs, g1.ok, g2.ok, g1 # g2
          PROVE  g1.until <= g2.since \/ g2.until <= g1.since
      <4>1. CASE g1 \in fs /\ g2 \in fs BY <4>1, <3>2 DEF FilesRight
      <4>2. CASE g1 = h /\ g2 \in fs /\ g2 # f BY <4>2, <3>2, <2>12, <2>4
      <4>3. CASE g2 = h /\ g1 \in fs /\ g1 # f BY <4>3, <3>2, <2>12, <2>4
      <4> QED BY <4>1, <4>2, <4>3, <1>6, <3>2
    <3> QED BY <3>1, <3>2, Zenon DEF FilesRight
  <2> QED BY <2>1, <2>4, <2>7, <2>13
<1>7. ASSUME NEW h, NewFile(h, log, r, u, kept), gs = {f \in fs : f.since # h.since} \cup {h}
      PROVE  /\ gs \subseteq C!File
             /\ FilesRight(gs, log, t)
             /\ h.until = u /\ h.ok /\ h.recs = kept
             /\ \A f \in fs : f.ok => f \in gs
  <2>1. /\ h \in C!File /\ h.ok /\ h.until = u /\ h.recs = kept
        /\ r.since <= h.since /\ h.since < u
        /\ kept = {e \in log : h.since <= e /\ e < u}
        /\ h.first => \A e \in log : h.since <= e
    BY <1>7 DEF NewFile
  <2>2. h.since \in Nat BY <2>1, FileFields
  <2>3. WholeFile(h, log, t) BY <2>1, <1>1 DEF WholeFile
  <2>4. ASSUME NEW g \in fs, g.ok PROVE u <= g.since \/ g.until <= h.since
    <3>1. g.until <= r.since \/ (r.until # 0 /\ r.until <= g.since) BY <2>4, <1>4
    <3>2. g.since \in Nat /\ g.until \in Nat BY <1>2
    <3> QED BY <3>1, <3>2, <2>1, <2>2, <1>1
  <2>5. ASSUME NEW g \in fs, g.ok PROVE g.since # h.since
    BY <2>4, <2>5, <2>1, <2>2, <1>1, <1>2, <1>4
  <2>6. FilesRight(gs, log, t)
    <3>1. \A g \in gs : WholeFile(g, log, t) BY <1>3, <2>3, <1>7
    <3>2. ASSUME NEW g1 \in gs, NEW g2 \in gs, g1.ok, g2.ok, g1 # g2
          PROVE  g1.until <= g2.since \/ g2.until <= g1.since
      <4>1. CASE g1 \in fs /\ g2 \in fs BY <4>1, <3>2 DEF FilesRight
      <4>2. CASE g1 = h /\ g2 \in fs BY <4>2, <3>2, <2>4, <2>1
      <4>3. CASE g2 = h /\ g1 \in fs BY <4>3, <3>2, <2>4, <2>1
      <4> QED BY <4>1, <4>2, <4>3, <1>7, <3>2
    <3> QED BY <3>1, <3>2, Zenon DEF FilesRight
  <2> QED BY <2>1, <2>5, <2>6, <1>7
<1>8. CASE \E f \in fs : \E h : LongerFile(f, h, r, u, kept) /\ gs = (fs \ {f}) \cup {h}
  <2>1. PICK f \in fs : \E h : LongerFile(f, h, r, u, kept) /\ gs = (fs \ {f}) \cup {h}
    BY <1>8
  <2>2. PICK h : LongerFile(f, h, r, u, kept) /\ gs = (fs \ {f}) \cup {h} BY <2>1
  <2>3. /\ gs \subseteq C!File /\ FilesRight(gs, log, t)
        /\ h.until = u /\ h.ok /\ f.recs \subseteq h.recs /\ kept \subseteq h.recs
    BY <2>2, <1>6
  <2>4. h \in gs BY <2>2
  <2>5. ASSUME NEW e, NEW d \in fs, d.ok, e \in d.recs PROVE \E g \in gs : g.ok /\ e \in g.recs
    <3>1. CASE d = f BY <3>1, <2>3, <2>4, <2>5
    <3>2. CASE d # f
      <4>1. d \in gs BY <3>2, <2>2
      <4> QED BY <4>1, <2>5
    <3> QED BY <3>1, <3>2
  <2>6. \A g \in gs : g \in fs \/ g.until = u BY <2>2, <2>3
  <2>7. \A e \in kept : \E g \in gs : g.ok /\ e \in g.recs BY <2>3, <2>4
  <2> QED BY <2>3, <2>5, <2>6, <2>7
<1>9. CASE \E h : /\ NewFile(h, log, r, u, kept)
                  /\ gs = {f \in fs : f.since # h.since} \cup {h}
  <2>1. PICK h : NewFile(h, log, r, u, kept) /\ gs = {f \in fs : f.since # h.since} \cup {h}
    BY <1>9
  <2>2. /\ gs \subseteq C!File /\ FilesRight(gs, log, t)
        /\ h.until = u /\ h.ok /\ h.recs = kept
        /\ \A f \in fs : f.ok => f \in gs
    BY <2>1, <1>7
  <2>3. h \in gs BY <2>1
  <2>4. \A g \in gs : g \in fs \/ g.until = u BY <2>1, <2>2
  <2>5. \A e \in kept : \E g \in gs : g.ok /\ e \in g.recs BY <2>2, <2>3
  <2>6. \A e : (\E f \in fs : f.ok /\ e \in f.recs) => \E g \in gs : g.ok /\ e \in g.recs
    BY <2>2
  <2> QED BY <2>2, <2>4, <2>5, <2>6
<1> QED BY <1>5, <1>8, <1>9, Zenon DEF Stored

(* saveToNewFile and appendToPreviousFile store what is kept.              *)
LEMMA SavedIsStored ==
  ASSUME CInv, requests # {}, NEW n \in asked..now, NEW u \in C!Untils(n), u # 0
  PROVE  Stored(clFiles, C!Saved(n, u), clLogged, C!Rq, u, C!Kept(n, u))
<1> DEFINE r == C!Rq
           K == C!Kept(n, u)
           low == C!Min(C!Answer(n))
           since == IF r.since # 0 THEN r.since ELSE low
           h == [since |-> since, until |-> u, recs |-> K, size |-> Size(n, u),
                 first |-> r.since = 0, ok |-> TRUE]
<1>1. /\ C!TypeOK /\ RequestsRight(requests, clFiles, clDirty.data, asked)
      /\ \A f \in clFiles : WholeFile(f, clLogged, now)
  BY DEF CInv, FilesRight
<1>2. /\ K = {e \in clLogged : r.since <= e /\ e < u}
      /\ Size(n, u) \in Nat
      /\ Size(n, u) = 0 => K = {}
      /\ Size(n, u) # 0 => r.since < u
      /\ (Size(n, u) # 0 /\ r.since = 0) => low \in K /\ \A e \in clLogged : low <= e
      /\ u \in 0..n
  BY <1>1, Answered
<1>3. /\ MaxNow \in Nat /\ now \in 1..MaxNow /\ clLogged \subseteq 1..now
      /\ clFiles \subseteq C!File
  BY <1>1, CheckAssumption DEF C!CheckLogAssumption, C!TypeOK, C!Times
<1>4. r.since \in 0..MaxNow BY <1>1, FirstRequest
<1>5. C!Saved(n, u) =
        IF Size(n, u) = 0 THEN clFiles
        ELSE IF C!Continued # {}
        THEN (clFiles \ {CHOOSE g \in C!Continued : TRUE}) \cup
             {[(CHOOSE g \in C!Continued : TRUE) EXCEPT
                 !.until = u, !.recs = @ \cup K, !.size = @ + Size(n, u)]}
        ELSE {f \in clFiles : f.since # since} \cup {h}
  BY DEF C!Saved, Size, C!NoTime
<1>6. CASE Size(n, u) = 0 BY <1>2, <1>5, <1>6, Zenon DEF Stored
<1>7. CASE Size(n, u) # 0 /\ C!Continued # {}
  <2>1. PICK f : f = CHOOSE g \in C!Continued : TRUE OBVIOUS
  <2>2. f \in C!Continued BY <2>1, <1>7
  <2>3. f \in clFiles /\ f.until = r.since /\ r.since # 0
    BY <2>2 DEF C!Continued, C!FindFiles, C!Appends, C!NoTime
  <2>4. f.ok BY <2>3, <1>1 DEF WholeFile
  <2>5. f.size + Size(n, u) \in Nat BY <2>3, <1>2, <1>3, FileFields
  <2>6. PICK z \in Nat : z = f.size + Size(n, u) BY <2>5
  <2>7. PICK g : g = [f EXCEPT !.until = u, !.recs = @ \cup K, !.size = @ + Size(n, u)] OBVIOUS
  <2>8. g = [f EXCEPT !.until = u, !.recs = @ \cup K, !.size = z] BY <2>6, <2>7
  <2>9. LongerFile(f, g, r, u, K) BY <2>3, <2>4, <2>6, <2>8, <1>2, <1>7, Zenon DEF LongerFile
  <2>10. C!Saved(n, u) = (clFiles \ {f}) \cup {g} BY <1>5, <1>7, <2>1, <2>7, Zenon
  <2> QED BY <2>3, <2>9, <2>10, Zenon DEF Stored
<1>8. CASE Size(n, u) # 0 /\ C!Continued = {}
  <2>1. \A e \in clLogged : e \in 1..MaxNow /\ e \in Nat BY <1>3
  <2>2. since \in 1..MaxNow BY <1>2, <1>4, <1>8, <2>1
  <2>3. u \in 1..MaxNow /\ K \subseteq 1..MaxNow
    <3>1. K \subseteq clLogged BY <1>2
    <3>2. asked \in 0..now BY <1>1 DEF C!TypeOK
    <3>3. u \in Nat /\ u <= MaxNow BY <3>2, <1>2, <1>3
    <3> HIDE DEF K
    <3> QED BY <3>1, <3>3, <2>1
  <2>4. h \in C!File
    <3>1. h \in [since : 1..MaxNow, until : (1..MaxNow) \cup {0}, recs : SUBSET (1..MaxNow),
                 size : Nat, first : BOOLEAN, ok : BOOLEAN]
      <4> HIDE DEF since, K
      <4> QED BY <2>2, <2>3, <1>2
    <3> QED BY <3>1 DEF C!File, C!Times, C!NoTime
  <2>5. r.since <= since /\ since < u
    <3>1. r.since # 0 => r.since <= r.since BY <1>3, <1>4
    <3>2. r.since = 0 => low \in K /\ low < u /\ 0 <= low BY <1>2, <1>8, <2>1
    <3> QED BY <3>1, <3>2, <1>2, <1>8
  <2>6. K = {e \in clLogged : since <= e /\ e < u}
    <3>1. CASE r.since # 0 BY <3>1, <1>2
    <3>2. CASE r.since = 0
      <4>1. \A e \in clLogged : since <= e /\ 0 <= e BY <3>2, <1>2, <1>8, <2>1
      <4>2. K = {e \in clLogged : 0 <= e /\ e < u} BY <3>2, <1>2
      <4> HIDE DEF K, since
      <4> QED BY <4>1, <4>2
    <3> QED BY <3>1, <3>2
  <2>7. r.since = 0 => \A e \in clLogged : since <= e BY <1>2, <1>8
  <2>8. h.since = since /\ h.until = u /\ h.recs = K /\ h.ok = TRUE /\ h.first = (r.since = 0)
    OBVIOUS
  <2> HIDE DEF h, since, K
  <2>9. NewFile(h, clLogged, r, u, K)
    BY <2>4, <2>5, <2>6, <2>7, <2>8 DEF NewFile
  <2>10. C!Saved(n, u) = {f \in clFiles : f.since # h.since} \cup {h} BY <1>5, <1>8, <2>8
  <2> HIDE DEF r
  <2>11. \E g : /\ NewFile(g, clLogged, r, u, K)
                /\ C!Saved(n, u) = {f \in clFiles : f.since # g.since} \cup {g}
    BY <2>9, <2>10
  <2> QED BY <2>11, Zenon DEF Stored, r, K
<1> QED BY <1>6, <1>7, <1>8

(* Trimming takes what is not after the new beginning of the dirty log.    *)
LEMMA TrimmedIs ==
  ASSUME C!TypeOK, DirtyRight(clDirty, clLogged, now), NEW n, NEW u \in 1..now,
         NEW d, d = C!DirtyAfter(n, u)
  PROVE  /\ d \in C!DirtyLog /\ DirtyRight(d, clLogged, now)
         /\ d.data \subseteq clDirty.data
         /\ \A e \in clDirty.data \ d.data : d.begin = u /\ e <= u
<1>1. /\ MaxNow \in Nat /\ now \in 1..MaxNow /\ clLogged \subseteq 1..now
      /\ clDirty \in C!DirtyLog
  BY CheckAssumption DEF C!CheckLogAssumption, C!TypeOK, C!Times
<1>2. CASE d = clDirty BY <1>1, <1>2
<1>3. CASE d # clDirty
  <2>1. d = C!TrimmedDirtyLog(clDirty, u) BY <1>3 DEF C!DirtyAfter
  <2> DEFINE data == {e \in clDirty.data : e > u}
  <2>2. d = [begin |-> u, data |-> data, gone |-> FALSE, lines |-> 1 + C!Cardinality(data)]
    BY <2>1, <1>3 DEF C!TrimmedDirtyLog
  <2>3. clDirty.data \subseteq 1..MaxNow /\ clDirty.data \subseteq clLogged
    BY <1>1 DEF C!DirtyLog, C!Times, DirtyRight
  <2>4. C!Cardinality(data) \in Nat
    <3>1. data \subseteq 1..MaxNow BY <2>3
    <3>2. IsFiniteSet(1..MaxNow) BY <1>1, FS_Interval
    <3>3. IsFiniteSet(data) BY <3>1, <3>2, FS_Subset
    <3> QED BY <3>3, CountsAlike, FS_CardinalityType
  <2>5. d \in C!DirtyLog
    <3>1. u \in 1..MaxNow /\ data \subseteq 1..MaxNow BY <1>1, <2>3
    <3> HIDE DEF data
    <3> QED BY <2>2, <2>4, <3>1 DEF C!DirtyLog, C!Times, C!NoTime
  <2>6. d.begin = u /\ d.data = data /\ d.lines # 0 BY <2>2, <2>4
  <2>7. DirtyRight(d, clLogged, now) BY <2>3, <2>6, <1>1 DEF DirtyRight
  <2>8. \A e \in clDirty.data : e \notin data => e <= u BY <2>3, <1>1
  <2> QED BY <2>5, <2>6, <2>7, <2>8
<1> QED BY <1>2, <1>3

(* What a chunk leaves in the files, whichever entries there were.           *)
LEMMA SavedIsRight ==
  ASSUME CInv, requests # {}, NEW n \in asked..now, NEW u \in C!Untils(n), u # 0,
         NEW gs, gs = C!Saved(n, u), NEW r, r = C!Rq
  PROVE  /\ gs \subseteq C!File
         /\ FilesRight(gs, clLogged, now)
         /\ \A g \in gs : g \in clFiles \/ g.until = u
         /\ \A e : (\E f \in clFiles : f.ok /\ e \in f.recs) =>
                  \E g \in gs : g.ok /\ e \in g.recs
         /\ \A e \in C!Kept(n, u) : \E g \in gs : g.ok /\ e \in g.recs
<1> DEFINE K == C!Kept(n, u)
           full == ~(C!Cardinality(C!Answer(n)) + C!Marks(n) < Chunk)
<1>1. /\ C!TypeOK /\ RequestsRight(requests, clFiles, clDirty.data, asked)
      /\ FilesRight(clFiles, clLogged, now) /\ DirtyRight(clDirty, clLogged, now)
  BY DEF CInv
<1>2. /\ MaxNow \in Nat /\ now \in 1..MaxNow /\ clLogged \subseteq 1..now
      /\ clFiles \subseteq C!File /\ now \in Nat /\ now <= MaxNow
      /\ asked \in Nat /\ asked <= now
  BY <1>1, CheckAssumption DEF C!CheckLogAssumption, C!TypeOK, C!Times
<1>3. /\ r \in requests /\ requests \subseteq C!Interval
      /\ \A q \in requests : /\ q.since \in 0..MaxNow /\ q.until \in 0..MaxNow
                             /\ r.since <= q.since
  BY <1>1, FirstRequest
<1>4. \A q \in requests : q.since \in Nat /\ q.until \in Nat BY <1>2, <1>3
<1>5. /\ u \in 0..n
      /\ r.until # 0 => u <= r.until
      /\ K = {e \in clLogged : r.since <= e /\ e < u}
      /\ full => K # {} /\ (r.until # 0 => u < r.until)
      /\ ~full => (r.until # 0 => u = r.until)
  BY <1>1, Answered
<1>6. u \in 1..now /\ u \in Nat /\ u <= now BY <1>5, <1>2
<1>7. \A q \in requests : q # r => Before(r, q) BY <1>1, OthersLater
<1>8. /\ gs \subseteq C!File
      /\ FilesRight(gs, clLogged, now)
      /\ \A g \in gs : g \in clFiles \/ g.until = u
      /\ \A e : (\E f \in clFiles : f.ok /\ e \in f.recs) => \E g \in gs : g.ok /\ e \in g.recs
      /\ \A e \in K : \E g \in gs : g.ok /\ e \in g.recs
  <2>1. Stored(clFiles, gs, clLogged, r, u, K) BY SavedIsStored
  <2>2. Stretch(r, clFiles, asked) BY <1>1, <1>3 DEF RequestsRight
  <2>3. r.since \in Nat /\ r.until \in Nat BY <1>3, <1>4
  <2>4. K = {e \in clLogged : r.since <= e /\ e < u} BY <1>5
  <2>5. r.until # 0 => u <= r.until BY <1>5
  <2> HIDE DEF K
  <2>6. PICK fs, log, t, s, kept :
          fs = clFiles /\ log = clLogged /\ t = now /\ s = asked /\ kept = K
    OBVIOUS
  <2>7. SaveAt(fs, gs, log, t, r, s, u, kept)
    <3>1. /\ fs \subseteq C!File /\ log \subseteq 1..t /\ t <= MaxNow /\ FilesRight(fs, log, t)
          /\ Stretch(r, fs, s) /\ u \in 1..t /\ kept = {e \in log : r.since <= e /\ e < u}
          /\ Stored(fs, gs, log, r, u, kept) /\ t \in Nat /\ s \in Nat
      BY <2>1, <2>2, <2>4, <2>6, <1>1, <1>2, <1>6
    <3> QED BY <2>3, <2>5, <3>1, Zenon DEF SaveAt
  <2>8. /\ gs \subseteq C!File
        /\ FilesRight(gs, log, t)
        /\ \A g \in gs : g \in fs \/ g.until = u
        /\ \A e : (\E f \in fs : f.ok /\ e \in f.recs) => \E g \in gs : g.ok /\ e \in g.recs
        /\ \A e \in kept : \E g \in gs : g.ok /\ e \in g.recs
    BY <2>7, FilesStored
  <2> QED BY <2>6, <2>8
<1> QED BY <1>8

(* A chunk leaves files, dirty log and requests right.                     *)
LEMMA ChunkKeeps ==
  ASSUME CInv, requests # {}, NEW n \in asked..now, NEW u \in C!Untils(n), u # 0,
         NEW gs, gs = C!Saved(n, u), NEW d, d = C!DirtyAfter(n, u),
         NEW r, r = C!Rq, NEW more, more = [r EXCEPT !.since = u]
  PROVE  /\ gs \subseteq C!File /\ FilesRight(gs, clLogged, now)
         /\ d \in C!DirtyLog /\ DirtyRight(d, clLogged, now)
         /\ C!Cardinality(C!Answer(n)) + C!Marks(n) < Chunk =>
              RequestsRight(requests \ {r}, gs, d.data, now)
         /\ ~(C!Cardinality(C!Answer(n)) + C!Marks(n) < Chunk) =>
              /\ more \in C!Interval
              /\ RequestsRight((requests \ {r}) \cup {more}, gs, d.data, now)
         /\ \A e \in clDirty.data \ d.data : e = d.begin \/ \E f \in gs : e \in f.recs
<1> DEFINE K == C!Kept(n, u)
           full == ~(C!Cardinality(C!Answer(n)) + C!Marks(n) < Chunk)
<1>1. /\ C!TypeOK /\ RequestsRight(requests, clFiles, clDirty.data, asked)
      /\ FilesRight(clFiles, clLogged, now) /\ DirtyRight(clDirty, clLogged, now)
  BY DEF CInv
<1>2. /\ MaxNow \in Nat /\ now \in 1..MaxNow /\ clLogged \subseteq 1..now
      /\ clFiles \subseteq C!File /\ now \in Nat /\ now <= MaxNow
      /\ asked \in Nat /\ asked <= now
  BY <1>1, CheckAssumption DEF C!CheckLogAssumption, C!TypeOK, C!Times
<1>3. /\ r \in requests /\ requests \subseteq C!Interval
      /\ \A q \in requests : /\ q.since \in 0..MaxNow /\ q.until \in 0..MaxNow
                             /\ r.since <= q.since
  BY <1>1, FirstRequest
<1>4. \A q \in requests : q.since \in Nat /\ q.until \in Nat BY <1>2, <1>3
<1>5. /\ u \in 0..n
      /\ r.until # 0 => u <= r.until
      /\ K = {e \in clLogged : r.since <= e /\ e < u}
      /\ full => K # {} /\ (r.until # 0 => u < r.until)
      /\ ~full => (r.until # 0 => u = r.until)
  BY <1>1, Answered
<1>6. u \in 1..now /\ u \in Nat /\ u <= now BY <1>5, <1>2
<1>7. \A q \in requests : q # r => Before(r, q) BY <1>1, OthersLater
<1>8. /\ gs \subseteq C!File
      /\ FilesRight(gs, clLogged, now)
      /\ \A g \in gs : g \in clFiles \/ g.until = u
      /\ \A e : (\E f \in clFiles : f.ok /\ e \in f.recs) => \E g \in gs : g.ok /\ e \in g.recs
      /\ \A e \in K : \E g \in gs : g.ok /\ e \in g.recs
  BY SavedIsRight
<1>9. /\ d \in C!DirtyLog /\ DirtyRight(d, clLogged, now)
      /\ d.data \subseteq clDirty.data
      /\ \A e \in clDirty.data \ d.data : d.begin = u /\ e <= u
  BY <1>1, <1>6, TrimmedIs
<1>10. \A e \in clDirty.data : e \in clLogged /\ e \in Nat
  BY <1>1, <1>2 DEF DirtyRight
<1> HIDE DEF K, full
\* what is not after the end of the chunk is in a file now
<1>11. ASSUME NEW e \in clDirty.data, e < u PROVE \E g \in gs : g.ok /\ e \in g.recs
  <2>1. CASE r.since <= e BY <2>1, <1>5, <1>8, <1>10, <1>11
  <2>2. CASE ~(r.since <= e)
    <3>1. e < r.since BY <2>2, <1>3, <1>4, <1>10
    <3>2. Known(e, clFiles, requests) BY <3>1, <1>1, <1>3 DEF RequestsRight
    <3>3. ~\E q \in requests : In(e, q) BY <3>1, <1>3, <1>4, <1>10 DEF In
    <3> QED BY <3>2, <3>3, <1>8 DEF Known
  <2> QED BY <2>1, <2>2
<1>12. ASSUME NEW q \in requests, q # r PROVE Stretch(q, gs, now) /\ u <= q.since
  <2>1. Stretch(q, clFiles, asked) BY <1>1 DEF RequestsRight
  <2>2. u <= q.since
    <3>1. r.until # 0 /\ r.until <= q.since BY <1>7, <1>12 DEF Before
    <3> QED BY <3>1, <1>3, <1>4, <1>5, <1>6
  <2>3. \A g \in gs : g.ok => g.until <= q.since \/ Before(q, g)
    BY <2>1, <2>2, <1>8 DEF Stretch
  <2>4. q.since <= now /\ q.until <= now
    BY <2>1, <1>2, <1>4 DEF Stretch
  <2> QED BY <2>1, <2>2, <2>3, <2>4 DEF Stretch
<1>13. ASSUME NEW q \in requests, NEW e \in d.data, e < q.since
       PROVE  \/ \E g \in gs : g.ok /\ e \in g.recs
              \/ \E p \in requests : p # r /\ In(e, p)
              \/ In(e, r) /\ ~(e < u)
  <2>1. e \in clDirty.data BY <1>9
  <2>2. Known(e, clFiles, requests) BY <2>1, <1>1, <1>13 DEF RequestsRight
  <2> QED BY <2>1, <2>2, <1>8, <1>11 DEF Known
<1>14. ASSUME ~full PROVE RequestsRight(requests \ {r}, gs, d.data, now)
  <2>1. \A q \in requests \ {r} : Stretch(q, gs, now) BY <1>12
  <2>2. \A p, q \in requests \ {r} : p # q => Before(p, q) \/ Before(q, p)
    BY <1>1 DEF RequestsRight
  <2>3. ASSUME NEW q \in requests \ {r}, NEW e \in d.data, e < q.since
        PROVE  Known(e, gs, requests \ {r})
    <3>1. r.until # 0 /\ u = r.until BY <1>5, <1>7, <1>14, <2>3 DEF Before
    <3>2. ~(In(e, r) /\ ~(e < u)) BY <3>1 DEF In
    <3> QED BY <3>2, <1>13, <2>3 DEF Known
  <2> QED BY <2>1, <2>2, <2>3, Zenon DEF RequestsRight
<1>15. ASSUME full
       PROVE  /\ more \in C!Interval
              /\ RequestsRight((requests \ {r}) \cup {more}, gs, d.data, now)
  <2>1. more.since = u /\ more.until = r.until /\ more \in C!Interval
    <3>1. r \in [since : (1..MaxNow) \cup {0}, until : (1..MaxNow) \cup {0}]
      BY <1>3 DEF C!Interval, C!Times, C!NoTime
    <3>2. u \in 1..MaxNow BY <1>2, <1>6
    <3> QED BY <3>1, <3>2 DEF C!Interval, C!Times, C!NoTime
  <2>2. r.since < u
    <3>1. PICK e \in K : TRUE BY <1>5, <1>15
    <3> QED BY <3>1, <1>2, <1>3, <1>4, <1>5, <1>6
  <2>3. Stretch(more, gs, now)
    <3>1. Stretch(r, clFiles, asked) BY <1>1, <1>3 DEF RequestsRight
    <3>2. more.since <= now /\ more.until <= now
      BY <3>1, <2>1, <1>2, <1>3, <1>4, <1>6 DEF Stretch
    <3>3. more.until # 0 => more.since < more.until BY <2>1, <1>5, <1>15
    <3>4. ASSUME NEW g \in gs, g.ok PROVE g.until <= more.since \/ Before(more, g)
      <4>1. CASE g.until = u BY <4>1, <2>1, <1>6
      <4>2. CASE g \in clFiles
        <5>1. g.until <= r.since \/ Before(r, g) BY <4>2, <3>1, <3>4 DEF Stretch
        <5>2. g.until \in Nat /\ r.since \in Nat BY <4>2, <1>2, <1>3, <1>4, FileFields
        <5> QED BY <5>1, <5>2, <2>1, <2>2, <1>6 DEF Before
      <4> QED BY <4>1, <4>2, <1>8
    <3> QED BY <3>2, <3>3, <3>4 DEF Stretch
  <2>4. \A q \in requests : q # r => Before(more, q)
    BY <2>1, <1>7 DEF Before
  <2> DEFINE rs == (requests \ {r}) \cup {more}
  <2>5. \A q \in rs : Stretch(q, gs, now) BY <1>12, <2>3
  <2>6. \A p, q \in rs : p # q => Before(p, q) \/ Before(q, p)
    <3>1. \A p, q \in requests : p # q => Before(p, q) \/ Before(q, p)
      BY <1>1, Zenon DEF RequestsRight
    <3> SUFFICES ASSUME NEW p \in rs, NEW q \in rs, p # q PROVE Before(p, q) \/ Before(q, p)
      OBVIOUS
    <3>2. CASE p \in requests /\ q \in requests BY <3>1, <3>2
    <3>3. CASE p = more /\ q \in requests /\ q # r BY <3>3, <2>4
    <3>4. CASE q = more /\ p \in requests /\ p # r BY <3>4, <2>4
    <3> QED BY <3>2, <3>3, <3>4
  <2>7. ASSUME NEW e, In(e, r), ~(e < u), e \in Nat PROVE In(e, more)
    BY <2>1, <2>7, <1>6 DEF In
  <2>8. \A e \in d.data : e \in Nat /\ e \in clDirty.data BY <1>9, <1>10
  <2>9. ASSUME NEW q \in rs, NEW e \in d.data, e < q.since PROVE Known(e, gs, rs)
    <3>1. CASE q \in requests BY <3>1, <1>13, <2>7, <2>8, <2>9 DEF Known
    <3>2. CASE q = more BY <3>2, <2>1, <2>8, <2>9, <1>11 DEF Known
    <3> QED BY <3>1, <3>2
  <2>10. RequestsRight(rs, gs, d.data, now)
    <3> HIDE DEF rs
    <3> QED BY <2>5, <2>6, <2>9, Zenon DEF RequestsRight
  <2> QED BY <2>1, <2>10
<1>16. ASSUME NEW e \in clDirty.data \ d.data PROVE e = d.begin \/ \E f \in gs : e \in f.recs
  <2>1. d.begin = u /\ e <= u /\ e \in Nat BY <1>9, <1>10
  <2>2. e = u \/ e < u BY <2>1, <1>6
  <2> QED BY <2>1, <2>2, <1>11
<1> QED BY <1>8, <1>9, <1>14, <1>15, <1>16 DEF full

(* The end of the files fs, or a later time b.                             *)
EndOf(b, fs) == C!Max({b} \cup {f.until : f \in fs})

(* The greatest of b and the ends of the files fs.                         *)
LEMMA EndIs ==
  ASSUME NEW fs, fs \subseteq C!File, NEW b \in 0..MaxNow
  PROVE  /\ EndOf(b, fs) \in 0..MaxNow /\ EndOf(b, fs) \in Nat
         /\ b <= EndOf(b, fs) /\ \A f \in fs : f.until <= EndOf(b, fs)
         /\ EndOf(b, fs) = b \/ \E f \in fs : EndOf(b, fs) = f.until
<1> DEFINE X == {b} \cup {f.until : f \in fs}
<1>1. MaxNow \in Nat BY CheckAssumption DEF C!CheckLogAssumption
<1>2. \A f \in fs : f.until \in 0..MaxNow BY FileFields
<1>3. X \in SUBSET (0..MaxNow) /\ X # {} BY <1>2
<1>4. C!Max(X) \in X /\ \A z \in X : z <= C!Max(X)
  <2> HIDE DEF X
  <2> QED BY <1>1, <1>3, Extremes
<1>5. \A f \in fs : f.until \in X OBVIOUS
<1>6. C!Max(X) \in 0..MaxNow /\ C!Max(X) \in Nat BY <1>1, <1>3, <1>4
<1> QED BY <1>4, <1>5, <1>6 DEF EndOf

(* Of files that do not overlap each ends before the next one, and what is *)
(* before the end of the last is in a file, before the first or in a gap.  *)
LEMMA Gaps ==
  ASSUME NEW fs, NEW log, NEW t, fs \subseteq C!File, fs # {}, FilesRight(fs, log, t),
         \A f \in fs : f.ok
  PROVE  /\ C!FirstOf(fs) \in fs /\ \A f \in fs : C!FirstOf(fs).since <= f.since
         /\ C!LastOf(fs) \in fs /\ C!LastOf(fs).until = EndOf(0, fs)
         /\ \A f \in fs : C!After(fs, f) # {} =>
              /\ C!NextOf(fs, f) \in fs /\ f.until <= C!NextOf(fs, f).since
              /\ \A g \in fs : g.until <= f.until \/ C!NextOf(fs, f).since <= g.since
         /\ \A e \in Nat : e < EndOf(0, fs) =>
              \/ e < C!FirstOf(fs).since
              \/ \E f \in fs : f.since <= e /\ e < f.until
              \/ \E f \in fs : C!After(fs, f) # {} /\ f.until <= e /\ e < C!NextOf(fs, f).since
<1>1. MaxNow \in Nat BY CheckAssumption DEF C!CheckLogAssumption
<1>2. \A f \in fs : f.since \in 0..MaxNow /\ f.since \in Nat /\ f.until \in Nat
  BY <1>1, FileFields
<1>3. \A f \in fs : f.since < f.until BY DEF FilesRight, WholeFile
<1>4. \A f, g \in fs : f # g => f.until <= g.since \/ g.until <= f.since BY DEF FilesRight
<1>5. \A f, g \in fs : f.since < g.since => f.until <= g.since BY <1>2, <1>3, <1>4
<1>6. \A f, g \in fs : f.since <= g.since => f.until <= g.until BY <1>2, <1>3, <1>4
<1>7. /\ C!FirstOf(fs) \in fs /\ \A f \in fs : C!FirstOf(fs).since <= f.since
      /\ C!LastOf(fs) \in fs /\ \A f \in fs : f.since <= C!LastOf(fs).since
  BY <1>1, <1>2, FirstAndLast
<1> DEFINE end == EndOf(0, fs)
<1>8. end \in Nat /\ (\A f \in fs : f.until <= end) /\ \E f \in fs : end = f.until
  <2>1. /\ end \in 0..MaxNow /\ end \in Nat /\ \A f \in fs : f.until <= end
        /\ end = 0 \/ \E f \in fs : end = f.until
    BY <1>1, EndIs
  <2>2. PICK f \in fs : TRUE OBVIOUS
  <2>3. end # 0 BY <2>1, <2>2, <1>2, <1>3
  <2> QED BY <2>1, <2>3
<1> HIDE DEF end
<1>9. C!LastOf(fs).until = end
  <2>1. PICK f \in fs : end = f.until BY <1>8
  <2>2. end <= C!LastOf(fs).until BY <2>1, <1>6, <1>7
  <2> QED BY <2>2, <1>2, <1>7, <1>8
<1>10. \A f, g \in fs : g \in C!After(fs, f) <=> f.since < g.since BY <1>2 DEF C!After
<1>11. ASSUME NEW f \in fs, C!After(fs, f) # {}
       PROVE  /\ C!NextOf(fs, f) \in fs /\ f.since < C!NextOf(fs, f).since
              /\ \A g \in fs : f.since < g.since => C!NextOf(fs, f).since <= g.since
  <2> DEFINE later == C!After(fs, f)
  <2>1. later \subseteq fs BY DEF C!After
  <2>2. C!FirstOf(later) \in later /\ \A g \in later : C!FirstOf(later).since <= g.since
    <3> HIDE DEF later
    <3> QED BY <2>1, <1>1, <1>2, <1>11, FirstAndLast DEF later
  <2>3. C!NextOf(fs, f) = C!FirstOf(later) BY DEF C!NextOf
  <2> QED BY <2>1, <2>2, <2>3, <1>10
<1>12. ASSUME NEW f \in fs, C!After(fs, f) # {}
       PROVE  /\ C!NextOf(fs, f) \in fs /\ f.until <= C!NextOf(fs, f).since
              /\ \A g \in fs : g.until <= f.until \/ C!NextOf(fs, f).since <= g.since
  <2>1. ASSUME NEW g \in fs PROVE g.until <= f.until \/ C!NextOf(fs, f).since <= g.since
    <3>1. CASE g.since <= f.since BY <3>1, <1>6
    <3>2. CASE ~(g.since <= f.since) BY <3>2, <1>2, <1>11, <1>12
    <3> QED BY <3>1, <3>2
  <2> QED BY <2>1, <1>5, <1>11, <1>12
<1>13. ASSUME NEW e \in Nat, e < end, ~(e < C!FirstOf(fs).since)
       PROVE  \/ \E f \in fs : f.since <= e /\ e < f.until
              \/ \E f \in fs : C!After(fs, f) # {} /\ f.until <= e /\ e < C!NextOf(fs, f).since
  <2> DEFINE older == {g \in fs : g.since <= e}
             f == C!LastOf(older)
  <2>1. C!FirstOf(fs) \in older BY <1>2, <1>7, <1>13
  <2>2. f \in older /\ \A g \in older : g.since <= f.since
    <3>1. older # {} /\ \A g \in older : g.since \in 0..MaxNow BY <2>1, <1>2
    <3> HIDE DEF older
    <3> QED BY <3>1, <1>1, FirstAndLast
  <2>3. f \in fs /\ f.since <= e BY <2>2
  <2> HIDE DEF f
  <2>4. CASE e < f.until BY <2>3, <2>4
  <2>5. CASE ~(e < f.until)
    <3>1. f.until <= e BY <2>3, <2>5, <1>2
    <3>2. C!After(fs, f) # {}
      <4>1. PICK g \in fs : end = g.until BY <1>8
      <4>2. ~(g.until <= f.until) BY <4>1, <3>1, <2>3, <1>2, <1>13, <1>8
      <4>3. f.since < g.since BY <4>2, <2>3, <1>2, <1>6
      <4> QED BY <4>3, <2>3, <1>10
    <3>3. C!NextOf(fs, f) \in fs /\ f.since < C!NextOf(fs, f).since BY <2>3, <3>2, <1>11
    <3>4. C!NextOf(fs, f) \notin older
      <4>1. f.since \in Nat /\ C!NextOf(fs, f).since \in Nat BY <2>3, <3>3, <1>2
      <4>2. ~(C!NextOf(fs, f).since <= f.since) BY <4>1, <3>3
      <4> HIDE DEF older
      <4> QED BY <4>2, <2>2
    <3>5. e < C!NextOf(fs, f).since BY <3>3, <3>4, <1>2
    <3> QED BY <2>3, <3>1, <3>2, <3>5
  <2> QED BY <2>4, <2>5
<1> QED BY <1>7, <1>9, <1>12, <1>13 DEF end

(* The requests of a check: they are for stretches between the files, and  *)
(* together with the files they are for all that is logged.                *)
LEMMA RequestsMade ==
  ASSUME CInv, NEW kind, NEW fs, fs = {f \in clFiles : f.ok}, NEW todo,
         todo = C!Missing(kind, fs)
                \cup (IF kind = "CheckDirtyLogState" THEN C!Replaced(fs) ELSE {}),
         kind \in {"ReplaceDirtyLog", "CheckDirtyLogState"}
  PROVE  /\ todo \subseteq C!Interval
         /\ RequestsRight(todo, fs, clDirty.data, now)
<1> DEFINE first == C!FirstOf(fs)
           end == EndOf(0, fs)
           begin == clDirty.begin
           late == EndOf(begin, fs)
           head == IF fs = {} \/ first.first THEN {} ELSE {[since |-> 0, until |-> first.since]}
           gapped == {g \in fs : C!After(fs, g) # {} /\ g.until < C!NextOf(fs, g).since}
           gaps == {[since |-> f.until, until |-> C!NextOf(fs, f).since] : f \in gapped}
           open == kind = "ReplaceDirtyLog" \/ clDirty.lines = 0
           tail == IF open THEN {[since |-> end, until |-> 0]}
                   ELSE IF end < begin THEN {[since |-> end, until |-> begin]} ELSE {}
           again == IF kind = "CheckDirtyLogState" /\ C!Replaced(fs) # {}
                    THEN {[since |-> late, until |-> 0]} ELSE {}
<1>1. /\ C!TypeOK /\ FilesRight(clFiles, clLogged, now) /\ DirtyRight(clDirty, clLogged, now)
  BY DEF CInv
<1>2. /\ MaxNow \in Nat /\ now \in 1..MaxNow /\ clLogged \subseteq 1..now /\ now \in Nat
      /\ fs \subseteq C!File /\ \A f \in fs : f.ok
  BY <1>1, CheckAssumption DEF C!CheckLogAssumption, C!TypeOK, C!Times
<1>3. FilesRight(fs, clLogged, now) BY <1>1 DEF FilesRight
<1>4. \A f \in fs : /\ f.since \in Nat /\ f.until \in Nat /\ f.since # 0 /\ f.since < f.until
                    /\ f.since \in 1..MaxNow /\ f.until \in 1..MaxNow /\ f.until <= now
                    /\ f.recs = {e \in clLogged : f.since <= e /\ e < f.until}
                    /\ f.first => \A e \in clLogged : f.since <= e
  <2> SUFFICES ASSUME NEW f \in fs
               PROVE  /\ f.since \in Nat /\ f.until \in Nat /\ f.since # 0 /\ f.since < f.until
                      /\ f.since \in 1..MaxNow /\ f.until \in 1..MaxNow /\ f.until <= now
                      /\ f.recs = {e \in clLogged : f.since <= e /\ e < f.until}
                      /\ f.first => \A e \in clLogged : f.since <= e
    OBVIOUS
  <2>1. WholeFile(f, clLogged, now) /\ f.ok BY <1>2, <1>3 DEF FilesRight
  <2>2. /\ f.since < f.until /\ f.until <= now
        /\ f.recs = {e \in clLogged : f.since <= e /\ e < f.until}
        /\ f.first => \A e \in clLogged : f.since <= e
    BY <2>1, Zenon DEF WholeFile
  <2>3. /\ f.since \in Nat /\ f.until \in Nat /\ f.since # 0
        /\ f.since \in 1..MaxNow /\ f.until \in 0..MaxNow
    BY <1>2, FileFields
  <2> QED BY <2>2, <2>3
<1>5. begin \in 0..MaxNow /\ begin \in Nat /\ begin <= now
  BY <1>1, <1>2 DEF C!TypeOK, C!DirtyLog, C!Times, C!NoTime, DirtyRight
<1>6. /\ end \in 0..MaxNow /\ end \in Nat /\ \A f \in fs : f.until <= end
      /\ end <= now
      /\ late \in 0..MaxNow /\ late \in Nat /\ begin <= late /\ late <= now
      /\ end <= late
  <2>0. 0 \in 0..MaxNow BY <1>2
  <2>1. /\ end \in 0..MaxNow /\ end \in Nat /\ \A f \in fs : f.until <= end
        /\ end = 0 \/ \E f \in fs : end = f.until
    BY <2>0, <1>2, EndIs
  <2>2. PICK b \in 0..MaxNow : b = begin BY <1>5
  <2>3. /\ EndOf(b, fs) \in 0..MaxNow /\ EndOf(b, fs) \in Nat
        /\ b <= EndOf(b, fs) /\ \A f \in fs : f.until <= EndOf(b, fs)
        /\ EndOf(b, fs) = b \/ \E f \in fs : EndOf(b, fs) = f.until
    BY <1>2, EndIs
  <2> HIDE DEF end
  <2>4. late = EndOf(b, fs) BY <2>2
  <2> HIDE DEF late
  <2> QED BY <2>1, <2>2, <2>3, <2>4, <1>2, <1>4, <1>5
<1>7. todo = ((head \cup gaps) \cup tail) \cup again
  <2>1. C!Missing(kind, fs) = (head \cup gaps) \cup tail
    BY DEF C!Missing, C!HasDirtyLog, C!NoTime, EndOf
  <2>2. C!Replaced(fs) = {} \/ C!Replaced(fs) = {[since |-> late, until |-> 0]}
    BY DEF C!Replaced, C!NoTime, EndOf
  <2> HIDE DEF head, gaps, tail, late
  <2>3. (IF kind = "CheckDirtyLogState" THEN C!Replaced(fs) ELSE {}) = again
    BY <2>2
  <2> HIDE DEF again
  <2> QED BY <2>1, <2>3
<1>8. again # {} => begin # 0 /\ ~open /\ again = {[since |-> late, until |-> 0]}
  <2> SUFFICES ASSUME again # {}
               PROVE  begin # 0 /\ ~open /\ again = {[since |-> late, until |-> 0]}
    OBVIOUS
  <2>1. kind = "CheckDirtyLogState" /\ C!Replaced(fs) # {} OBVIOUS
  <2>2. begin # 0 BY <2>1 DEF C!Replaced, C!NoTime
  <2>3. clDirty.lines # 0 BY <2>2, <1>1 DEF DirtyRight, C!NoDirtyLog, C!NoTime
  <2> QED BY <2>1, <2>2, <2>3
<1>9. fs # {} =>
        /\ first \in fs /\ \A f \in fs : first.since <= f.since
        /\ \A f \in gapped :
              /\ f \in fs /\ C!NextOf(fs, f) \in fs /\ f.until < C!NextOf(fs, f).since
              /\ \A g \in fs : g.until <= f.until \/ C!NextOf(fs, f).since <= g.since
        /\ \A e \in Nat : e < end =>
             \/ e < first.since
             \/ \E f \in fs : f.since <= e /\ e < f.until
             \/ \E f \in gapped : f.until <= e /\ e < C!NextOf(fs, f).since
  <2> SUFFICES ASSUME fs # {}
               PROVE  /\ first \in fs /\ \A f \in fs : first.since <= f.since
                      /\ \A f \in gapped :
                           /\ f \in fs /\ C!NextOf(fs, f) \in fs
                           /\ f.until < C!NextOf(fs, f).since
                           /\ \A g \in fs : g.until <= f.until \/ C!NextOf(fs, f).since <= g.since
                      /\ \A e \in Nat : e < end =>
                           \/ e < first.since
                           \/ \E f \in fs : f.since <= e /\ e < f.until
                           \/ \E f \in gapped : f.until <= e /\ e < C!NextOf(fs, f).since
    OBVIOUS
  <2>1. PICK log, t : log = clLogged /\ t = now OBVIOUS
  <2>2. FilesRight(fs, log, t) BY <2>1, <1>3
  <2>3. /\ C!FirstOf(fs) \in fs /\ \A f \in fs : C!FirstOf(fs).since <= f.since
        /\ \A f \in fs : C!After(fs, f) # {} =>
              /\ C!NextOf(fs, f) \in fs /\ f.until <= C!NextOf(fs, f).since
              /\ \A g \in fs : g.until <= f.until \/ C!NextOf(fs, f).since <= g.since
        /\ \A e \in Nat : e < EndOf(0, fs) =>
              \/ e < C!FirstOf(fs).since
              \/ \E f \in fs : f.since <= e /\ e < f.until
              \/ \E f \in fs : C!After(fs, f) # {} /\ f.until <= e /\ e < C!NextOf(fs, f).since
    BY <2>2, <1>2, Gaps
  <2>4. \A f \in gapped : /\ f \in fs /\ C!NextOf(fs, f) \in fs
                          /\ f.until < C!NextOf(fs, f).since
                          /\ \A g \in fs : g.until <= f.until \/ C!NextOf(fs, f).since <= g.since
    BY <2>3
  <2>5. ASSUME NEW e \in Nat, NEW f \in fs, C!After(fs, f) # {}, f.until <= e,
               e < C!NextOf(fs, f).since
        PROVE  f \in gapped
    <3>1. f.until \in Nat /\ C!NextOf(fs, f).since \in Nat BY <2>3, <2>5, <1>4
    <3> QED BY <3>1, <2>5
  <2> HIDE DEF gapped
  <2> QED BY <2>3, <2>4, <2>5
<1> HIDE DEF end, late, first, gapped, open
<1>10. ASSUME NEW q \in head
       PROVE  /\ fs # {} /\ ~first.first /\ first \in fs
              /\ q.since = 0 /\ q.until = first.since /\ q \in C!Interval
  <2>1. fs # {} /\ ~first.first /\ q = [since |-> 0, until |-> first.since] BY <1>10
  <2>2. first \in fs /\ first.since \in 1..MaxNow BY <2>1, <1>4, <1>9
  <2> QED BY <2>1, <2>2 DEF C!Interval, C!Times, C!NoTime
<1>11. ASSUME NEW q \in gaps
       PROVE  \E f \in gapped : /\ fs # {} /\ f \in fs /\ C!NextOf(fs, f) \in fs
                                /\ q.since = f.until /\ q.until = C!NextOf(fs, f).since
                                /\ q \in C!Interval
  <2>1. PICK f \in gapped : q = [since |-> f.until, until |-> C!NextOf(fs, f).since] BY <1>11
  <2>2. fs # {} BY <2>1 DEF gapped
  <2>3. f \in fs /\ C!NextOf(fs, f) \in fs BY <2>1, <2>2, <1>9
  <2>4. f.until \in 1..MaxNow /\ C!NextOf(fs, f).since \in 1..MaxNow BY <2>3, <1>4
  <2> QED BY <2>1, <2>2, <2>3, <2>4 DEF C!Interval, C!Times, C!NoTime
<1>12. ASSUME NEW q \in tail
       PROVE  /\ q.since = end /\ q \in C!Interval
              /\ (q.until = 0 /\ open) \/ (q.until = begin /\ ~open /\ end < begin)
  <2>1. \/ open /\ q = [since |-> end, until |-> 0]
        \/ ~open /\ end < begin /\ q = [since |-> end, until |-> begin]
    BY <1>12
  <2>2. q \in [since : (1..MaxNow) \cup {0}, until : (1..MaxNow) \cup {0}]
    <3>1. end \in (1..MaxNow) \cup {0} /\ begin \in (1..MaxNow) \cup {0} /\ end \in Nat
          /\ begin \in Nat
      BY <1>2, <1>5, <1>6
    <3> HIDE DEF begin
    <3> QED BY <2>1, <3>1
  <2> QED BY <2>1, <2>2 DEF C!Interval, C!Times, C!NoTime
<1>13. ASSUME NEW q \in again
       PROVE  q.since = late /\ q.until = 0 /\ ~open /\ q \in C!Interval
  <2>1. q = [since |-> late, until |-> 0] /\ ~open BY <1>8, <1>13
  <2> QED BY <2>1, <1>2, <1>6 DEF C!Interval, C!Times, C!NoTime
<1>14. todo \subseteq C!Interval
  <2> HIDE DEF head, gaps, tail, again
  <2> QED BY <1>7, <1>10, <1>11, <1>12, <1>13
<1>15. ASSUME NEW q \in todo PROVE Stretch(q, fs, now)
  <2>1. CASE q \in head
    <3>1. /\ q.since = 0 /\ q.until = first.since /\ first \in fs /\ fs # {}
      BY <2>1, <1>10
    <3>2. \A f \in fs : Before(q, f) BY <3>1, <1>4, <1>9 DEF Before
    <3>3. q.until <= now /\ q.since < q.until /\ q.since <= now BY <3>1, <1>2, <1>4
    <3> QED BY <3>2, <3>3 DEF Stretch
  <2>2. CASE q \in gaps
    <3>1. PICK f \in gapped : /\ fs # {} /\ f \in fs /\ C!NextOf(fs, f) \in fs
                              /\ q.since = f.until /\ q.until = C!NextOf(fs, f).since
      BY <2>2, <1>11
    <3>2. \A g \in fs : g.until <= q.since \/ Before(q, g)
      BY <3>1, <1>4, <1>9 DEF Before
    <3>3. q.until <= now /\ q.since < q.until /\ q.since <= now
      BY <3>1, <1>2, <1>4, <1>9
    <3> QED BY <3>2, <3>3 DEF Stretch
  <2>3. CASE q \in tail
    <3>1. /\ q.since = end
          /\ q.until = 0 \/ (q.until = begin /\ end < begin)
      BY <2>3, <1>12
    <3>2. \A f \in fs : f.until <= q.since BY <3>1, <1>6
    <3> HIDE DEF begin
    <3>3. q.since <= now /\ q.until <= now /\ (q.until # 0 => q.since < q.until)
      BY <3>1, <1>2, <1>5, <1>6
    <3> QED BY <3>2, <3>3 DEF Stretch
  <2>4. CASE q \in again
    <3>1. q.since = late /\ q.until = 0 BY <2>4, <1>13
    <3>2. \A f \in fs : f.until <= late BY <1>4, <1>6
    <3> QED BY <3>1, <3>2, <1>2, <1>6 DEF Stretch
  <2> HIDE DEF head, gaps, tail, again
  <2> QED BY <2>1, <2>2, <2>3, <2>4, <1>7
<1>16. ASSUME NEW p \in todo, NEW q \in todo, p # q PROVE Before(p, q) \/ Before(q, p)
  <2>1. ASSUME NEW x \in head, NEW y \in gaps PROVE Before(x, y)
    <3>1. x.until = first.since /\ first \in fs BY <2>1, <1>10
    <3>2. PICK f \in gapped : fs # {} /\ f \in fs /\ y.since = f.until BY <2>1, <1>11
    <3> QED BY <3>1, <3>2, <1>4, <1>9 DEF Before
  <2>2. ASSUME NEW x \in head \cup gaps PROVE x.until # 0 /\ x.until \in Nat /\ x.until <= end
    <3>1. PICK f \in fs : x.until = f.since
      <4>1. CASE x \in head BY <4>1, <1>10
      <4>2. CASE x \in gaps BY <4>2, <1>11
      <4> QED BY <4>1, <4>2, <2>2
    <3> QED BY <3>1, <1>4, <1>6
  <2>3. ASSUME NEW x \in head \cup gaps, NEW y \in tail \cup again PROVE Before(x, y)
    <3>1. x.until # 0 /\ x.until \in Nat /\ x.until <= end BY <2>2, <2>3
    <3>2. y.since = end \/ y.since = late
      <4>1. CASE y \in tail BY <4>1, <1>12
      <4>2. CASE y \in again BY <4>2, <1>13
      <4> QED BY <4>1, <4>2, <2>3
    <3>3. x.until <= y.since BY <3>1, <3>2, <1>6
    <3> QED BY <3>1, <3>3 DEF Before
  <2>4. ASSUME NEW x \in tail, NEW y \in again PROVE Before(x, y)
    <3>1. x.until = begin /\ end < begin /\ y.since = late BY <2>4, <1>12, <1>13
    <3> QED BY <3>1, <1>5, <1>6 DEF Before
  <2>5. ASSUME NEW x \in gaps, NEW y \in gaps, x # y PROVE Before(x, y) \/ Before(y, x)
    <3>1. PICK f \in gapped : /\ fs # {} /\ f \in fs /\ C!NextOf(fs, f) \in fs
                              /\ x = [since |-> f.until, until |-> C!NextOf(fs, f).since]
      <4>1. PICK f \in gapped : x = [since |-> f.until, until |-> C!NextOf(fs, f).since]
        BY <2>5
      <4>2. fs # {} BY <4>1 DEF gapped
      <4> QED BY <4>1, <4>2, <1>9
    <3>2. PICK g \in gapped : /\ g \in fs /\ C!NextOf(fs, g) \in fs
                              /\ y = [since |-> g.until, until |-> C!NextOf(fs, g).since]
      <4>1. PICK g \in gapped : y = [since |-> g.until, until |-> C!NextOf(fs, g).since]
        BY <2>5
      <4> QED BY <4>1, <3>1, <1>9
    <3>3. f # g BY <3>1, <3>2, <2>5
    <3>4. /\ C!NextOf(fs, f).since # 0 /\ C!NextOf(fs, g).since # 0
          /\ f.since < f.until /\ g.since < g.until
          /\ f.since \in Nat /\ g.since \in Nat /\ f.until \in Nat /\ g.until \in Nat
          /\ C!NextOf(fs, f).since \in Nat /\ C!NextOf(fs, g).since \in Nat
      BY <3>1, <3>2, <1>4
    <3>5. f.until <= g.since \/ g.until <= f.since BY <3>1, <3>2, <3>3, <1>2, <1>3 DEF FilesRight
    <3>6. /\ g.until <= f.until \/ C!NextOf(fs, f).since <= g.since
          /\ f.until <= g.until \/ C!NextOf(fs, g).since <= f.since
      BY <3>1, <3>2, <1>9
    <3>7. C!NextOf(fs, f).since <= g.until \/ C!NextOf(fs, g).since <= f.until
      BY <3>4, <3>5, <3>6
    <3>8. x.since = f.until /\ x.until = C!NextOf(fs, f).since
          /\ y.since = g.until /\ y.until = C!NextOf(fs, g).since
      BY <3>1, <3>2
    <3> QED BY <3>4, <3>7, <3>8 DEF Before
  <2>6. \A x, y \in head : x = y OBVIOUS
  <2>7. \A x, y \in tail : x = y OBVIOUS
  <2>8. \A x, y \in again : x = y OBVIOUS
  <2> HIDE DEF head, gaps, tail, again
  <2>9. /\ p \in head \/ p \in gaps \/ p \in tail \/ p \in again
        /\ q \in head \/ q \in gaps \/ q \in tail \/ q \in again
    BY <1>7
  <2>10. CASE p \in head BY <2>10, <2>9, <2>1, <2>3, <2>6, <1>16
  <2>11. CASE p \in gaps BY <2>11, <2>9, <2>1, <2>3, <2>5, <1>16
  <2>12. CASE p \in tail BY <2>12, <2>9, <2>3, <2>4, <2>7, <1>16
  <2>13. CASE p \in again BY <2>13, <2>9, <2>3, <2>4, <2>8, <1>16
  <2> QED BY <2>9, <2>10, <2>11, <2>12, <2>13
<1>17. ASSUME NEW r \in todo, NEW e \in clDirty.data, e < r.since PROVE Known(e, fs, todo)
  <2>1. e \in clLogged /\ begin < e /\ e \in Nat
    <3>1. e \in clLogged /\ begin < e BY <1>1 DEF DirtyRight
    <3> HIDE DEF begin
    <3> QED BY <3>1, <1>2
  <2>2. r.since <= end \/ (r.since = late /\ fs # {} /\ late = end)
    <3>1. CASE r \in head BY <3>1, <1>10, <1>6
    <3>2. CASE r \in gaps BY <3>2, <1>11, <1>6
    <3>3. CASE r \in tail BY <3>3, <1>12, <1>6
    <3>4. CASE r \in again
      <4>1. r.since = late BY <3>4, <1>13
      <4>2. late # begin BY <4>1, <2>1, <1>5, <1>17
      <4>3. \E f \in fs : late = f.until
        <5>1. PICK b \in 0..MaxNow : b = begin BY <1>5
        <5>2. EndOf(b, fs) = b \/ \E f \in fs : EndOf(b, fs) = f.until BY <1>2, EndIs
        <5> QED BY <5>1, <5>2, <4>2 DEF late
      <4> QED BY <4>1, <4>3, <1>4, <1>6
    <3> HIDE DEF head, gaps, tail, again
    <3> QED BY <3>1, <3>2, <3>3, <3>4, <1>7
  <2>3. e < end
    <3>1. r.since \in Nat
      <4>1. r \in [since : (1..MaxNow) \cup {0}, until : (1..MaxNow) \cup {0}]
        BY <1>14 DEF C!Interval, C!Times, C!NoTime
      <4> QED BY <4>1, <1>2
    <3> QED BY <2>1, <2>2, <3>1, <1>6, <1>17
  <2>4. fs # {}
    <3>1. end # 0 BY <2>1, <2>3
    <3>2. 0 \in 0..MaxNow BY <1>2
    <3>3. end = 0 \/ \E f \in fs : end = f.until BY <3>2, <1>2, EndIs DEF end
    <3> QED BY <3>1, <3>3
  <2>5. CASE e < first.since
    <3>1. first \in fs BY <2>4, <1>9
    <3>2. ~first.first BY <3>1, <2>1, <2>5, <1>4
    <3>3. [since |-> 0, until |-> first.since] \in head BY <2>4, <3>2
    <3> DEFINE q == [since |-> 0, until |-> first.since]
    <3>4. In(e, q) BY <2>1, <2>5 DEF In
    <3> HIDE DEF q, head, gaps, tail, again
    <3>5. q \in todo BY <3>3, <1>7 DEF q
    <3> QED BY <3>4, <3>5 DEF Known
  <2>6. CASE \E f \in fs : f.since <= e /\ e < f.until
    BY <2>1, <2>6, <1>2, <1>4 DEF Known
  <2>7. CASE \E f \in gapped : f.until <= e /\ e < C!NextOf(fs, f).since
    <3>1. PICK f \in gapped : f.until <= e /\ e < C!NextOf(fs, f).since BY <2>7
    <3> DEFINE q == [since |-> f.until, until |-> C!NextOf(fs, f).since]
    <3>2. q \in gaps BY <3>1
    <3>3. In(e, q) BY <3>1 DEF In
    <3> HIDE DEF q, head, gaps, tail, again
    <3>4. q \in todo BY <3>2, <1>7
    <3> QED BY <3>3, <3>4 DEF Known
  <2> QED BY <2>1, <2>3, <2>4, <2>5, <2>6, <2>7, <1>9
<1>18. RequestsRight(todo, fs, clDirty.data, now)
  BY <1>15, <1>16, <1>17, Zenon DEF RequestsRight
<1> QED BY <1>14, <1>18

(* Files of which some are gone or damaged are right still.                *)
LEMMA FewerFiles ==
  ASSUME NEW fs, NEW gs, NEW log, NEW t, FilesRight(fs, log, t),
         \A g \in gs : g \in fs \/ (g.ok = FALSE /\ g.until = 0)
  PROVE  FilesRight(gs, log, t)
<1>1. ASSUME NEW g \in gs PROVE WholeFile(g, log, t)
  <2>1. CASE g \in fs BY <2>1 DEF FilesRight
  <2>2. CASE g.ok = FALSE /\ g.until = 0 BY <2>2 DEF WholeFile
  <2> QED BY <1>1, <2>1, <2>2
<1>2. ASSUME NEW f \in gs, NEW g \in gs, f.ok, g.ok, f # g
      PROVE  f.until <= g.since \/ g.until <= f.since
  <2>1. f \in fs /\ g \in fs BY <1>2
  <2> QED BY <2>1, <1>2 DEF FilesRight
<1> QED BY <1>1, <1>2, Zenon DEF FilesRight

(* A file that cannot be read promises nothing.                            *)
LEMMA Damaged ==
  ASSUME NEW f \in C!File, NEW g, g = [f EXCEPT !.ok = FALSE, !.until = 0]
  PROVE  g \in C!File /\ g.ok = FALSE /\ g.until = 0 /\ g.since = f.since
<1>1. f \in [since : 1..MaxNow, until : (1..MaxNow) \cup {0}, recs : SUBSET (1..MaxNow),
             size : Nat, first : BOOLEAN, ok : BOOLEAN]
  BY DEF C!File, C!Times, C!NoTime
<1>2. /\ g \in [since : 1..MaxNow, until : (1..MaxNow) \cup {0}, recs : SUBSET (1..MaxNow),
                size : Nat, first : BOOLEAN, ok : BOOLEAN]
      /\ g.ok = FALSE /\ g.until = 0 /\ g.since = f.since
  BY <1>1
<1> QED BY <1>2 DEF C!File, C!Times, C!NoTime

(* The end of the last file; none that can be read ends later.             *)
LEMMA LastUntilIs ==
  ASSUME CInv
  PROVE  /\ C!LastUntil \in 0..now
         /\ C!LastUntil # 0 => \A f \in clFiles : f.ok => f.until <= C!LastUntil
<1>1. /\ MaxNow \in Nat /\ now \in Nat /\ clFiles \subseteq C!File
      /\ FilesRight(clFiles, clLogged, now)
  BY CheckAssumption DEF C!CheckLogAssumption, CInv, C!TypeOK, C!Times
<1>2. CASE clFiles = {} BY <1>1, <1>2 DEF C!LastUntil, C!NoTime
<1>3. CASE clFiles # {}
  <2>1. PICK fs : fs = clFiles OBVIOUS
  <2>2. \A f \in fs : f.since \in 0..MaxNow /\ f.since \in Nat /\ f.until \in Nat
    BY <1>1, <2>1, FileFields
  <2>3. PICK g : g = C!LastOf(fs) OBVIOUS
  <2>4. g \in fs /\ \A f \in fs : f.since <= g.since
    BY <1>1, <1>3, <2>1, <2>2, <2>3, FirstAndLast
  <2>5. C!LastUntil = g.until BY <1>3, <2>1, <2>3 DEF C!LastUntil, C!LastFile
  <2>6. WholeFile(g, clLogged, now) BY <1>1, <2>1, <2>4 DEF FilesRight
  <2>7. g.until <= now BY <2>6, <1>1 DEF WholeFile
  <2>8. ASSUME g.until # 0, NEW f \in fs, f.ok PROVE f.until <= g.until
    <3>1. WholeFile(f, clLogged, now) BY <1>1, <2>1 DEF FilesRight
    <3>2. f.since < f.until BY <2>8, <3>1 DEF WholeFile
    <3>3. g.ok /\ g.since < g.until BY <2>6, <2>8 DEF WholeFile
    <3>4. f = g \/ f.until <= g.since \/ g.until <= f.since
      BY <1>1, <2>1, <2>4, <2>8, <3>3 DEF FilesRight
    <3> QED BY <2>2, <2>4, <3>2, <3>3, <3>4
  <2> QED BY <2>1, <2>2, <2>4, <2>5, <2>7, <2>8
<1> QED BY <1>2, <1>3

(* A dirty log that is written to has all that it had.                     *)
LEMMA DirtyWritten ==
  ASSUME CInv, NEW connected, NEW d, d = C!CheckDirtyLog(clDirty, connected)
  PROVE  /\ d \in C!DirtyLog /\ d.data = clDirty.data /\ d.lines # 0 /\ d.lines \in Nat
         /\ d.begin <= now /\ \A e \in d.data : e \in clLogged /\ d.begin < e
<1>1. /\ now \in Nat /\ now \in 1..MaxNow /\ MaxNow \in Nat /\ clDirty \in C!DirtyLog
      /\ DirtyRight(clDirty, clLogged, now)
  BY CheckAssumption DEF C!CheckLogAssumption, CInv, C!TypeOK, C!Times
<1>2. clDirty \in [begin : (1..MaxNow) \cup {0}, data : SUBSET (1..MaxNow), gone : BOOLEAN,
                   lines : Nat]
  BY <1>1 DEF C!DirtyLog, C!Times, C!NoTime
<1>3. CASE clDirty.lines # 0
  <2>1. d = clDirty BY <1>3 DEF C!CheckDirtyLog
  <2> QED BY <2>1, <1>1, <1>2, <1>3 DEF DirtyRight
<1>4. CASE clDirty.lines = 0
  <2> DEFINE since == IF clFiles = {} THEN now ELSE C!LastUntil
  <2>1. clDirty.data = {} BY <1>1, <1>4 DEF DirtyRight, C!NoDirtyLog
  <2>2. since \in 0..now BY <1>1, LastUntilIs
  <2>3. since <= now /\ since \in (1..MaxNow) \cup {0}
    <3> HIDE DEF since
    <3> QED BY <2>2, <1>1
  <2>4. \E k \in {1, 2, 3} : d = [begin |-> since, data |-> {}, gone |-> ~connected, lines |-> k]
    BY <1>4 DEF C!CheckDirtyLog
  <2> HIDE DEF since
  <2>5. PICK k \in {1, 2, 3} :
          d = [begin |-> since, data |-> {}, gone |-> ~connected, lines |-> k]
    BY <2>4
  <2>6. d.begin = since /\ d.data = {} /\ d.lines = k /\ k \in Nat /\ k # 0 BY <2>5
  <2>7. d \in C!DirtyLog BY <2>3, <2>5, <2>6 DEF C!DirtyLog, C!Times, C!NoTime
  <2> QED BY <2>1, <2>3, <2>6, <2>7
<1> QED BY <1>3, <1>4

(* Marks are all that writing adds, and for a signal the entry of now.     *)
LEMMA MarksWritten ==
  ASSUME CInv, NEW gone \in BOOLEAN, NEW d,
         d \in {C!WriteMark(clDirty, gone), C!InsertDataMissing(clDirty)}
  PROVE  d \in C!DirtyLog /\ DirtyRight(d, clLogged, now) /\ d.data = clDirty.data
<1>1. PICK e :
        /\ \E c \in BOOLEAN : e = C!CheckDirtyLog(clDirty, c)
        /\ d = e \/ \E g \in BOOLEAN : d = [e EXCEPT !.gone = g, !.lines = @ + 1]
  <2>1. CASE d = C!WriteMark(clDirty, gone)
    BY <2>1 DEF C!WriteMark
  <2>2. CASE d = C!InsertDataMissing(clDirty)
    BY <2>2 DEF C!InsertDataMissing
  <2> QED BY <2>1, <2>2
<1>2. /\ e \in C!DirtyLog /\ e.data = clDirty.data /\ e.lines # 0 /\ e.lines \in Nat
      /\ e.begin <= now /\ \A x \in e.data : x \in clLogged /\ e.begin < x
  BY <1>1, DirtyWritten
<1>3. CASE d = e BY <1>2, <1>3 DEF DirtyRight
<1>4. CASE d # e
  <2>1. PICK g \in BOOLEAN : d = [e EXCEPT !.gone = g, !.lines = @ + 1] BY <1>1, <1>4
  <2>2. e \in [begin : C!Times \cup {C!NoTime}, data : SUBSET C!Times, gone : BOOLEAN,
               lines : Nat]
    BY <1>2 DEF C!DirtyLog
  <2>3. /\ d \in [begin : C!Times \cup {C!NoTime}, data : SUBSET C!Times, gone : BOOLEAN,
                  lines : Nat]
        /\ d.begin = e.begin /\ d.data = e.data /\ d.lines # 0
    <3>1. e.lines + 1 \in Nat /\ e.lines + 1 # 0 BY <1>2
    <3>2. PICK k : k = e.lines + 1 OBVIOUS
    <3>3. d = [begin |-> e.begin, data |-> e.data, gone |-> g, lines |-> k] BY <2>1, <2>2, <3>2
    <3>4. e.begin \in C!Times \cup {C!NoTime} /\ e.data \in SUBSET C!Times BY <2>2
    <3> QED BY <3>1, <3>2, <3>3, <3>4
  <2>4. d \in C!DirtyLog BY <2>3 DEF C!DirtyLog
  <2>5. DirtyRight(d, clLogged, now) BY <2>3, <1>2 DEF DirtyRight
  <2> QED BY <2>3, <2>4, <2>5, <1>2
<1> QED BY <1>3, <1>4

(* A signal's entry goes to the dirty log and to what was logged.          *)
LEMMA DataWritten ==
  ASSUME CInv, now < MaxNow, NEW d, d = C!WriteData(clDirty, now + 1)
  PROVE  /\ d \in C!DirtyLog /\ DirtyRight(d, clLogged \cup {now + 1}, now + 1)
         /\ d.data = clDirty.data \cup {now + 1}
<1>1. PICK e : e = C!CheckDirtyLog(clDirty, TRUE) OBVIOUS
<1>2. /\ e \in C!DirtyLog /\ e.data = clDirty.data /\ e.lines # 0 /\ e.lines \in Nat
      /\ e.begin <= now /\ \A x \in e.data : x \in clLogged /\ e.begin < x
  BY <1>1, DirtyWritten
<1> PICK m : m = now + 1 OBVIOUS
<1>3. PICK g \in BOOLEAN : d = [e EXCEPT !.data = @ \cup {m}, !.gone = g, !.lines = @ + 1]
  <2>1. FALSE \in BOOLEAN OBVIOUS
  <2>2. d = [e EXCEPT !.data = @ \cup {m}, !.gone = FALSE, !.lines = @ + 1]
    BY <1>1 DEF C!WriteData
  <2> QED BY <2>1, <2>2, Zenon
<1>4. now \in Nat /\ MaxNow \in Nat /\ now + 1 \in 1..MaxNow
  BY CheckAssumption DEF C!CheckLogAssumption, CInv, C!TypeOK, C!Times
<1>5. e \in [begin : (1..MaxNow) \cup {0}, data : SUBSET (1..MaxNow), gone : BOOLEAN, lines : Nat]
  BY <1>2 DEF C!DirtyLog, C!Times, C!NoTime
<1>6. /\ d \in [begin : (1..MaxNow) \cup {0}, data : SUBSET (1..MaxNow), gone : BOOLEAN,
                lines : Nat]
      /\ d.begin = e.begin /\ d.data = e.data \cup {now + 1} /\ d.lines # 0
  <2>1. e.lines + 1 \in Nat /\ e.lines + 1 # 0 /\ m \in 1..MaxNow BY <1>2, <1>3, <1>4
  <2>2. PICK k, x, b : k = e.lines + 1 /\ x = e.data \cup {m} /\ b = e.begin OBVIOUS
  <2>3. k \in Nat /\ x \in SUBSET (1..MaxNow) /\ b \in (1..MaxNow) \cup {0}
    BY <1>5, <2>1, <2>2
  <2>4. d = [begin |-> b, data |-> x, gone |-> g, lines |-> k] BY <1>3, <1>5, <2>2
  <2> QED BY <1>3, <2>1, <2>2, <2>3, <2>4
<1>7. e.begin \in Nat BY <1>4, <1>5
<1>8. \A x \in d.data : x \in clLogged \cup {now + 1} /\ d.begin < x
  BY <1>2, <1>4, <1>6, <1>7
<1>9. d.begin <= now + 1 BY <1>2, <1>4, <1>6, <1>7
<1> QED BY <1>2, <1>6, <1>8, <1>9 DEF C!DirtyLog, C!Times, C!NoTime, DirtyRight

(* The invariant holds at the start.                                       *)
LEMMA CInitially == MCInit => CInv
<1> SUFFICES ASSUME MCInit PROVE CInv OBVIOUS
<1>1. C!Init BY DEF MCInit
<1>2. /\ now = 1 /\ clLogged \in SUBSET {1} /\ running = TRUE /\ online = FALSE
      /\ clFiles = {} /\ task = "none" /\ requests = {} /\ asked = 0 /\ clFaults = 0
      /\ \E g \in BOOLEAN : clDirty = [begin |-> 1, data |-> {}, gone |-> g, lines |-> 2]
  BY <1>1 DEF C!Init, C!NoTime
<1>3. /\ MaxNow \in Nat /\ CheckFaults \in Nat /\ 1 \in 1..MaxNow
  BY CheckAssumption DEF C!CheckLogAssumption
<1>4. PICK g \in BOOLEAN : clDirty = [begin |-> 1, data |-> {}, gone |-> g, lines |-> 2]
  BY <1>2
<1>5. clDirty.begin = 1 /\ clDirty.data = {} /\ clDirty.lines = 2 BY <1>4
<1>6. clDirty \in C!DirtyLog
  <2>1. PICK one, x, two : one = 1 /\ x = {} /\ two = 2 OBVIOUS
  <2>2. /\ one \in C!Times \cup {C!NoTime} /\ x \in SUBSET C!Times /\ two \in Nat
    BY <1>3, <2>1 DEF C!Times
  <2>3. clDirty = [begin |-> one, data |-> x, gone |-> g, lines |-> two] BY <1>4, <2>1
  <2> QED BY <2>2, <2>3 DEF C!DirtyLog
<1>7. C!TypeOK
  <2>1. clLogged \subseteq 1..now /\ asked \in 0..now /\ now \in C!Times
    BY <1>2, <1>3 DEF C!Times
  <2>2. clFaults \in 0..CheckFaults BY <1>2, <1>3
  <2> QED BY <2>1, <2>2, <1>2, <1>6 DEF C!TypeOK
<1>8. FilesRight(clFiles, clLogged, now) BY <1>2 DEF FilesRight
<1>9. DirtyRight(clDirty, clLogged, now) BY <1>2, <1>5 DEF DirtyRight
<1>10. RequestsRight(requests, clFiles, clDirty.data, asked) BY <1>2 DEF RequestsRight
<1> QED BY <1>2, <1>7, <1>8, <1>9, <1>10 DEF CInv

(* What a step does to the dirty log.                                      *)
TrimStep ==
  \A e \in clDirty.data \ clDirty'.data :
    C!HasDirtyLog' => e = clDirty'.begin \/ \E f \in clFiles' : e \in f.recs

(* The actions that leave the files and the requests.                      *)
LEMMA TickKept ==
  ASSUME CInv, NEW entry \in BOOLEAN, C!Tick(entry)
  PROVE  CInv' /\ TrimStep
<1>1. /\ MaxNow \in Nat /\ now \in 1..MaxNow /\ now \in Nat /\ now < MaxNow /\ now' = now + 1
      /\ clLogged \subseteq 1..now /\ asked \in 0..now
  BY CheckAssumption DEF C!CheckLogAssumption, CInv, C!TypeOK, C!Tick, C!Times
<1>2. /\ clLogged' = IF entry THEN clLogged \cup {now + 1} ELSE clLogged
      /\ UNCHANGED <<running, online, clFiles, task, requests, asked, clFaults>>
  BY DEF C!Tick
<1>3. /\ clDirty' \in C!DirtyLog /\ DirtyRight(clDirty', clLogged', now + 1)
      /\ clDirty.data \subseteq clDirty'.data
      /\ clDirty'.data \subseteq clDirty.data \cup {now + 1}
  <2>1. CASE entry /\ running /\ online
    <3>1. clDirty' = C!WriteData(clDirty, now + 1) BY <2>1 DEF C!Tick
    <3>2. PICK d : d = C!WriteData(clDirty, now + 1) OBVIOUS
    <3>3. /\ d \in C!DirtyLog /\ DirtyRight(d, clLogged \cup {now + 1}, now + 1)
          /\ d.data = clDirty.data \cup {now + 1}
      BY <3>2, <1>1, DataWritten
    <3> QED BY <2>1, <3>1, <3>2, <3>3, <1>2
  <2>2. CASE ~(entry /\ running /\ online)
    <3>1. clDirty' = clDirty BY <2>2 DEF C!Tick
    <3>2. clDirty \in C!DirtyLog /\ DirtyRight(clDirty, clLogged, now)
      BY DEF CInv, C!TypeOK
    <3>3. clDirty.begin \in 0..MaxNow
      BY <3>2, <1>1 DEF C!DirtyLog, C!Times, C!NoTime
    <3>4. clDirty.begin <= now + 1 BY <3>2, <3>3, <1>1 DEF DirtyRight
    <3>5. clLogged \subseteq clLogged' BY <1>2
    <3>6. DirtyRight(clDirty, clLogged', now + 1) BY <3>2, <3>4, <3>5 DEF DirtyRight
    <3> QED BY <3>1, <3>2, <3>6
  <2> QED BY <2>1, <2>2
<1>4. clLogged' \subseteq 1..now' BY <1>1, <1>2
<1>5. C!TypeOK'
  <2>1. now' \in 1..MaxNow /\ asked \in 0..(now + 1) BY <1>1
  <2> QED BY <1>1, <1>2, <1>3, <1>4, <2>1 DEF CInv, C!TypeOK, C!Times
<1>6. FilesRight(clFiles, clLogged, now) /\ clFiles \subseteq C!File BY DEF CInv, C!TypeOK
<1>7. ASSUME NEW f \in clFiles PROVE WholeFile(f, clLogged', now + 1)
  <2>1. WholeFile(f, clLogged, now) /\ f \in C!File BY <1>6 DEF FilesRight
  <2>2. f.since \in Nat /\ f.until \in Nat BY <2>1, FileFields
  <2>3. CASE f.ok
    <3>1. /\ f.since < f.until /\ f.until <= now
          /\ f.recs = {e \in clLogged : f.since <= e /\ e < f.until}
          /\ f.first => \A e \in clLogged : f.since <= e
      BY <2>1, <2>3, Zenon DEF WholeFile
    <3>2. ~(now + 1 < f.until) /\ f.since <= now + 1 /\ f.until <= now + 1
      BY <3>1, <2>2, <1>1
    <3>3. f.recs = {e \in clLogged' : f.since <= e /\ e < f.until}
      BY <3>1, <3>2, <1>2
    <3>4. f.first => \A e \in clLogged' : f.since <= e BY <3>1, <3>2, <1>2
    <3> QED BY <2>3, <3>1, <3>2, <3>3, <3>4, Zenon DEF WholeFile
  <2>4. CASE ~f.ok BY <2>1, <2>4 DEF WholeFile
  <2> QED BY <2>3, <2>4
<1>8. FilesRight(clFiles', clLogged', now')
  BY <1>1, <1>2, <1>6, <1>7 DEF FilesRight
<1>9. RequestsRight(requests, clFiles, clDirty.data, asked) /\ C!TypeOK BY DEF CInv
<1>10. ASSUME NEW r \in requests, NEW e \in clDirty'.data, e < r.since
       PROVE  Known(e, clFiles, requests)
  <2>1. r.since \in 0..MaxNow /\ r.since <= asked
    <3>1. r.since \in 0..MaxNow BY <1>9, <1>10, FirstRequest
    <3> QED BY <3>1, <1>9 DEF RequestsRight, Stretch
  <2>2. e # now + 1 BY <2>1, <1>1, <1>10
  <2>3. e \in clDirty.data BY <2>2, <1>3
  <2> QED BY <2>3, <1>9, <1>10 DEF RequestsRight
<1>11. RequestsRight(requests, clFiles, clDirty'.data, asked)
  BY <1>9, <1>10, Zenon DEF RequestsRight
<1>12. RequestsRight(requests', clFiles', clDirty'.data, asked') BY <1>2, <1>11
<1>13. (task = "none" => requests = {})' BY <1>2 DEF CInv
<1>14. DirtyRight(clDirty', clLogged', now') BY <1>1, <1>3
<1>15. CInv' BY <1>5, <1>8, <1>12, <1>13, <1>14 DEF CInv
<1> QED BY <1>3, <1>15 DEF TrimStep

(* The actions that only write a mark, and may end the task.               *)
LEMMA MarkKept ==
  ASSUME CInv,
         C!DeviceAppeared \/ C!DeviceDisappeared \/ C!BrokerLost \/ C!Restart \/ C!RequestFails
  PROVE  CInv' /\ TrimStep
<1>1. /\ C!TypeOK /\ FilesRight(clFiles, clLogged, now) /\ DirtyRight(clDirty, clLogged, now)
      /\ RequestsRight(requests, clFiles, clDirty.data, asked)
      /\ task = "none" => requests = {}
  BY DEF CInv
<1>2. now \in Nat /\ CheckFaults \in Nat /\ clFaults \in 0..CheckFaults
  BY <1>1, CheckAssumption DEF C!CheckLogAssumption, C!TypeOK, C!Times
<1>3. UNCHANGED <<now, clLogged, clFiles>>
  BY DEF C!DeviceAppeared, C!DeviceDisappeared, C!BrokerLost, C!Restart, C!RequestFails
<1>4. /\ running' \in BOOLEAN /\ online' \in BOOLEAN
      /\ clFaults' = clFaults \/ (clFaults < CheckFaults /\ clFaults' = clFaults + 1)
  BY <1>1 DEF C!TypeOK, C!DeviceAppeared, C!DeviceDisappeared, C!BrokerLost, C!Restart,
              C!RequestFails
<1>5. clFaults' \in 0..CheckFaults BY <1>2, <1>4
<1>6. UNCHANGED <<task, requests, asked>> \/ C!NoTask
  BY DEF C!DeviceAppeared, C!DeviceDisappeared, C!BrokerLost, C!Restart, C!RequestFails
<1>7. \/ clDirty' = clDirty
      \/ \E gone \in BOOLEAN :
           clDirty' \in {C!WriteMark(clDirty, gone), C!InsertDataMissing(clDirty)}
  BY DEF C!DeviceAppeared, C!DeviceDisappeared, C!BrokerLost, C!Restart, C!RequestFails
<1>8. /\ clDirty' \in C!DirtyLog /\ DirtyRight(clDirty', clLogged, now)
      /\ clDirty'.data = clDirty.data
  <2>1. CASE clDirty' = clDirty BY <2>1, <1>1 DEF C!TypeOK
  <2>2. ASSUME NEW gone \in BOOLEAN,
               clDirty' \in {C!WriteMark(clDirty, gone), C!InsertDataMissing(clDirty)}
        PROVE  /\ clDirty' \in C!DirtyLog /\ DirtyRight(clDirty', clLogged, now)
               /\ clDirty'.data = clDirty.data
    <3>1. PICK d : /\ d = clDirty'
                   /\ d \in {C!WriteMark(clDirty, gone), C!InsertDataMissing(clDirty)}
      BY <2>2
    <3>2. d \in C!DirtyLog /\ DirtyRight(d, clLogged, now) /\ d.data = clDirty.data
      BY <3>1, MarksWritten
    <3> QED BY <3>1, <3>2
  <2> QED BY <1>7, <2>1, <2>2
<1>9. /\ task' \in C!Kinds \cup {"none"} /\ requests' \subseteq C!Interval /\ asked' \in 0..now
      /\ (task = "none" => requests = {})'
      /\ RequestsRight(requests', clFiles, clDirty.data, asked')
  <2>1. CASE UNCHANGED <<task, requests, asked>> BY <2>1, <1>1 DEF C!TypeOK
  <2>2. CASE C!NoTask
    BY <2>2, <1>2 DEF C!NoTask, C!NoTime, RequestsRight
  <2> QED BY <1>6, <2>1, <2>2
<1>10. C!TypeOK' BY <1>1, <1>3, <1>4, <1>5, <1>8, <1>9 DEF C!TypeOK
<1>11. FilesRight(clFiles', clLogged', now') /\ DirtyRight(clDirty', clLogged', now')
  BY <1>1, <1>3, <1>8
<1>12. RequestsRight(requests', clFiles', clDirty'.data, asked') BY <1>3, <1>8, <1>9
<1>13. CInv' BY <1>9, <1>10, <1>11, <1>12 DEF CInv
<1> QED BY <1>8, <1>13 DEF TrimStep

(* A file is damaged while nothing is asked for.                           *)
LEMMA DamageKept ==
  ASSUME CInv, C!FileDamaged
  PROVE  CInv' /\ TrimStep
<1>1. /\ C!TypeOK /\ FilesRight(clFiles, clLogged, now) /\ DirtyRight(clDirty, clLogged, now)
      /\ requests = {} /\ task = "none" /\ clFiles \subseteq C!File
  BY DEF CInv, C!FileDamaged, C!TypeOK
<1>2. /\ UNCHANGED <<now, clLogged, running, online, clDirty, task, requests, asked>>
      /\ clFaults < CheckFaults /\ clFaults' = clFaults + 1
  BY DEF C!FileDamaged
<1>3. clFaults' \in 0..CheckFaults
  BY <1>1, <1>2, CheckAssumption DEF C!CheckLogAssumption, C!TypeOK
<1>4. PICK f \in clFiles :
        clFiles' = (clFiles \ {f}) \cup {[f EXCEPT !.ok = FALSE, !.until = 0]}
  BY DEF C!FileDamaged, C!NoTime
<1>5. PICK g : g = [f EXCEPT !.ok = FALSE, !.until = 0] OBVIOUS
<1>6. g \in C!File /\ g.ok = FALSE /\ g.until = 0 BY <1>1, <1>5, Damaged
<1>7. clFiles' = (clFiles \ {f}) \cup {g} BY <1>4, <1>5
<1>8. clFiles' \subseteq C!File BY <1>1, <1>6, <1>7
<1>9. FilesRight(clFiles', clLogged, now)
  <2>1. PICK fs, gs, log, t : fs = clFiles /\ gs = clFiles' /\ log = clLogged /\ t = now OBVIOUS
  <2>2. FilesRight(fs, log, t) BY <2>1, <1>1
  <2>3. \A x \in gs : x \in fs \/ (x.ok = FALSE /\ x.until = 0) BY <2>1, <1>6, <1>7
  <2>4. FilesRight(gs, log, t) BY <2>2, <2>3, FewerFiles
  <2> QED BY <2>1, <2>4
<1>10. C!TypeOK' BY <1>1, <1>2, <1>3, <1>8 DEF C!TypeOK
<1>11. RequestsRight(requests', clFiles', clDirty'.data, asked')
  BY <1>1, <1>2 DEF RequestsRight
<1>12. CInv' BY <1>1, <1>2, <1>9, <1>10, <1>11 DEF CInv
<1> QED BY <1>2, <1>12 DEF TrimStep

(* A task begins: that which only trims asks for what follows the files.   *)
LEMMA ExecKept ==
  ASSUME CInv, NEW kind \in C!Kinds, C!Exec(kind)
  PROVE  CInv' /\ TrimStep
<1>1. /\ C!TypeOK /\ FilesRight(clFiles, clLogged, now) /\ DirtyRight(clDirty, clLogged, now)
      /\ requests = {} /\ task = "none"
  BY DEF CInv, C!Exec
<1>2. /\ UNCHANGED <<now, clLogged, running, online, clFiles, clDirty, clFaults>>
  BY DEF C!Exec
<1>3. MaxNow \in Nat /\ now \in 1..MaxNow /\ now \in Nat /\ asked \in 0..now
  BY <1>1, CheckAssumption DEF C!CheckLogAssumption, C!TypeOK, C!Times
<1>4. task' \in C!Kinds BY DEF C!Exec, C!Kinds
<1>5. /\ requests' \subseteq C!Interval /\ asked' \in 0..now
      /\ RequestsRight(requests', clFiles, clDirty.data, asked')
  <2>1. CASE UNCHANGED <<requests, asked>> BY <2>1, <1>1, <1>3 DEF RequestsRight
  <2>2. CASE ~UNCHANGED <<requests, asked>>
    <3>1. /\ clDirty.begin # 0 /\ clDirty.begin = C!LastUntil
          /\ requests' = {[since |-> clDirty.begin, until |-> 0]} /\ asked' = now
      BY <2>2 DEF C!Exec, C!NoTime
    <3>2. PICK b : b = clDirty.begin OBVIOUS
    <3>3. b \in 1..now /\ \A f \in clFiles : f.ok => f.until <= b
      BY <3>1, <3>2, <1>3, LastUntilIs
    <3>4. PICK q : q = [since |-> b, until |-> 0] OBVIOUS
    <3>5. q.since = b /\ q.until = 0 /\ requests' = {q} BY <3>1, <3>2, <3>4
    <3>6. b \in 1..MaxNow /\ b <= now BY <3>3, <1>3
    <3>7. q \in C!Interval BY <3>4, <3>6 DEF C!Interval, C!Times, C!NoTime
    <3>8. Stretch(q, clFiles, now) BY <3>3, <3>5, <3>6, <1>3 DEF Stretch
    <3>9. \A e \in clDirty.data : ~(e < b)
      <4>1. \A e \in clDirty.data : b < e /\ e \in clLogged BY <3>2, <1>1 DEF DirtyRight
      <4>2. \A e \in clLogged : e \in Int BY <1>1, <1>3 DEF C!TypeOK
      <4>3. b \in Int BY <3>3, <1>3
      <4> QED BY <4>1, <4>2, <4>3
    <3>10. RequestsRight({q}, clFiles, clDirty.data, now)
      BY <3>5, <3>8, <3>9 DEF RequestsRight
    <3> QED BY <3>1, <3>5, <3>7, <3>10, <1>3
  <2> QED BY <2>1, <2>2
<1>6. C!TypeOK' BY <1>1, <1>2, <1>4, <1>5 DEF C!TypeOK
<1>7. task' # "none" BY <1>4 DEF C!Kinds
<1>8. CInv' BY <1>1, <1>2, <1>5, <1>6, <1>7 DEF CInv
<1> QED BY <1>2, <1>8 DEF TrimStep

(* The directory is checked and the requests are made.                     *)
LEMMA CheckedKept ==
  ASSUME CInv, C!Checked
  PROVE  CInv' /\ TrimStep
<1>1. /\ C!TypeOK /\ FilesRight(clFiles, clLogged, now) /\ DirtyRight(clDirty, clLogged, now)
  BY DEF CInv
<1>2. now \in Nat /\ asked \in 0..now
  BY <1>1, CheckAssumption DEF C!CheckLogAssumption, C!TypeOK, C!Times
<1>3. PICK kind, fs, todo :
        /\ kind = task /\ fs = {f \in clFiles : f.ok}
        /\ todo = C!Missing(kind, fs)
                  \cup (IF kind = "CheckDirtyLogState" THEN C!Replaced(fs) ELSE {})
  OBVIOUS
<1>4. /\ kind \in {"ReplaceDirtyLog", "CheckDirtyLogState"}
      /\ clFiles' = fs
      /\ UNCHANGED <<now, clLogged, clDirty, clFaults>>
      /\ \/ running' = FALSE /\ online' = FALSE /\ C!NoTask
         \/ /\ requests' = todo
            /\ task' = IF todo = {} THEN "none" ELSE task
            /\ asked' = IF todo = {} THEN 0 ELSE now
            /\ UNCHANGED <<running, online>>
  BY <1>3 DEF C!Checked, C!NoTime
<1>5. todo \subseteq C!Interval /\ RequestsRight(todo, fs, clDirty.data, now)
  BY <1>3, <1>4, RequestsMade
<1>6. /\ running' \in BOOLEAN /\ online' \in BOOLEAN
      /\ task' \in C!Kinds \cup {"none"} /\ requests' \subseteq C!Interval /\ asked' \in 0..now
      /\ task' = "none" => requests' = {}
      /\ RequestsRight(requests', fs, clDirty.data, asked')
  <2>1. CASE running' = FALSE /\ online' = FALSE /\ C!NoTask
    <3>1. task' = "none" /\ requests' = {} /\ asked' = 0 BY <2>1 DEF C!NoTask, C!NoTime
    <3>2. RequestsRight(requests', fs, clDirty.data, asked') BY <3>1 DEF RequestsRight
    <3>3. asked' \in 0..now BY <3>1, <1>2
    <3> QED BY <2>1, <3>1, <3>2, <3>3
  <2>2. CASE /\ requests' = todo
             /\ task' = IF todo = {} THEN "none" ELSE task
             /\ asked' = IF todo = {} THEN 0 ELSE now
             /\ UNCHANGED <<running, online>>
    <3>1. task' \in C!Kinds \cup {"none"} /\ (task' = "none" => requests' = {})
      BY <2>2, <1>3, <1>4 DEF C!Kinds
    <3>2. asked' \in 0..now BY <2>2, <1>2
    <3>3. RequestsRight(requests', fs, clDirty.data, asked')
      <4>1. CASE todo = {} BY <4>1, <2>2 DEF RequestsRight
      <4>2. CASE todo # {} BY <4>2, <2>2, <1>5
      <4> QED BY <4>1, <4>2
    <3> QED BY <2>2, <3>1, <3>2, <3>3, <1>1, <1>5 DEF C!TypeOK
  <2> QED BY <1>4, <2>1, <2>2
<1>7. fs \subseteq C!File BY <1>1, <1>3 DEF C!TypeOK
<1>8. FilesRight(fs, clLogged, now) BY <1>1, <1>3 DEF FilesRight
<1>9. C!TypeOK' BY <1>1, <1>4, <1>6, <1>7 DEF C!TypeOK
<1>10. CInv' BY <1>1, <1>4, <1>6, <1>8, <1>9 DEF CInv
<1> QED BY <1>4, <1>10 DEF TrimStep

(* A chunk is stored.                                                      *)
LEMMA ChunkKept ==
  ASSUME CInv, NEW n \in asked..now, C!ChunkReceived(n)
  PROVE  CInv' /\ TrimStep
<1>1. /\ C!TypeOK /\ FilesRight(clFiles, clLogged, now) /\ DirtyRight(clDirty, clLogged, now)
      /\ RequestsRight(requests, clFiles, clDirty.data, asked)
  BY DEF CInv
<1>2. /\ requests # {} /\ UNCHANGED <<now, clLogged, running, online, clFaults>>
      /\ task # "none"
  BY DEF C!ChunkReceived, CInv
<1>3. now \in Nat /\ asked \in 0..now
  BY <1>1, CheckAssumption DEF C!CheckLogAssumption, C!TypeOK, C!Times
<1>4. PICK u \in C!Untils(n) :
        \/ u = 0 /\ C!NextRequest /\ UNCHANGED <<clFiles, clDirty>>
        \/ /\ u # 0
           /\ clFiles' = C!Saved(n, u)
           /\ clDirty' = C!DirtyAfter(n, u)
           /\ IF C!Cardinality(C!Answer(n)) + C!Marks(n) < Chunk
              THEN C!NextRequest ELSE C!NextChunk(u)
  BY DEF C!ChunkReceived, C!NoTime
<1>5. PICK r : r = C!Rq OBVIOUS
<1>6. r \in requests /\ requests \subseteq C!Interval BY <1>1, <1>2, <1>5, FirstRequest
<1>7. ASSUME C!NextRequest
      PROVE  /\ requests' = requests \ {r}
             /\ task' \in C!Kinds \cup {"none"} /\ (task' = "none" => requests' = {})
             /\ asked' \in 0..now /\ (requests' # {} => asked' = now)
             /\ requests' \subseteq C!Interval
  <2>1. /\ requests' = requests \ {r}
        /\ task' = IF requests = {r} THEN "none" ELSE task
        /\ asked' = IF requests = {r} THEN 0 ELSE now
    BY <1>5, <1>7 DEF C!NextRequest, C!NoTime
  <2>2. requests = {r} <=> requests' = {} BY <2>1, <1>6
  <2> QED BY <2>1, <2>2, <1>1, <1>2, <1>3, <1>6 DEF C!TypeOK
<1>8. CASE u = 0
  <2>1. C!NextRequest /\ UNCHANGED <<clFiles, clDirty>> BY <1>4, <1>8
  <2>2. r.until = 0 BY <1>1, <1>2, <1>5, <1>8, Answered
  <2>3. \A q \in requests : q = r
    <3>1. \A q \in requests : q # r => Before(r, q) BY <1>1, <1>2, <1>5, OthersLater
    <3> QED BY <3>1, <2>2 DEF Before
  <2>4. requests' = {} BY <2>1, <2>3, <1>7
  <2>5. RequestsRight(requests', clFiles', clDirty'.data, asked') BY <2>4 DEF RequestsRight
  <2>6. C!TypeOK' BY <2>1, <1>1, <1>2, <1>7 DEF C!TypeOK
  <2>7. CInv' BY <2>1, <2>4, <2>5, <2>6, <1>1, <1>2 DEF CInv
  <2> QED BY <2>1, <2>7 DEF TrimStep
<1>9. CASE u # 0
  <2>1. PICK gs, d, more : /\ gs = C!Saved(n, u) /\ d = C!DirtyAfter(n, u)
                           /\ more = [r EXCEPT !.since = u]
    OBVIOUS
  <2>2. /\ gs \subseteq C!File /\ FilesRight(gs, clLogged, now)
        /\ d \in C!DirtyLog /\ DirtyRight(d, clLogged, now)
        /\ C!Cardinality(C!Answer(n)) + C!Marks(n) < Chunk =>
             RequestsRight(requests \ {r}, gs, d.data, now)
        /\ ~(C!Cardinality(C!Answer(n)) + C!Marks(n) < Chunk) =>
             /\ more \in C!Interval
             /\ RequestsRight((requests \ {r}) \cup {more}, gs, d.data, now)
        /\ \A e \in clDirty.data \ d.data : e = d.begin \/ \E f \in gs : e \in f.recs
    BY <2>1, <1>2, <1>5, <1>9, ChunkKeeps
  <2>3. clFiles' = gs /\ clDirty' = d BY <2>1, <1>4, <1>9
  <2>4. /\ task' \in C!Kinds \cup {"none"} /\ (task' = "none" => requests' = {})
        /\ asked' \in 0..now /\ requests' \subseteq C!Interval
        /\ RequestsRight(requests', gs, d.data, asked')
    <3>1. CASE C!Cardinality(C!Answer(n)) + C!Marks(n) < Chunk
      <4>1. C!NextRequest BY <3>1, <1>4, <1>9
      <4>2. RequestsRight(requests', gs, d.data, now) BY <4>1, <3>1, <2>2, <1>7
      <4>3. RequestsRight(requests', gs, d.data, asked')
        <5>1. CASE requests' = {} BY <5>1 DEF RequestsRight
        <5>2. CASE requests' # {} BY <5>2, <4>1, <4>2, <1>7
        <5> QED BY <5>1, <5>2
      <4> QED BY <4>1, <4>3, <1>7
    <3>2. CASE ~(C!Cardinality(C!Answer(n)) + C!Marks(n) < Chunk)
      <4>1. C!NextChunk(u) BY <3>2, <1>4, <1>9
      <4>2. requests' = (requests \ {r}) \cup {more} /\ asked' = now /\ task' = task
        BY <4>1, <2>1, <1>5 DEF C!NextChunk
      <4> QED BY <4>2, <3>2, <2>2, <1>1, <1>2, <1>3, <1>6 DEF C!TypeOK
    <3> QED BY <3>1, <3>2
  <2>5. C!TypeOK' BY <2>2, <2>3, <2>4, <1>1, <1>2 DEF C!TypeOK
  <2>6. CInv' BY <2>2, <2>3, <2>4, <2>5, <1>2 DEF CInv
  <2>7. TrimStep BY <2>2, <2>3 DEF TrimStep
  <2> QED BY <2>6, <2>7
<1> QED BY <1>8, <1>9

(* The process dies while a chunk is stored.                               *)
LEMMA DeathKept ==
  ASSUME CInv, NEW n \in asked..now, C!DiesStoring(n)
  PROVE  CInv' /\ TrimStep
<1>1. /\ C!TypeOK /\ FilesRight(clFiles, clLogged, now) /\ DirtyRight(clDirty, clLogged, now)
      /\ clFiles \subseteq C!File
  BY DEF CInv, C!TypeOK
<1>2. now \in Nat /\ asked \in 0..now
  BY <1>1, CheckAssumption DEF C!CheckLogAssumption, C!TypeOK, C!Times
<1>3. /\ requests # {} /\ running' = FALSE /\ online' = FALSE /\ C!NoTask
      /\ clFaults < CheckFaults /\ clFaults' = clFaults + 1 /\ UNCHANGED <<now, clLogged>>
  BY DEF C!DiesStoring
<1>4. clFaults' \in 0..CheckFaults
  BY <1>1, <1>3, CheckAssumption DEF C!CheckLogAssumption, C!TypeOK
<1>5. PICK u \in C!Untils(n) : u # 0 /\
        \/ /\ clFiles' = (C!Saved(n, u) \cap clFiles) \cup
                         {[f EXCEPT !.ok = FALSE, !.until = 0] : f \in C!Saved(n, u) \ clFiles}
           /\ UNCHANGED clDirty
        \/ clFiles' = clFiles \ C!Continued /\ UNCHANGED clDirty
        \/ clFiles' = C!Saved(n, u) /\ UNCHANGED clDirty
        \/ clFiles' = C!Saved(n, u) /\ clDirty' = C!NoDirtyLog
  BY DEF C!DiesStoring, C!NoTime
<1>6. PICK gs, r : gs = C!Saved(n, u) /\ r = C!Rq OBVIOUS
<1>7. /\ gs \subseteq C!File
      /\ FilesRight(gs, clLogged, now)
      /\ \A g \in gs : g \in clFiles \/ g.until = u
      /\ \A e : (\E f \in clFiles : f.ok /\ e \in f.recs) => \E g \in gs : g.ok /\ e \in g.recs
      /\ \A e \in C!Kept(n, u) : \E g \in gs : g.ok /\ e \in g.recs
  <2>1. u # 0 /\ requests # {} BY <1>3, <1>5
  <2> QED BY <2>1, <1>6, SavedIsRight
<1>8. clFiles' \subseteq C!File /\ FilesRight(clFiles', clLogged, now)
  <2>1. CASE clFiles' = (gs \cap clFiles) \cup
                        {[f EXCEPT !.ok = FALSE, !.until = 0] : f \in gs \ clFiles}
    <3>1. ASSUME NEW g \in clFiles'
          PROVE  g \in C!File /\ (g \in clFiles \/ (g.ok = FALSE /\ g.until = 0))
      <4>1. CASE g \in clFiles BY <4>1, <1>1
      <4>2. CASE g \notin clFiles
        <5>1. PICK f \in gs : g = [f EXCEPT !.ok = FALSE, !.until = 0] BY <4>2, <2>1, <3>1
        <5>2. PICK h : h = g BY <3>1
        <5>3. h \in C!File /\ h.ok = FALSE /\ h.until = 0 BY <5>1, <5>2, <1>7, Damaged
        <5> QED BY <5>2, <5>3
      <4> QED BY <4>1, <4>2
    <3>2. PICK fs, hs, log, t : fs = clFiles /\ hs = clFiles' /\ log = clLogged /\ t = now
      OBVIOUS
    <3>3. FilesRight(fs, log, t) BY <3>2, <1>1
    <3>4. \A x \in hs : x \in fs \/ (x.ok = FALSE /\ x.until = 0) BY <3>1, <3>2
    <3>5. FilesRight(hs, log, t) BY <3>3, <3>4, FewerFiles
    <3> QED BY <3>1, <3>2, <3>5
  <2>2. CASE clFiles' = clFiles \ C!Continued BY <2>2, <1>1 DEF FilesRight
  <2>3. CASE clFiles' = gs BY <2>3, <1>7
  <2> QED BY <2>1, <2>2, <2>3, <1>5, <1>6
<1>9. clDirty' = clDirty \/ clDirty' = C!NoDirtyLog BY <1>5
<1>10. clDirty' \in C!DirtyLog /\ DirtyRight(clDirty', clLogged, now)
  <2>1. CASE clDirty' = clDirty BY <2>1, <1>1 DEF C!TypeOK
  <2>2. CASE clDirty' = C!NoDirtyLog
    <3>1. C!NoDirtyLog \in C!DirtyLog BY DEF C!NoDirtyLog, C!DirtyLog, C!NoTime
    <3>2. C!NoDirtyLog.begin = 0 /\ C!NoDirtyLog.data = {} BY DEF C!NoDirtyLog, C!NoTime
    <3> QED BY <2>2, <3>1, <3>2, <1>2 DEF DirtyRight
  <2> QED BY <1>9, <2>1, <2>2
<1>11. /\ requests' = {} /\ asked' = 0 /\ task' = "none" BY <1>3 DEF C!NoTask, C!NoTime
<1>12. C!TypeOK'
  <2>1. /\ now' = now /\ clLogged' = clLogged /\ running' \in BOOLEAN /\ online' \in BOOLEAN
    BY <1>3
  <2>2. requests' \subseteq C!Interval /\ asked' \in 0..now BY <1>2, <1>11
  <2> QED BY <2>1, <2>2, <1>1, <1>4, <1>8, <1>10, <1>11 DEF C!TypeOK
<1>13. RequestsRight(requests', clFiles', clDirty'.data, asked') BY <1>11 DEF RequestsRight
<1>14. CInv' BY <1>3, <1>8, <1>10, <1>11, <1>12, <1>13 DEF CInv
<1>15. TrimStep
  <2>1. CASE clDirty' = clDirty BY <2>1 DEF TrimStep
  <2>2. CASE clDirty' = C!NoDirtyLog
    BY <2>2 DEF TrimStep, C!HasDirtyLog, C!NoDirtyLog
  <2> QED BY <1>9, <2>1, <2>2
<1> QED BY <1>14, <1>15

(* Every step keeps the invariant.                                         *)
LEMMA CKept ==
  ASSUME CInv, C!Next
  PROVE  CInv' /\ TrimStep
<1>1. ASSUME NEW entry \in BOOLEAN, C!Tick(entry) PROVE CInv' /\ TrimStep BY <1>1, TickKept
<1>2. ASSUME NEW kind \in C!Kinds, C!Exec(kind) PROVE CInv' /\ TrimStep BY <1>2, ExecKept
<1>3. ASSUME NEW n \in asked..now, C!ChunkReceived(n) PROVE CInv' /\ TrimStep
  BY <1>3, ChunkKept
<1>4. ASSUME NEW n \in asked..now, C!DiesStoring(n) PROVE CInv' /\ TrimStep
  BY <1>4, DeathKept
<1> QED BY <1>1, <1>2, <1>3, <1>4, MarkKept, DamageKept, CheckedKept, Zenon DEF C!Next

(* So does every step of the composition.                                  *)
LEMMA CStep == CInv /\ [MCNext]_allVars => CInv' /\ [TrimStep]_(C!vars)
<1> SUFFICES ASSUME CInv, [MCNext]_allVars PROVE CInv' /\ [TrimStep]_(C!vars) OBVIOUS
<1>1. C!Next \/ UNCHANGED cVars BY Zenon DEF MCNext, allVars
<1>2. CASE C!Next BY <1>2, CKept
<1>3. CASE UNCHANGED cVars
  <2>1. UNCHANGED C!vars BY <1>3 DEF cVars, C!vars
  <2>2. CInv' BY <1>3 DEF cVars, CInv, C!TypeOK
  <2> QED BY <2>1, <2>2
<1> QED BY <1>1, <1>2, <1>3

(* checkLogCache reports an error whenever something is missing between    *)
(* the beginning of the log and the dirty log.                             *)
LEMMA CleanWhole ==
  ASSUME CInv
  PROVE  C!CleanIsWhole
<1>1. /\ C!TypeOK /\ FilesRight(clFiles, clLogged, now) /\ clFiles \subseteq C!File
      /\ MaxNow \in Nat /\ clLogged \subseteq 1..now
  BY CheckAssumption DEF CInv, C!TypeOK, C!CheckLogAssumption
<1> SUFFICES ASSUME C!CacheErrors = {}, NEW e \in clLogged, e < clDirty.begin
             PROVE  \E f \in clFiles : e \in f.recs
  BY DEF C!CleanIsWhole
<1>2. e \in Nat /\ e # 0 BY <1>1 DEF C!TypeOK, C!Times
<1>3. PICK fs : fs = clFiles OBVIOUS
<1>4. /\ \A f \in fs : f.ok
      /\ \A f \in fs : f = C!FirstOf(fs) => f.first
      /\ \A f \in fs : ~(C!After(fs, f) # {} /\ f.until < C!NextOf(fs, f).since)
      /\ clDirty.lines # 0 => ~(clDirty.begin > C!LastUntil)
  <2>1. {<<"unreadable", f.since>> : f \in {g \in clFiles : ~g.ok}} = {}
    BY DEF C!CacheErrors
  <2>2. {<<"FirstFileMarkMissing", f.since>> :
           f \in {g \in clFiles : g = C!FirstOf(clFiles) /\ ~g.first}} = {}
    BY DEF C!CacheErrors
  <2>3. {<<"SinceUntilGap", m[1]>> : m \in C!ReaderMarks} = {}
    BY DEF C!CacheErrors
  <2>4. ~(clDirty.lines # 0 /\ clDirty.begin > C!LastUntil)
    BY DEF C!CacheErrors, C!HasDirtyLog
  <2>5. C!ReaderMarks = {} BY <2>3
  <2>6. \A f \in clFiles : ~(C!After(clFiles, f) # {} /\ f.until < C!NextOf(clFiles, f).since)
    BY <2>5 DEF C!ReaderMarks
  <2> QED BY <2>1, <2>2, <2>4, <2>6, <1>3
<1>5. clDirty.lines # 0
  <2>1. clDirty.lines = 0 => clDirty.begin = 0
    BY DEF CInv, DirtyRight, C!NoDirtyLog, C!NoTime
  <2> QED BY <2>1, <1>2
<1>6. C!LastUntil \in 0..now BY LastUntilIs
<1>7. e < C!LastUntil
  <2>1. clDirty.begin \in 0..MaxNow
    BY <1>1 DEF C!TypeOK, C!DirtyLog, C!Times, C!NoTime
  <2>2. now \in Nat BY <1>1 DEF C!TypeOK, C!Times
  <2> QED BY <2>1, <2>2, <1>1, <1>2, <1>4, <1>5, <1>6
<1>8. fs # {} BY <1>2, <1>3, <1>7 DEF C!LastUntil, C!NoTime
<1>9. PICK log, t : log = clLogged /\ t = now OBVIOUS
<1>10. FilesRight(fs, log, t) BY <1>1, <1>3, <1>9
<1>11. /\ C!FirstOf(fs) \in fs
       /\ C!LastOf(fs).until = EndOf(0, fs)
       /\ \A x \in Nat : x < EndOf(0, fs) =>
            \/ x < C!FirstOf(fs).since
            \/ \E f \in fs : f.since <= x /\ x < f.until
            \/ \E f \in fs : C!After(fs, f) # {} /\ f.until <= x /\ x < C!NextOf(fs, f).since
  BY <1>1, <1>3, <1>4, <1>8, <1>10, Gaps
<1>12. C!LastUntil = EndOf(0, fs)
  BY <1>3, <1>8, <1>11 DEF C!LastUntil, C!LastFile
<1>13. \A f \in fs : WholeFile(f, log, t) BY <1>10 DEF FilesRight
<1>14. ~(e < C!FirstOf(fs).since)
  <2>1. C!FirstOf(fs).first /\ C!FirstOf(fs).ok BY <1>4, <1>11
  <2>2. \A x \in log : C!FirstOf(fs).since <= x
    BY <2>1, <1>11, <1>13 DEF WholeFile
  <2>3. C!FirstOf(fs).since \in Nat BY <1>1, <1>3, <1>11, FileFields
  <2> QED BY <2>2, <2>3, <1>2, <1>9
<1>15. \A f \in fs :
         ~(C!After(fs, f) # {} /\ f.until <= e /\ e < C!NextOf(fs, f).since)
  <2> SUFFICES ASSUME NEW f \in fs, C!After(fs, f) # {}, f.until <= e, e < C!NextOf(fs, f).since
               PROVE  FALSE
    OBVIOUS
  <2>1. f.until \in Nat BY <1>1, <1>3, FileFields
  <2>2. C!NextOf(fs, f) \in fs
    <3>1. C!After(fs, f) \subseteq fs BY DEF C!After
    <3>2. \A g \in fs : g.since \in 0..MaxNow
      <4> TAKE g \in fs
      <4>1. g.since \in 1..MaxNow BY <1>1, <1>3, FileFields
      <4> QED BY <4>1, <1>1
    <3>3. PICK later : later = C!After(fs, f) OBVIOUS
    <3>4. C!FirstOf(later) \in later BY <3>1, <3>2, <3>3, <1>1, FirstAndLast
    <3> QED BY <3>1, <3>3, <3>4 DEF C!NextOf
  <2>3. C!NextOf(fs, f).since \in Nat BY <2>2, <1>1, <1>3, FileFields
  <2>4. f.until < C!NextOf(fs, f).since BY <2>1, <2>3, <1>2
  <2> QED BY <2>4, <1>4
<1>16. PICK f \in fs : f.since <= e /\ e < f.until
  BY <1>2, <1>7, <1>11, <1>12, <1>14, <1>15
<1>17. e \in f.recs
  <2>1. WholeFile(f, log, t) /\ f.ok BY <1>4, <1>13
  <2>2. f.recs = {x \in log : f.since <= x /\ x < f.until} BY <2>1, Zenon DEF WholeFile
  <2> QED BY <2>2, <1>9, <1>16
<1> QED BY <1>3, <1>17

(* getLog finds every file with an entry it is asked for.                  *)
LEMMA AllRead ==
  ASSUME CInv
  PROVE  C!ReadsAll
<1>1. /\ C!TypeOK /\ FilesRight(clFiles, clLogged, now) /\ clFiles \subseteq C!File
      /\ MaxNow \in Nat /\ now \in Nat /\ clLogged \subseteq 1..now
      /\ \A e \in clDirty.data : e \in clLogged
  BY CheckAssumption DEF CInv, C!TypeOK, C!CheckLogAssumption, C!Times, DirtyRight
<1> SUFFICES ASSUME clFiles # {}, \A f \in clFiles : f.ok,
                    NEW since \in 0..MaxNow, NEW until \in {0} \cup (since + 1)..MaxNow,
                    NEW e, e \in (UNION {f.recs : f \in clFiles})
                                 \cup {d \in clDirty.data : d >= C!LastUntil},
                    e >= since, until # 0 => e < until
             PROVE  e \in C!Read(since, until)
  BY DEF C!ReadsAll, C!NoTime
<1>0. e \in UNION {f.recs : f \in clFiles} \/ e \in {d \in clDirty.data : d >= C!LastUntil}
  OBVIOUS
<1>2. since \in Nat /\ until \in Nat BY <1>1
<1>3. PICK fs, log, t : fs = clFiles /\ log = clLogged /\ t = now OBVIOUS
<1>4. FilesRight(fs, log, t) /\ fs # {} /\ fs \subseteq C!File /\ \A f \in fs : f.ok
  BY <1>1, <1>3
<1>5. \A f \in fs : /\ f.since \in Nat /\ f.until \in Nat /\ f.since \in 0..MaxNow
                    /\ f.since < f.until
                    /\ f.recs = {x \in log : f.since <= x /\ x < f.until}
  <2> SUFFICES ASSUME NEW f \in fs
               PROVE  /\ f.since \in Nat /\ f.until \in Nat /\ f.since \in 0..MaxNow
                      /\ f.since < f.until
                      /\ f.recs = {x \in log : f.since <= x /\ x < f.until}
    OBVIOUS
  <2>1. WholeFile(f, log, t) /\ f.ok /\ f \in C!File BY <1>4 DEF FilesRight
  <2>2. f.since < f.until /\ f.recs = {x \in log : f.since <= x /\ x < f.until}
    BY <2>1, Zenon DEF WholeFile
  <2>3. f.since \in Nat /\ f.until \in Nat /\ f.since \in 1..MaxNow BY <2>1, FileFields
  <2> QED BY <2>2, <2>3, <1>1
<1>6. /\ C!LastOf(fs) \in fs /\ C!LastOf(fs).until = EndOf(0, fs)
      /\ \A f \in fs : f.until <= C!LastOf(fs).until
  <2>1. C!LastOf(fs) \in fs /\ C!LastOf(fs).until = EndOf(0, fs) BY <1>4, Gaps
  <2>2. 0 \in 0..MaxNow BY <1>1
  <2>3. \A f \in fs : f.until <= EndOf(0, fs) BY <2>2, <1>4, EndIs
  <2> QED BY <2>1, <2>3
<1>7. C!LastFile = C!LastOf(fs) /\ C!LastUntil = C!LastOf(fs).until
  BY <1>3, <1>4 DEF C!LastUntil, C!LastFile
<1> DEFINE older == {f.since : f \in {g \in clFiles : g.since <= since}}
           begin == IF since = 0 \/ older = {} THEN 0 ELSE C!Max(older)
           found == {f \in clFiles : f.since >= begin /\ (until # 0 => f.since <= until)}
<1>8. C!FindFiles(since, until) =
        IF found # {} /\ found = {C!LastFile} /\ C!LastFile.until < since THEN {} ELSE found
  BY DEF C!FindFiles, C!NoTime
<1>9. begin = 0 \/ \E g \in fs : g.since <= since /\ begin = g.since
  <2>1. older \in SUBSET (0..MaxNow) BY <1>3, <1>5
  <2>2. older # {} => C!Max(older) \in older
    <3> HIDE DEF older
    <3> QED BY <2>1, <1>1, Extremes
  <2> QED BY <2>2, <1>3
<1> HIDE DEF begin
<1>10. ASSUME NEW f \in fs, f.since <= e, e < f.until, e \in Nat
       PROVE  f \in C!FindFiles(since, until)
  <2>1. f.since >= begin
    <3>1. CASE begin = 0 BY <3>1, <1>5
    <3>2. CASE begin # 0
      <4>1. PICK g \in fs : g.since <= since /\ begin = g.since BY <3>2, <1>9
      <4>2. g = f \/ g.until <= f.since \/ f.until <= g.since BY <1>4 DEF FilesRight
      <4>3. ~(f.until <= g.since) BY <4>1, <1>2, <1>5, <1>10
      <4> QED BY <4>1, <4>2, <4>3, <1>5
    <3> QED BY <3>1, <3>2
  <2>2. until # 0 => f.since <= until BY <1>2, <1>5, <1>10
  <2>3. f \in found BY <2>1, <2>2, <1>3
  <2>4. ~(found = {C!LastFile} /\ C!LastFile.until < since)
    <3>1. ~(f.until < since) BY <1>2, <1>5, <1>10
    <3> HIDE DEF found
    <3> QED BY <3>1, <2>3
  <2> HIDE DEF found
  <2> QED BY <2>3, <2>4, <1>8
<1> DEFINE files2 == C!FindFiles(since, until)
           end == IF files2 = {} THEN C!LastUntil ELSE C!Max({f.until : f \in files2})
<1>11. C!Read(since, until) =
         {x \in (UNION {f.recs : f \in files2})
                \cup (IF clFiles # {} /\ (until = 0 \/ end < until) THEN clDirty.data ELSE {}) :
            x >= since /\ (until # 0 => x < until)}
  BY DEF C!Read, C!NoTime
<1>12. CASE e \in UNION {f.recs : f \in clFiles}
  <2>1. PICK f \in fs : e \in f.recs BY <1>3, <1>12
  <2>2. e \in log /\ f.since <= e /\ e < f.until BY <2>1, <1>5
  <2>3. e \in Nat BY <2>2, <1>1, <1>3
  <2>4. f \in files2 BY <2>2, <2>3, <1>10
  <2> HIDE DEF files2
  <2>5. e \in UNION {g.recs : g \in files2} BY <2>1, <2>4
  <2> HIDE DEF end
  <2> QED BY <2>5, <1>11
<1>13. CASE e \in {d \in clDirty.data : d >= C!LastUntil}
  <2>1. e \in Nat /\ e \in clDirty.data /\ e >= C!LastUntil
    <3>1. e \in clDirty.data /\ e >= C!LastUntil BY <1>13
    <3>2. e \in 1..now BY <3>1, <1>1
    <3> QED BY <3>1, <3>2
  <2>2. C!LastUntil \in Nat BY <1>5, <1>6, <1>7
  <2>3. until = 0 \/ end < until
    <3>1. CASE files2 = {} BY <3>1, <1>2, <2>1, <2>2
    <3>2. CASE files2 # {}
      <4> DEFINE ends == {f.until : f \in files2}
      <4>1. files2 \subseteq fs
        <5>1. found \subseteq fs BY <1>3
        <5> HIDE DEF found
        <5> QED BY <5>1, <1>8
      <4>2. \A f \in fs : f.until \in 0..MaxNow BY <1>4, FileFields
      <4>3. ends \in SUBSET (0..MaxNow) /\ ends # {}
        <5> HIDE DEF files2
        <5> QED BY <3>2, <4>1, <4>2
      <4>4. C!Max(ends) \in ends
        <5> HIDE DEF ends
        <5> QED BY <4>3, <1>1, Extremes
      <4> HIDE DEF files2
      <4>5. PICK f \in fs : C!Max(ends) = f.until BY <4>1, <4>4
      <4>6. f.until <= C!LastUntil /\ f.until \in Nat BY <4>5, <1>5, <1>6, <1>7
      <4>7. end = f.until BY <3>2, <4>5
      <4> HIDE DEF end
      <4> QED BY <4>6, <4>7, <1>2, <2>1, <2>2
    <3> QED BY <3>1, <3>2
  <2> HIDE DEF files2, end
  <2>4. e \in IF clFiles # {} /\ (until = 0 \/ end < until) THEN clDirty.data ELSE {}
    BY <2>1, <2>3
  <2> QED BY <2>4, <1>11
<1> QED BY <1>0, <1>12, <1>13

(* Wherever chunks are cut, files are continued or replaced, damaged or    *)
(* half written, and whenever the process dies: what can be read of the    *)
(* cache of the old provider is true, a check of it that finds no error    *)
(* is right, and getLog gives all there is.                                *)
THEOREM FilesAreTrue == MCSpec => []FilesTrue
<1>1. CInv => FilesTrue
  <2> SUFFICES ASSUME CInv PROVE FilesTrue OBVIOUS
  <2>1. C!FilesWhole
    <3>1. \A f \in clFiles : WholeFile(f, clLogged, now) BY DEF CInv, FilesRight
    <3> QED BY <3>1 DEF C!FilesWhole, WholeFile
  <2> QED BY <2>1, CleanWhole, AllRead DEF CInv, FilesTrue
<1> QED BY <1>1, CInitially, CStep, PTL DEF MCSpec

(* An entry leaves the dirty log only for a regular file or as its first   *)
(* instant, in any order of chunks, checks, signals, failures and deaths.  *)
THEOREM TrimmingIsSafe == MCSpec => TrimSafe
<1>1. [TrimStep]_(C!vars) => [\A e \in clDirty.data \ clDirty'.data :
        C!HasDirtyLog' => e = clDirty'.begin \/ \E f \in clFiles' : e \in f.recs]_(C!vars)
  BY Zenon DEF TrimStep
<1> QED BY <1>1, CInitially, CStep, PTL DEF MCSpec, TrimSafe, C!TrimSafe

=============================================================================
