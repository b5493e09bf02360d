------------------------------ MODULE Induction ------------------------------
(***************************************************************************)
(* Induction over the natural numbers without operator parameters, and     *)
(* what it is for: functions that are defined by recursion, and the folds  *)
(* over sequences.                                                         *)
(*                                                                         *)
(* It comes from the order of the finite sets of numbers, which is         *)
(* well-founded: a set of numbers without a least one would give a set of  *)
(* intervals 1 .. n without a least one.                                   *)
(***************************************************************************)
EXTENDS Integers, Sequences, FiniteSetTheorems, WellFoundedInduction, TLAPS

LEMMA NatLeast ==
  ASSUME NEW Z, Z \subseteq Nat, Z # {}
  PROVE  \E n \in Z : \A k \in Z : n <= k
<1>1. PICK R : R = StrictSubsetOrdering(Nat)
  OBVIOUS
<1>2. IsWellFoundedOn(R, FiniteSubsetsOf(Nat))
  BY <1>1, FS_StrictSubsetOrderingWellFounded
<1>3. PICK T : T = {1 .. n : n \in Z}
  OBVIOUS
<1>4. T \subseteq FiniteSubsetsOf(Nat)
  <2> SUFFICES ASSUME NEW n \in Z PROVE 1 .. n \in FiniteSubsetsOf(Nat)
    BY <1>3
  <2>1. IsFiniteSet(1 .. n)
    <3>1. n \in Int /\ 1 \in Int
      OBVIOUS
    <3> QED BY <3>1, FS_Interval
  <2>2. 1 .. n \subseteq Nat
    OBVIOUS
  <2> QED BY <2>1, <2>2 DEF FiniteSubsetsOf
<1>5. T # {}
  BY <1>3
<1>6. PICK x \in T : \A y \in T : ~(<<y, x>> \in R)
  BY <1>2, <1>4, <1>5, WFMin
<1>7. PICK n \in Z : x = 1 .. n
  BY <1>3, <1>6
<1>8. ASSUME NEW k \in Z PROVE n <= k
  <2> SUFFICES ASSUME k < n PROVE FALSE
    OBVIOUS
  <2>1. 1 .. k \in T
    BY <1>3
  <2>2. 1 .. k \subseteq 1 .. n /\ 1 .. k # 1 .. n
    <3>1. n \in 1 .. n /\ n \notin 1 .. k
      OBVIOUS
    <3> QED BY <3>1
  <2>3. <<1 .. k, 1 .. n>> \in R
    BY <1>1, <2>2 DEF StrictSubsetOrdering
  <2> QED BY <1>6, <1>7, <2>1, <2>3
<1> QED BY <1>7, <1>8

(* Induction: what holds of the numbers in Z.                              *)
LEMMA NatInSet ==
  ASSUME NEW Z, 0 \in Z, \A n \in Nat : n \in Z => n + 1 \in Z
  PROVE  Nat \subseteq Z
<1> SUFFICES ASSUME Nat \ Z # {} PROVE FALSE
  OBVIOUS
<1>1. Nat \ Z \subseteq Nat
  OBVIOUS
<1>2. PICK n \in Nat \ Z : \A k \in Nat \ Z : n <= k
  BY <1>1, NatLeast
<1>3. n - 1 \in Nat /\ (n - 1) + 1 = n
  BY <1>2
<1>4. n - 1 \in Z
  BY <1>2, <1>3
<1> QED BY <1>2, <1>3, <1>4

(* A set of numbers up to n has a greatest one.                            *)
LEMMA NatGreatest ==
  ASSUME NEW n \in Nat, NEW s \in SUBSET (0 .. n), s # {}
  PROVE  \E m \in s : \A j \in s : j <= m
<1>1. PICK Z : Z = {n - j : j \in s}
  OBVIOUS
<1>2. Z \subseteq Nat /\ Z # {}
  <2>1. \A j \in s : n - j \in Nat
    OBVIOUS
  <2> QED BY <1>1, <2>1
<1>3. PICK k \in Z : \A l \in Z : k <= l
  BY <1>2, NatLeast
<1>4. PICK m \in s : k = n - m
  BY <1>1, <1>3
<1>5. ASSUME NEW j \in s PROVE j <= m
  <2>1. n - j \in Z
    BY <1>1
  <2>2. k <= n - j
    BY <1>3, <2>1
  <2> QED BY <1>4, <2>2
<1> QED BY <1>4, <1>5

(* A fold over 1 .. n: step[i] is what the i-th one does.  It is total on  *)
(* the sets of indices, for that is how the folds are defined.             *)
IsFold(g, dom, base, n, step) ==
  /\ g \in [SUBSET (1 .. n) -> dom]
  /\ g[{}] = base
  /\ \A s \in SUBSET (1 .. n) : \A m \in s :
       (\A j \in s : j <= m) => g[s] = step[m][g[s \ {m}]]

LEMMA FoldExists ==
  ASSUME NEW dom, NEW base \in dom, NEW step, NEW n \in Nat,
         \A i \in 1 .. n : step[i] \in [dom -> dom]
  PROVE  \E g : IsFold(g, dom, base, n, step)
<1> DEFINE Z == {k \in Nat : k <= n => \E g : IsFold(g, dom, base, k, step)}
<1>1. 0 \in Z
  <2>1. PICK g : g = [s \in {{}} |-> base]
    OBVIOUS
  <2>2. 1 .. 0 = {} /\ SUBSET (1 .. 0) = {{}}
    OBVIOUS
  <2>3. g \in [SUBSET (1 .. 0) -> dom] /\ g[{}] = base
    BY <2>1, <2>2
  <2>4. IsFold(g, dom, base, 0, step)
    BY <2>2, <2>3 DEF IsFold
  <2> QED BY <2>4
<1>2. ASSUME NEW k \in Nat, k \in Z PROVE k + 1 \in Z
  <2> SUFFICES ASSUME k + 1 <= n PROVE \E g : IsFold(g, dom, base, k + 1, step)
    OBVIOUS
  <2>1. PICK g : IsFold(g, dom, base, k, step)
    BY <1>2
  <2>2. PICK h : h = [s \in SUBSET (1 .. k + 1) |-> IF k + 1 \in s THEN step[k + 1][g[s \ {k + 1}]] ELSE g[s]]
    OBVIOUS
  <2>3. \A s \in SUBSET (1 .. k + 1) : s \ {k + 1} \in SUBSET (1 .. k) /\ (k + 1 \notin s => s \in SUBSET (1 .. k))
    OBVIOUS
  <2>4. step[k + 1] \in [dom -> dom]
    <3>1. k + 1 \in 1 .. n
      OBVIOUS
    <3> QED BY <3>1
  <2>5. g \in [SUBSET (1 .. k) -> dom]
    BY <2>1 DEF IsFold
  <2>6. ASSUME NEW s \in SUBSET (1 .. k + 1) PROVE h[s] \in dom
    <3>1. CASE k + 1 \in s
      BY <2>2, <2>3, <2>4, <2>5, <3>1
    <3>2. CASE k + 1 \notin s
      BY <2>2, <2>3, <2>5, <3>2
    <3> QED BY <3>1, <3>2
  <2>7. h \in [SUBSET (1 .. k + 1) -> dom]
    BY <2>2, <2>6
  <2>8. h[{}] = base
    BY <2>1, <2>2 DEF IsFold
  <2>9. ASSUME NEW s \in SUBSET (1 .. k + 1), NEW m \in s, \A j \in s : j <= m
        PROVE  h[s] = step[m][h[s \ {m}]]
    <3>1. CASE k + 1 \in s
      <4>1. m = k + 1
        BY <2>9, <3>1
      <4>2. h[s \ {m}] = g[s \ {m}]
        BY <2>2, <4>1
      <4> QED BY <2>2, <3>1, <4>1, <4>2
    <3>2. CASE k + 1 \notin s
      <4>1. s \in SUBSET (1 .. k) /\ k + 1 \notin s \ {m} /\ s \ {m} \in SUBSET (1 .. k + 1)
        BY <2>3, <3>2
      <4>2. h[s] = g[s] /\ h[s \ {m}] = g[s \ {m}]
        BY <2>2, <3>2, <4>1
      <4>3. g[s] = step[m][g[s \ {m}]]
        BY <2>1, <2>9, <4>1 DEF IsFold
      <4> QED BY <4>2, <4>3
    <3> QED BY <3>1, <3>2
  <2>10. IsFold(h, dom, base, k + 1, step)
    BY <2>7, <2>8, <2>9 DEF IsFold
  <2> QED BY <2>10
<1>3. Nat \subseteq Z
  <2> HIDE DEF Z
  <2> QED BY <1>1, <1>2, NatInSet
<1> QED BY <1>3

(* What is computed step by step, from base on.                            *)
IsStepwise(f, dom, base, n, step) ==
  /\ f \in [0 .. n -> dom]
  /\ f[0] = base
  /\ \A i \in 1 .. n : f[i] = step[i][f[i - 1]]

LEMMA Stepwise ==
  ASSUME NEW dom, NEW base \in dom, NEW step, NEW n \in Nat,
         \A i \in 1 .. n : step[i] \in [dom -> dom]
  PROVE  \E f : IsStepwise(f, dom, base, n, step)
<1>1. PICK g : IsFold(g, dom, base, n, step)
  BY FoldExists
<1>2. PICK f : f = [k \in 0 .. n |-> g[1 .. k]]
  OBVIOUS
<1>3. g \in [SUBSET (1 .. n) -> dom] /\ g[{}] = base
  BY <1>1 DEF IsFold
<1>4. \A k \in 0 .. n : 1 .. k \in SUBSET (1 .. n)
  OBVIOUS
<1>5. f \in [0 .. n -> dom]
  BY <1>2, <1>3, <1>4
<1>6. 0 \in 0 .. n /\ 1 .. 0 = {}
  OBVIOUS
<1>7. f[0] = base
  BY <1>2, <1>3, <1>6
<1>8. ASSUME NEW i \in 1 .. n PROVE f[i] = step[i][f[i - 1]]
  <2>1. i \in 1 .. i /\ (\A j \in 1 .. i : j <= i) /\ (1 .. i) \ {i} = 1 .. i - 1
    OBVIOUS
  <2>2. i \in 0 .. n /\ i - 1 \in 0 .. n
    OBVIOUS
  <2>3. g[1 .. i] = step[i][g[(1 .. i) \ {i}]]
    BY <1>1, <1>4, <2>1, <2>2, Zenon DEF IsFold
  <2> QED BY <1>2, <2>1, <2>2, <2>3
<1>9. IsStepwise(f, dom, base, n, step)
  BY <1>5, <1>7, <1>8 DEF IsStepwise
<1> QED BY <1>9

(* A tail recursion that gets on in rank ends: where it stops it gives     *)
(* res, elsewhere what it gives for the next one.                          *)
SolvesTail(g, dom, ran, stops, res, next1) ==
  g \in [dom -> ran] /\ \A d \in dom : g[d] = IF d \in stops THEN res[d] ELSE g[next1[d]]

LEMMA TailRecursion ==
  ASSUME NEW dom, NEW ran, NEW stops \in SUBSET dom, NEW res \in [dom -> ran],
         NEW next1 \in [dom -> dom], NEW rank, NEW n \in Nat,
         \A d \in dom : rank[d] \in 0 .. n,
         \A d \in dom \ stops : rank[next1[d]] < rank[d]
  PROVE  \E g : SolvesTail(g, dom, ran, stops, res, next1)
<1> DEFINE Below(k) == {d \in dom : rank[d] < k}
           Solves(g, k) == /\ g \in [dom -> ran]
                           /\ \A d \in Below(k) : g[d] = IF d \in stops THEN res[d] ELSE g[next1[d]]
           Z == {k \in Nat : \E g : Solves(g, k)}
<1>1. 0 \in Z
  <2>1. Below(0) = {}
    OBVIOUS
  <2>2. Solves(res, 0)
    BY <2>1
  <2> QED BY <2>2
<1>2. ASSUME NEW k \in Nat, k \in Z PROVE k + 1 \in Z
  <2>1. PICK g : Solves(g, k)
    BY <1>2
  <2>2. PICK h : h = [d \in dom |-> IF d \in stops THEN res[d] ELSE g[next1[d]]]
    OBVIOUS
  <2>3. h \in [dom -> ran]
    BY <2>1, <2>2
  <2>4. ASSUME NEW d \in Below(k) PROVE h[d] = g[d]
    BY <2>1, <2>2
  <2>5. ASSUME NEW d \in Below(k + 1) PROVE h[d] = IF d \in stops THEN res[d] ELSE h[next1[d]]
    <3>1. CASE d \in stops
      BY <2>2, <3>1
    <3>2. CASE d \notin stops
      <4>1. next1[d] \in Below(k)
        <5>1. PICK e \in dom : e = next1[d]
          OBVIOUS
        <5>2. rank[e] < rank[d] /\ rank[d] < k + 1 /\ rank[d] \in Nat /\ rank[e] \in Nat
          BY <3>2, <5>1
        <5> QED BY <5>1, <5>2
      <4>2. h[next1[d]] = g[next1[d]]
        BY <2>4, <4>1
      <4> QED BY <2>2, <3>2, <4>2
    <3> QED BY <3>1, <3>2
  <2>6. Solves(h, k + 1)
    BY <2>3, <2>5
  <2> QED BY <2>6
<1>3. n + 1 \in Z
  <2> HIDE DEF Z
  <2> QED BY <1>1, <1>2, NatInSet
<1>4. PICK g : Solves(g, n + 1)
  BY <1>3
<1>5. Below(n + 1) = dom
  OBVIOUS
<1> QED BY <1>4, <1>5 DEF SolvesTail

(* A finite set in a linear order, given as the pairs in it: the element   *)
(* with k elements up to it is the k-th.                                   *)
UpTo(I, leq, i) == {j \in I : <<j, i>> \in leq}

IsLinear(I, leq) ==
  /\ \A i, j \in I : <<i, j>> \in leq \/ <<j, i>> \in leq
  /\ \A i, j \in I : <<i, j>> \in leq /\ <<j, i>> \in leq => i = j
  /\ \A i, j, k \in I : <<i, j>> \in leq /\ <<j, k>> \in leq => <<i, k>> \in leq

Arranges(pos, I, leq) ==
  /\ pos \in [1 .. Cardinality(I) -> I]
  /\ \A i \in I : \E k \in 1 .. Cardinality(I) : pos[k] = i
  /\ \A k, l \in 1 .. Cardinality(I) : k <= l <=> <<pos[k], pos[l]>> \in leq
  /\ \A k \in 1 .. Cardinality(I), i \in I : Cardinality(UpTo(I, leq, i)) = k <=> i = pos[k]

LEMMA Ranking ==
  ASSUME NEW I, IsFiniteSet(I), NEW leq, IsLinear(I, leq)
  PROVE  Cardinality(I) \in Nat /\ \E pos : Arranges(pos, I, leq)
<1>1. PICK n \in Nat : n = Cardinality(I)
  BY FS_CardinalityType
<1>2. PICK rank : rank = [i \in I |-> Cardinality(UpTo(I, leq, i))]
  OBVIOUS
<1>3. ASSUME NEW i \in I PROVE IsFiniteSet(UpTo(I, leq, i)) /\ rank[i] \in 1 .. n
  <2>1. UpTo(I, leq, i) \in SUBSET I /\ i \in UpTo(I, leq, i)
    BY DEF UpTo, IsLinear
  <2>2. IsFiniteSet(UpTo(I, leq, i)) /\ Cardinality(UpTo(I, leq, i)) <= Cardinality(I)
    BY <2>1, FS_Subset, Zenon
  <2>3. Cardinality(UpTo(I, leq, i)) \in Nat
    BY <2>2, FS_CardinalityType
  <2>4. Cardinality(UpTo(I, leq, i)) # 0
    BY <2>1, <2>2, FS_EmptySet
  <2> QED BY <1>1, <1>2, <2>2, <2>3, <2>4
<1>4. ASSUME NEW i \in I, NEW j \in I, <<i, j>> \in leq, i # j PROVE rank[i] < rank[j]
  <2>1. UpTo(I, leq, i) \in SUBSET UpTo(I, leq, j)
    BY <1>4 DEF UpTo, IsLinear
  <2>2. j \in UpTo(I, leq, j) /\ j \notin UpTo(I, leq, i)
    BY <1>4 DEF UpTo, IsLinear
  <2>3. /\ Cardinality(UpTo(I, leq, i)) <= Cardinality(UpTo(I, leq, j))
        /\ Cardinality(UpTo(I, leq, i)) # Cardinality(UpTo(I, leq, j))
    BY <1>3, <2>1, <2>2, FS_Subset
  <2> QED BY <1>2, <1>3, <2>3
<1>5. ASSUME NEW i \in I, NEW j \in I PROVE (rank[i] <= rank[j]) <=> (<<i, j>> \in leq)
  <2>1. rank[i] \in 1 .. n /\ rank[j] \in 1 .. n
    BY <1>3
  <2>2. CASE i = j
    BY <2>1, <2>2 DEF IsLinear
  <2>3. CASE i # j /\ <<i, j>> \in leq
    BY <1>4, <2>1, <2>3
  <2>4. CASE i # j /\ ~(<<i, j>> \in leq)
    <3>1. <<j, i>> \in leq
      BY <2>4 DEF IsLinear
    <3>2. rank[j] < rank[i]
      BY <1>4, <2>4, <3>1
    <3> QED BY <2>1, <2>4, <3>2
  <2> QED BY <2>2, <2>3, <2>4
<1>6. \A i, j \in I : rank[i] = rank[j] => i = j
  <2> SUFFICES ASSUME NEW i \in I, NEW j \in I, rank[i] = rank[j] PROVE i = j
    OBVIOUS
  <2>1. rank[i] \in 1 .. n /\ rank[j] \in 1 .. n
    BY <1>3
  <2>2. rank[i] <= rank[j] /\ rank[j] <= rank[i]
    BY <2>1
  <2>3. <<i, j>> \in leq /\ <<j, i>> \in leq
    BY <1>5, <2>2
  <2> QED BY <2>3 DEF IsLinear
<1>7. rank \in Surjection(I, 1 .. n)
  <2>1. rank \in [I -> 1 .. n]
    BY <1>2, <1>3
  <2>2. rank \in Injection(I, 1 .. n)
    BY <1>6, <2>1 DEF Injection, IsInjective
  <2>3. IsFiniteSet(1 .. n) /\ Cardinality(1 .. n) = n
    <3>1. n \in Int /\ 1 \in Int
      OBVIOUS
    <3>2. IsFiniteSet(1 .. n) /\ Cardinality(1 .. n) = IF 1 > n THEN 0 ELSE n - 1 + 1
      BY <3>1, FS_Interval
    <3> QED BY <3>2
  <2>4. Cardinality(I) = Cardinality(1 .. n)
    BY <1>1, <2>3
  <2> QED BY <2>2, <2>3, <2>4, FS_Injection
<1>8. \A k \in 1 .. n : \E i \in I : rank[i] = k
  BY <1>7 DEF Surjection
<1>9. PICK pos : pos = [k \in 1 .. n |-> CHOOSE i \in I : rank[i] = k]
  OBVIOUS
<1>10. \A k \in 1 .. n : pos[k] \in I /\ rank[pos[k]] = k
  <2> SUFFICES ASSUME NEW k \in 1 .. n PROVE pos[k] \in I /\ rank[pos[k]] = k
    OBVIOUS
  <2>1. pos[k] = CHOOSE i \in I : rank[i] = k
    BY <1>9
  <2> QED BY <1>8, <2>1, Zenon
<1>11. Arranges(pos, I, leq)
  <2>1. pos \in [1 .. n -> I]
    BY <1>9, <1>10
  <2>2. \A i \in I : \E k \in 1 .. n : pos[k] = i
    <3> SUFFICES ASSUME NEW i \in I PROVE \E k \in 1 .. n : pos[k] = i
      OBVIOUS
    <3>1. PICK k \in 1 .. n : k = rank[i]
      BY <1>3
    <3> QED BY <1>6, <1>10, <3>1
  <2>3. \A k, l \in 1 .. n : k <= l <=> <<pos[k], pos[l]>> \in leq
    <3> SUFFICES ASSUME NEW k \in 1 .. n, NEW l \in 1 .. n
                 PROVE  k <= l <=> <<pos[k], pos[l]>> \in leq
      OBVIOUS
    <3>1. rank[pos[k]] = k /\ rank[pos[l]] = l /\ pos[k] \in I /\ pos[l] \in I
      BY <1>10
    <3> QED BY <1>5, <3>1
  <2>4. \A k \in 1 .. n, i \in I : Cardinality(UpTo(I, leq, i)) = k <=> i = pos[k]
    BY <1>2, <1>6, <1>10
  <2> QED BY <1>1, <2>1, <2>2, <2>3, <2>4 DEF Arranges
<1> QED BY <1>1, <1>11

(* The numbers of a finite set, in their order.                            *)
InOrderAt(pos, I) ==
  /\ pos \in [1 .. Cardinality(I) -> I]
  /\ \A i \in I : \E k \in 1 .. Cardinality(I) : pos[k] = i
  /\ \A k, l \in 1 .. Cardinality(I) : k <= l <=> pos[k] <= pos[l]
  /\ \A k \in 1 .. Cardinality(I), i \in I : Cardinality({j \in I : j <= i}) = k <=> i = pos[k]

LEMMA NumbersArranged ==
  ASSUME NEW n \in Nat, NEW I \in SUBSET (1 .. n)
  PROVE  Cardinality(I) \in Nat /\ IsFiniteSet(I) /\ \E pos : InOrderAt(pos, I)
<1>1. IsFiniteSet(I)
  <2>1. n \in Int /\ 1 \in Int
    OBVIOUS
  <2>2. IsFiniteSet(1 .. n)
    BY <2>1, FS_Interval
  <2> QED BY <2>2, FS_Subset
<1>2. PICK leq : leq = {x \in I \X I : x[1] <= x[2]}
  OBVIOUS
<1>3. \A i, j \in I : <<i, j>> \in leq <=> i <= j
  BY <1>2
<1>4. IsLinear(I, leq)
  BY <1>3 DEF IsLinear
<1>5. Cardinality(I) \in Nat /\ \E pos : Arranges(pos, I, leq)
  BY <1>1, <1>4, Ranking
<1>6. PICK pos : Arranges(pos, I, leq)
  BY <1>5
<1>7. \A i \in I : UpTo(I, leq, i) = {j \in I : j <= i}
  BY <1>3 DEF UpTo
<1>8. /\ pos \in [1 .. Cardinality(I) -> I]
      /\ \A i \in I : \E k \in 1 .. Cardinality(I) : pos[k] = i
      /\ \A k, l \in 1 .. Cardinality(I) : k <= l <=> <<pos[k], pos[l]>> \in leq
  BY <1>6 DEF Arranges
<1>9. \A k, l \in 1 .. Cardinality(I) : k <= l <=> pos[k] <= pos[l]
  BY <1>3, <1>8
<1>10. ASSUME NEW k \in 1 .. Cardinality(I), NEW i \in I
       PROVE  Cardinality({j \in I : j <= i}) = k <=> i = pos[k]
  <2>1. Cardinality(UpTo(I, leq, i)) = k <=> i = pos[k]
    BY <1>6 DEF Arranges
  <2> QED BY <1>7, <2>1
<1>11. InOrderAt(pos, I)
  BY <1>8, <1>9, <1>10, Zenon DEF InOrderAt
<1> QED BY <1>1, <1>5, <1>11, Zenon

(* Numbers in the order of their weights, those of equal weight in their   *)
(* own.                                                                    *)
LEMMA WeighedLinear ==
  ASSUME NEW n \in Nat, NEW w \in [1 .. n -> Nat], NEW leq,
         \A i, j \in 1 .. n : <<i, j>> \in leq <=> w[i] < w[j] \/ (w[i] = w[j] /\ i <= j)
  PROVE  IsLinear(1 .. n, leq)
<1>1. ASSUME NEW i \in 1 .. n, NEW j \in 1 .. n PROVE <<i, j>> \in leq \/ <<j, i>> \in leq
  <2>1. w[i] \in Nat /\ w[j] \in Nat /\ i \in Nat /\ j \in Nat
    OBVIOUS
  <2>2. w[i] < w[j] \/ w[j] < w[i] \/ (w[i] = w[j] /\ i <= j) \/ (w[j] = w[i] /\ j <= i)
    BY <2>1
  <2> QED BY <2>2, Zenon
<1>2. \A i, j \in 1 .. n : <<i, j>> \in leq /\ <<j, i>> \in leq => i = j
  OBVIOUS
<1>3. ASSUME NEW i \in 1 .. n, NEW j \in 1 .. n, NEW k \in 1 .. n,
             <<i, j>> \in leq, <<j, k>> \in leq
      PROVE  <<i, k>> \in leq
  <2>1. w[i] \in Nat /\ w[j] \in Nat /\ w[k] \in Nat /\ i \in Nat /\ j \in Nat /\ k \in Nat
    OBVIOUS
  <2>2. /\ w[i] < w[j] \/ (w[i] = w[j] /\ i <= j)
        /\ w[j] < w[k] \/ (w[j] = w[k] /\ j <= k)
    BY <1>3, Zenon
  <2>3. w[i] < w[k] \/ (w[i] = w[k] /\ i <= k)
    BY <2>1, <2>2
  <2> QED BY <2>3, Zenon
<1> QED BY <1>1, <1>2, <1>3, Zenon DEF IsLinear
=============================================================================
