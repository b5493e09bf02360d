------------------------- MODULE SyncScheduleProofs -------------------------
(***************************************************************************)
(* Proofs about SyncSchedule.  OneSyncer and FlagCoversSync follow from    *)
(* GroupsInv: the slaves of the pending groups and of the pending clears   *)
(* are flagged and belong to one of them only, and a syncer runs exactly   *)
(* for the slaves a group still waits for.                                 *)
(***************************************************************************)
EXTENDS SyncSchedule, TLAPS

Flagged(ss) == \A s \in ss : syncInProgress[s]

GroupsInv ==
  /\ \A g \in groups : g.left \subseteq g.sites /\ Flagged(g.sites)
  /\ \A c \in clears : Flagged(c)
  /\ \A g, h \in groups : g # h => g.sites \cap h.sites = {}
  /\ \A c, d \in clears : c # d => c \cap d = {}
  /\ \A g \in groups, c \in clears : g.sites \cap c = {}
  /\ \A s \in Slaves : running[s] = IF \E g \in groups : s \in g.left THEN 1 ELSE 0

IInv == TypeOK /\ GroupsInv

USE ConstantsAssumption

-----------------------------------------------------------------------------
(* What one or several syncLog calls are: groups of slaves that were free, *)
(* no slave in two of them.                                                *)
Sound(ss, gs) ==
  /\ ss \subseteq Slaves /\ \A s \in ss : ~syncInProgress[s]
  /\ gs \subseteq Group
  /\ \A g \in gs : g.left = g.sites /\ g.sites \subseteq ss
  /\ \A g, h \in gs : g # h => g.sites \cap h.sites = {}

(* Beginning sound groups keeps the invariant of the groups and the types  *)
(* of what the loop of syncLog writes.                                     *)
LEMMA BeginKeeps ==
  ASSUME IInv, NEW ss, NEW gs, Sound(ss, gs), Begin(ss, gs)
  PROVE  /\ GroupsInv'
         /\ syncInProgress' \in [Slaves -> BOOLEAN]
         /\ running' \in [Slaves -> Nat]
         /\ groups' \subseteq Group
         /\ clears' \subseteq SUBSET Slaves
<1> USE DEF IInv, Sound, Begin, TypeOK
<1>1. /\ syncInProgress' \in [Slaves -> BOOLEAN]
      /\ groups' \subseteq Group
      /\ clears' \subseteq SUBSET Slaves
  OBVIOUS
<1>2. running' \in [Slaves -> Nat]
  <2>1. \A s \in Slaves : (IF \E g \in gs : s \in g.left THEN 1 ELSE 0) \in Nat
    OBVIOUS
  <2>2. \A n, m \in Nat : n + m \in Nat
    OBVIOUS
  <2>3. \A s \in Slaves : running[s] \in Nat
    OBVIOUS
  <2> QED BY <2>1, <2>2, <2>3
<1>3. \A g \in groups' : g \in groups \/ (g \in gs /\ g.sites # {})
  OBVIOUS
<1>4. \A s \in Slaves : syncInProgress[s] => syncInProgress'[s]
  OBVIOUS
<1>5. \A s \in ss : syncInProgress'[s] /\ ~syncInProgress[s]
  OBVIOUS
<1>6. \A g \in groups : g.left \subseteq g.sites /\ Flagged(g.sites) /\ g.sites \subseteq Slaves
  BY DEF GroupsInv, Group
<1>7. \A g \in gs : g.left = g.sites /\ g.sites \subseteq ss
  OBVIOUS
<1>8. \A g \in groups, h \in gs : g.sites \cap h.sites = {}
  BY <1>5, <1>6, <1>7 DEF Flagged
<1>9. \A c \in clears : Flagged(c) /\ c \subseteq Slaves
  BY DEF GroupsInv
<1>10. (\A g \in groups : g.left \subseteq g.sites /\ Flagged(g.sites))'
  <2> SUFFICES ASSUME NEW g \in groups'
               PROVE  g.left \subseteq g.sites /\ \A s \in g.sites : syncInProgress'[s]
    BY DEF Flagged
  <2>1. CASE g \in groups
    BY <2>1, <1>4, <1>6 DEF Flagged
  <2>2. CASE g \in gs
    BY <2>2, <1>5, <1>7
  <2> QED BY <1>3, <2>1, <2>2
<1>11. (\A c \in clears : Flagged(c))'
  BY <1>4, <1>9 DEF Flagged
<1>12. (\A g, h \in groups : g # h => g.sites \cap h.sites = {})'
  <2>1. \A g, h \in groups : g # h => g.sites \cap h.sites = {}
    BY DEF GroupsInv
  <2>2. \A g, h \in gs : g # h => g.sites \cap h.sites = {}
    OBVIOUS
  <2> QED BY <1>3, <1>8, <2>1, <2>2
<1>13. (\A c, d \in clears : c # d => c \cap d = {})'
  BY DEF GroupsInv
<1>14. (\A g \in groups, c \in clears : g.sites \cap c = {})'
  <2>1. \A g \in groups, c \in clears : g.sites \cap c = {}
    BY DEF GroupsInv
  <2>2. \A g \in gs, c \in clears : g.sites \cap c = {}
    BY <1>5, <1>7, <1>9 DEF Flagged
  <2>3. clears' = clears
    OBVIOUS
  <2> QED BY <1>3, <2>1, <2>2, <2>3
<1>15. (\A s \in Slaves : running[s] = IF \E g \in groups : s \in g.left THEN 1 ELSE 0)'
  <2> SUFFICES ASSUME NEW s \in Slaves
               PROVE  running'[s] = IF \E g \in groups' : s \in g.left THEN 1 ELSE 0
    OBVIOUS
  <2>1. running[s] = IF \E g \in groups : s \in g.left THEN 1 ELSE 0
    BY DEF GroupsInv
  <2>2. running'[s] = running[s] + IF \E g \in gs : s \in g.left THEN 1 ELSE 0
    OBVIOUS
  <2>3. (\E g \in groups' : s \in g.left)
          <=> (\E g \in groups : s \in g.left) \/ (\E g \in gs : s \in g.left)
    <3>1. \A g \in gs : s \in g.left => g \in groups'
      BY <1>7
    <3>2. groups \subseteq groups'
      OBVIOUS
    <3> QED BY <1>3, <3>1, <3>2
  <2>4. ~((\E g \in groups : s \in g.left) /\ (\E g \in gs : s \in g.left))
    BY <1>6, <1>7, <1>8
  <2> DEFINE old == \E g \in groups : s \in g.left
             new == \E g \in gs : s \in g.left
             now == \E g \in groups' : s \in g.left
  <2>5. (now <=> old \/ new) /\ ~(old /\ new)
    BY <2>3, <2>4
  <2>6. /\ running[s] = IF old THEN 1 ELSE 0
        /\ running'[s] = running[s] + IF new THEN 1 ELSE 0
    BY <2>1, <2>2
  <2> HIDE DEF old, new, now
  <2>7. running'[s] = IF now THEN 1 ELSE 0
    BY ONLY <2>5, <2>6
  <2> QED BY <2>7 DEF now
<1> QED BY <1>1, <1>2, <1>10, <1>11, <1>12, <1>13, <1>14, <1>15 DEF GroupsInv

(* A single syncLog call is sound.                                         *)
LEMMA CallSound ==
  ASSUME IInv, NEW p \in Paths, NEW cb \in Requests \cup {Quiet, Reset}
  PROVE  Sound(Free(p), {NewGroup(Free(p), cb)})
BY DEF Sound, Free, NewGroup, Group

(* A syncLog call keeps the invariant of the groups.                       *)
LEMMA CallKeeps ==
  ASSUME IInv, NEW p \in Paths, NEW cb \in Requests \cup {Quiet, Reset}, SyncLog(p, cb)
  PROVE  /\ GroupsInv'
         /\ syncInProgress' \in [Slaves -> BOOLEAN]
         /\ running' \in [Slaves -> Nat]
         /\ groups' \subseteq Group
         /\ clears' \subseteq SUBSET Slaves
BY CallSound, BeginKeeps DEF SyncLog

(* The calls that a mntchng signal makes share no slave.                   *)
LEMMA MountSound ==
  ASSUME IInv, NEW p \in Paths
  PROVE  Sound(UNION {Free(s) : s \in Called(p)},
               {NewGroup(FoundBy(p, s), Reset) : s \in Called(p)})
<1> DEFINE ss == UNION {Free(s) : s \in Called(p)}
           gs == {NewGroup(FoundBy(p, s), Reset) : s \in Called(p)}
<1>1. Called(p) \subseteq Slaves
  BY DEF Called, Free
<1>2. \A s \in Slaves : Free(s) \subseteq Under[s] /\ Under[s] \subseteq Slaves
                        /\ \A t \in Free(s) : ~syncInProgress[t]
  BY DEF Free
<1>3. \A s \in Slaves : FoundBy(p, s) \subseteq Free(s)
  BY DEF FoundBy
<1>4. ss \subseteq Slaves /\ \A s \in ss : ~syncInProgress[s]
  BY <1>1, <1>2
<1>5. ASSUME NEW s \in Called(p)
      PROVE  FoundBy(p, s) \subseteq ss /\ FoundBy(p, s) \subseteq Slaves
  <2>1. s \in Slaves
    BY <1>1
  <2>2. Free(s) \subseteq ss
    OBVIOUS
  <2> QED BY <1>2, <1>3, <2>1, <2>2
<1>6. ASSUME NEW g \in gs
      PROVE  g \in Group /\ g.left = g.sites /\ g.sites \subseteq ss
  <2>1. PICK s \in Called(p) : g = NewGroup(FoundBy(p, s), Reset)
    OBVIOUS
  <2> HIDE DEF ss
  <2>2. FoundBy(p, s) \subseteq ss /\ FoundBy(p, s) \subseteq Slaves
    BY <1>5
  <2> QED BY <2>1, <2>2 DEF NewGroup, Group
<1>7. \A s \in Slaves : Position(s) \in 1..Len(Order) /\ Order[Position(s)] = s
  BY DEF Position
<1>8. ASSUME NEW s \in Called(p), NEW t \in Called(p), Position(s) < Position(t)
      PROVE  FoundBy(p, s) \cap FoundBy(p, t) = {}
  <2>1. s \in {r \in Called(p) : Position(r) < Position(t)}
    BY <1>8
  <2>2. FoundBy(p, t) \cap Under[s] = {}
    BY <2>1 DEF FoundBy
  <2> QED BY <1>1, <1>2, <1>3, <2>2
<1>9. ASSUME NEW g \in gs, NEW h \in gs, g # h
      PROVE  g.sites \cap h.sites = {}
  <2>1. PICK s \in Called(p) : g = NewGroup(FoundBy(p, s), Reset)
    OBVIOUS
  <2>2. PICK t \in Called(p) : h = NewGroup(FoundBy(p, t), Reset)
    OBVIOUS
  <2>3. g.sites \subseteq FoundBy(p, s) /\ h.sites \subseteq FoundBy(p, t)
    BY <2>1, <2>2 DEF NewGroup
  <2>4. s # t
    BY <1>9, <2>1, <2>2
  <2>5. Position(s) # Position(t)
    BY <1>1, <1>7, <2>4
  <2>6. Position(s) \in Int /\ Position(t) \in Int
    BY <1>1, <1>7
  <2>7. Position(s) < Position(t) \/ Position(t) < Position(s)
    BY <2>5, <2>6
  <2> QED BY <1>8, <2>3, <2>7
<1> HIDE DEF ss, gs
<1>10. Sound(ss, gs)
  BY <1>4, <1>6, <1>9 DEF Sound
<1> QED BY <1>10 DEF ss, gs

-----------------------------------------------------------------------------
(* The end of a syncer.                                                    *)
LEMMA DoneKeeps ==
  ASSUME IInv, NEW s \in Slaves, FutureDone(s)
  PROVE  IInv'
<1> USE DEF IInv
<1>1. PICK g \in groups :
        /\ s \in g.left
        /\ running' = [running EXCEPT ![s] = @ - 1]
        /\ \/ /\ g.left = {s}
              /\ groups' = groups \ {g}
              /\ clears' = clears \cup {g.sites}
              /\ Answer(g)
           \/ /\ g.left # {s}
              /\ groups' = (groups \ {g}) \cup {[g EXCEPT !.left = @ \ {s}]}
              /\ UNCHANGED <<clears, request>>
        /\ \E a \in {"none", "young", dirty[s]} :
              dirty' = [dirty EXCEPT ![s] = a]
        /\ UNCHANGED <<syncInProgress, ageCache, next>>
  BY DEF FutureDone, LastOne
<1>2. g \in Group /\ groups \subseteq Group
  BY DEF TypeOK
<1>3. \A h \in groups : h.left \subseteq h.sites /\ Flagged(h.sites) /\ h.sites \subseteq Slaves
  BY DEF GroupsInv, TypeOK, Group
<1>4. running \in [Slaves -> Nat] /\ running[s] = 1
  BY <1>1 DEF GroupsInv, TypeOK
<1>5. running' = [running EXCEPT ![s] = 0]
  BY <1>1, <1>4
<1>6. /\ syncInProgress' \in [Slaves -> BOOLEAN]
      /\ ageCache' \in [Slaves -> {"absent", "young", "old"}]
      /\ next' \in 1..Len(Order)
  BY <1>1 DEF TypeOK
<1>7. running' \in [Slaves -> Nat]
  BY <1>4, <1>5
<1>8. dirty' \in [Slaves -> {"none", "young", "old"}]
  <2>1. dirty \in [Slaves -> {"none", "young", "old"}]
    BY DEF TypeOK
  <2>2. PICK a \in {"none", "young", "old"} : dirty' = [dirty EXCEPT ![s] = a]
    BY <1>1, <2>1
  <2> QED BY <2>1, <2>2
<1>9. request' \in [Requests -> {"new", "waiting", "answered"}]
  <2>1. request \in [Requests -> {"new", "waiting", "answered"}]
    BY DEF TypeOK
  <2>2. request' = request \/ Answer(g)
    BY <1>1
  <2>3. ASSUME Answer(g) PROVE request' \in [Requests -> {"new", "waiting", "answered"}]
    BY <2>1, <2>3 DEF Answer
  <2> QED BY <2>1, <2>2, <2>3
<1>10. \A ss : Flagged(ss)' <=> Flagged(ss)
  BY <1>1 DEF Flagged
<1>11. \A h \in groups : h # g => s \notin h.left
  BY <1>1, <1>3 DEF GroupsInv
<1>12. /\ running'[s] = 0
       /\ \A t \in Slaves :
            t # s => running'[t] = IF \E h \in groups : t \in h.left THEN 1 ELSE 0
  <2>1. \A t \in Slaves : t # s => running'[t] = running[t]
    BY <1>4, <1>5
  <2>2. ASSUME NEW t \in Slaves, t # s
        PROVE  running'[t] = IF \E h \in groups : t \in h.left THEN 1 ELSE 0
    <3>1. running[t] = IF \E h \in groups : t \in h.left THEN 1 ELSE 0
      BY DEF GroupsInv
    <3> QED BY <2>1, <2>2, <3>1
  <2>3. running'[s] = 0
    BY <1>4, <1>5
  <2> QED BY <2>2, <2>3
<1>13. CASE /\ g.left = {s} /\ groups' = groups \ {g}
            /\ clears' = clears \cup {g.sites}
  <2>1. groups' \subseteq Group /\ clears' \subseteq SUBSET Slaves
    <3>1. g.sites \subseteq Slaves /\ clears \subseteq SUBSET Slaves
      BY <1>3 DEF TypeOK
    <3> QED BY <1>2, <1>13, <3>1
  <2>2. \A h \in groups' : h.left \subseteq h.sites /\ Flagged(h.sites)'
    BY <1>3, <1>10, <1>13
  <2>3. \A c \in clears' : Flagged(c)'
    BY <1>3, <1>10, <1>13 DEF GroupsInv
  <2>4. \A h, k \in groups' : h # k => h.sites \cap k.sites = {}
    BY <1>13 DEF GroupsInv
  <2>5. \A c, d \in clears' : c # d => c \cap d = {}
    BY <1>13 DEF GroupsInv
  <2>6. \A h \in groups', c \in clears' : h.sites \cap c = {}
    BY <1>13 DEF GroupsInv
  <2>7. \A t \in Slaves : running'[t] = IF \E h \in groups' : t \in h.left THEN 1 ELSE 0
    <3>1. ASSUME NEW t \in Slaves, t # s
          PROVE  (\E h \in groups' : t \in h.left) <=> (\E h \in groups : t \in h.left)
      BY <1>13, <3>1
    <3>2. ~ \E h \in groups' : s \in h.left
      BY <1>11, <1>13
    <3>3. ASSUME NEW t \in Slaves, t # s
          PROVE  running'[t] = IF \E h \in groups' : t \in h.left THEN 1 ELSE 0
      <4>1. CASE \E h \in groups : t \in h.left
        BY <1>12, <3>1, <3>3, <4>1
      <4>2. CASE ~ \E h \in groups : t \in h.left
        BY <1>12, <3>1, <3>3, <4>2
      <4> QED BY <4>1, <4>2
    <3>4. running'[s] = IF \E h \in groups' : s \in h.left THEN 1 ELSE 0
      BY <1>12, <3>2
    <3> SUFFICES ASSUME NEW t \in Slaves
                 PROVE  running'[t] = IF \E h \in groups' : t \in h.left THEN 1 ELSE 0
      OBVIOUS
    <3>5. CASE t = s
      BY <3>4, <3>5
    <3>6. CASE t # s
      BY <3>3, <3>6
    <3> QED BY <3>5, <3>6
  <2> QED BY <1>6, <1>7, <1>8, <1>9, <2>1, <2>2, <2>3, <2>4, <2>5, <2>6, <2>7
          DEF TypeOK, GroupsInv
<1>14. CASE /\ groups' = (groups \ {g}) \cup {[g EXCEPT !.left = @ \ {s}]}
            /\ UNCHANGED clears
  <2> DEFINE g1 == [g EXCEPT !.left = @ \ {s}]
  <2>1. g1 \in Group /\ g1.sites = g.sites /\ g1.left = g.left \ {s}
    BY <1>2 DEF Group
  <2> HIDE DEF g1
  <2>2. groups' = (groups \ {g}) \cup {g1} /\ clears' = clears
    BY <1>14 DEF g1
  <2>3. groups' \subseteq Group /\ clears' \subseteq SUBSET Slaves
    BY <1>2, <2>1, <2>2 DEF TypeOK
  <2>4. \A h \in groups' : h.left \subseteq h.sites /\ Flagged(h.sites)'
    BY <1>3, <1>10, <2>1, <2>2
  <2>5. \A c \in clears' : Flagged(c)'
    BY <1>10, <2>2 DEF GroupsInv
  <2>6. \A h, k \in groups' : h # k => h.sites \cap k.sites = {}
    BY <2>1, <2>2 DEF GroupsInv
  <2>7. \A c, d \in clears' : c # d => c \cap d = {}
    BY <2>2 DEF GroupsInv
  <2>8. \A h \in groups', c \in clears' : h.sites \cap c = {}
    BY <2>1, <2>2 DEF GroupsInv
  <2>9. \A t \in Slaves : running'[t] = IF \E h \in groups' : t \in h.left THEN 1 ELSE 0
    <3>1. ASSUME NEW t \in Slaves, t # s
          PROVE  (\E h \in groups' : t \in h.left) <=> (\E h \in groups : t \in h.left)
      BY <2>1, <2>2, <3>1
    <3>2. ~ \E h \in groups' : s \in h.left
      BY <1>11, <2>1, <2>2
    <3>3. ASSUME NEW t \in Slaves, t # s
          PROVE  running'[t] = IF \E h \in groups' : t \in h.left THEN 1 ELSE 0
      <4>1. CASE \E h \in groups : t \in h.left
        BY <1>12, <3>1, <3>3, <4>1
      <4>2. CASE ~ \E h \in groups : t \in h.left
        BY <1>12, <3>1, <3>3, <4>2
      <4> QED BY <4>1, <4>2
    <3>4. running'[s] = IF \E h \in groups' : s \in h.left THEN 1 ELSE 0
      BY <1>12, <3>2
    <3> SUFFICES ASSUME NEW t \in Slaves
                 PROVE  running'[t] = IF \E h \in groups' : t \in h.left THEN 1 ELSE 0
      OBVIOUS
    <3>5. CASE t = s
      BY <3>4, <3>5
    <3>6. CASE t # s
      BY <3>3, <3>6
    <3> QED BY <3>5, <3>6
  <2> QED BY <1>6, <1>7, <1>8, <1>9, <2>3, <2>4, <2>5, <2>6, <2>7, <2>8, <2>9
          DEF TypeOK, GroupsInv
<1> QED BY <1>1, <1>13, <1>14

(* Clearing the flags of a finished group leaves every other group and     *)
(* every other clear flagged.                                              *)
LEMMA ClearKeeps ==
  ASSUME IInv, NEW c \in clears, ClearFlags(c)
  PROVE  IInv'
<1> USE DEF IInv, ClearFlags
<1>1. TypeOK'
  BY DEF TypeOK, ages
<1>2. \A g \in groups : g.sites \cap c = {} /\ g.sites \subseteq Slaves
  BY DEF GroupsInv, TypeOK, Group
<1>3. \A d \in clears : d # c => d \cap c = {} /\ d \subseteq Slaves
  BY DEF GroupsInv, TypeOK
<1>4. \A t \in Slaves : t \notin c => syncInProgress'[t] = syncInProgress[t]
  BY DEF TypeOK
<1>5. \A g \in groups' : g.left \subseteq g.sites /\ Flagged(g.sites)'
  BY <1>2, <1>4 DEF GroupsInv, Flagged
<1>6. \A d \in clears' : Flagged(d)'
  BY <1>3, <1>4 DEF GroupsInv, Flagged
<1> QED BY <1>1, <1>5, <1>6 DEF GroupsInv

-----------------------------------------------------------------------------
(* Every action keeps the inductive invariant.                             *)
LEMMA IInvInit == Init => IInv
<1> SUFFICES ASSUME Init PROVE IInv
  OBVIOUS
<1>1. 1 \in 1..Len(Order)
  <2>1. Len(Order) \in Nat /\ Len(Order) # 0
    OBVIOUS
  <2> QED BY <2>1
<1>2. TypeOK
  BY <1>1 DEF Init, TypeOK
<1>3. GroupsInv
  BY DEF Init, GroupsInv
<1> QED BY <1>2, <1>3 DEF IInv

LEMMA IInvStep == IInv /\ [Next]_vars => IInv'
<1> SUFFICES ASSUME IInv, [Next]_vars PROVE IInv'
  OBVIOUS
<1>1. ASSUME UNCHANGED syncs PROVE GroupsInv'
  BY <1>1 DEF syncs, IInv, GroupsInv, Flagged
<1>2. CASE Tick
  <2>1. Order[next] \in Slaves /\ Order[next] \in Paths
    BY DEF IInv, TypeOK
  <2>2. /\ next' \in 1..Len(Order)
        /\ ageCache' \in [Slaves -> {"absent", "young", "old"}]
        /\ UNCHANGED <<dirty, request>>
    <3>1. next' \in 1..Len(Order)
      <4>1. next \in 1..Len(Order) /\ Len(Order) \in Nat
        BY DEF IInv, TypeOK
      <4>2. next' = IF next = Len(Order) THEN 1 ELSE next + 1
        BY <1>2 DEF Tick
      <4> QED BY <4>1, <4>2
    <3> QED BY <1>2, <3>1, <2>1 DEF Tick, IInv, TypeOK
  <2>3. CASE SyncLog(Order[next], Quiet)
    <3>1. /\ GroupsInv'
          /\ syncInProgress' \in [Slaves -> BOOLEAN]
          /\ running' \in [Slaves -> Nat]
          /\ groups' \subseteq Group
          /\ clears' \subseteq SUBSET Slaves
      BY <2>1, <2>3, CallKeeps
    <3> QED BY <2>2, <3>1 DEF IInv, TypeOK
  <2>4. CASE UNCHANGED syncs
    BY <1>1, <2>2, <2>4 DEF IInv, TypeOK, syncs
  <2> QED BY <1>2, <2>3, <2>4 DEF Tick
<1>3. ASSUME NEW p \in Paths, Mount(p) PROVE IInv'
  <2>1. /\ GroupsInv'
        /\ syncInProgress' \in [Slaves -> BOOLEAN]
        /\ running' \in [Slaves -> Nat]
        /\ groups' \subseteq Group
        /\ clears' \subseteq SUBSET Slaves
    BY <1>3, MountSound, BeginKeeps DEF Mount
  <2> QED BY <1>3, <2>1 DEF Mount, ages, IInv, TypeOK
<1>4. ASSUME NEW r \in Requests, NEW p \in Paths, NEW w \in BOOLEAN, Request(r, p, w)
      PROVE  IInv'
  <2>1. PICK cb \in Requests \cup {Quiet, Reset} : SyncLog(p, cb)
    BY <1>4 DEF Request
  <2>2. /\ GroupsInv'
        /\ syncInProgress' \in [Slaves -> BOOLEAN]
        /\ running' \in [Slaves -> Nat]
        /\ groups' \subseteq Group
        /\ clears' \subseteq SUBSET Slaves
    BY <2>1, CallKeeps
  <2> QED BY <1>4, <2>2 DEF Request, ages, IInv, TypeOK
<1>5. ASSUME NEW s \in Slaves, FutureDone(s) PROVE IInv'
  BY <1>5, DoneKeeps
<1>6. ASSUME NEW s \in Slaves, Record(s) \/ DirtyAges(s) \/ KnownAges(s) PROVE IInv'
  <2>1. UNCHANGED syncs /\ UNCHANGED <<next, request>>
    BY <1>6 DEF Record, DirtyAges, KnownAges
  <2>2. dirty' \in [Slaves -> {"none", "young", "old"}]
    BY <1>6 DEF Record, DirtyAges, KnownAges, IInv, TypeOK
  <2>3. ageCache' \in [Slaves -> {"absent", "young", "old"}]
    BY <1>6 DEF Record, DirtyAges, KnownAges, IInv, TypeOK
  <2> QED BY <1>1, <2>1, <2>2, <2>3 DEF IInv, TypeOK, syncs
<1>7. ASSUME NEW c \in clears, ClearFlags(c) PROVE IInv'
  BY <1>7, ClearKeeps
<1>8. CASE UNCHANGED vars
  BY <1>1, <1>8 DEF vars, syncs, ages, IInv, TypeOK
<1> QED BY <1>2, <1>3, <1>4, <1>5, <1>6, <1>7, <1>8 DEF Next

-----------------------------------------------------------------------------
(* The inductive invariant holds in every reachable state.                 *)
LEMMA IInvHolds == Spec => []IInv
BY IInvInit, IInvStep, PTL DEF Spec

(* The scheduler's variables keep their types, the iterator its range.     *)
THEOREM ScheduleTypes == Spec => []TypeOK
<1>1. IInv => TypeOK
  BY DEF IInv
<1> QED BY <1>1, IInvHolds, PTL

(* syncLog never runs two syncers for one slave.                           *)
THEOREM NeverTwoSyncers == Spec => []OneSyncer
<1>1. IInv => OneSyncer
  <2> SUFFICES ASSUME IInv, NEW s \in Slaves PROVE running[s] <= 1
    BY DEF OneSyncer
  <2>1. running[s] = 1 \/ running[s] = 0
    BY DEF IInv, GroupsInv
  <2> QED BY <2>1
<1> QED BY <1>1, IInvHolds, PTL

(* The flag of a slave stays set as long as a syncer runs for it, whatever *)
(* delayed clearings of earlier groups are pending.                        *)
THEOREM FlagHeld == Spec => []FlagCoversSync
<1>1. IInv => FlagCoversSync
  <2> SUFFICES ASSUME IInv, NEW s \in Slaves, running[s] > 0 PROVE syncInProgress[s]
    BY DEF FlagCoversSync
  <2>1. PICK g \in groups : s \in g.left
    BY DEF IInv, GroupsInv
  <2> QED BY <2>1 DEF IInv, GroupsInv, Flagged
<1> QED BY <1>1, IInvHolds, PTL

=============================================================================
