--------------------------- MODULE FileSyncProofs ---------------------------
(***************************************************************************)
(* Proofs about FileSync, for every value of its constants.                *)
(***************************************************************************)
EXTENDS FileSync, FiniteSetTheorems, SequenceTheorems, TLAPS

(* Calls and answers: m_counter counts the outstanding lsfiles calls.      *)
CallsInv ==
  /\ IsFiniteSet(pending)
  /\ counter = Cardinality(pending)
  /\ Root \in pending => pending = {Root}
  /\ phase # "listing" => pending = {}
  /\ phase = "listing" => pending # {}

(* The size of the union of disjoint sets.                                 *)
LEMMA DisjointUnion ==
  ASSUME NEW S, NEW T, IsFiniteSet(S), IsFiniteSet(T), S \cap T = {}
  PROVE  IsFiniteSet(S \cup T) /\ Cardinality(S \cup T) = Cardinality(S) + Cardinality(T)
<1>1. Cardinality({}) = 0
  BY FS_EmptySet
<1>2. Cardinality(S) \in Nat /\ Cardinality(T) \in Nat
  BY FS_CardinalityType
<1>3. /\ IsFiniteSet(S \cup T)
      /\ Cardinality(S \cup T) = Cardinality(S) + Cardinality(T) - Cardinality(S \cap T)
  BY FS_Union
<1>4. Cardinality(S \cap T) = 0
  BY <1>1, Zenon
<1> QED
  BY <1>2, <1>3, <1>4

(* What a file holds when a chunk was appended to it.                      *)
LEMMA ConcatOfNats ==
  ASSUME NEW s \in Seq(Nat), NEW t \in Seq(Nat)
  PROVE  /\ s \o t \in Seq(Nat)
         /\ Len(s \o t) = Len(s) + Len(t)
         /\ \A i \in 1..Len(s)+Len(t) : (s \o t)[i] =
               IF i <= Len(s) THEN s[i] ELSE t[i - Len(s)]
  BY ConcatProperties

(* What a read hands over, as a sequence.                                  *)
LEMMA ChunkSeq ==
  ASSUME NEW f \in Files, rbase \in [Files -> Nat], NEW off \in Nat, NEW n \in Nat
  PROVE  /\ Chunk(f, off, n) \in Seq(Nat)
         /\ Len(Chunk(f, off, n)) = n
         /\ \A i \in 1..n : Chunk(f, off, n)[i] = rbase[f] + off + i
<1> DEFINE c == [i \in 1..n |-> rbase[f] + off + i]
<1>1. c \in [1..n -> Nat]
  OBVIOUS
<1>2. c \in Seq(Nat)
  BY <1>1
<1>3. Len(c) = n
  BY <1>2
<1> QED
  BY <1>2, <1>3 DEF Chunk

(* A process killed while it writes leaves sequences of entries.           *)
LEMMA WritingType ==
  ASSUME TypeOK, NEW bf \in SUBSET Files, NEW b \in [Files -> Seq(Nat)],
         DieWriting(bf, b)
  PROVE  localFiles' \subseteq Files /\ local' \in [Files -> Seq(Nat)] /\ dirty' = dirty
<1>1. PICK c \in bf, ds \in SUBSET Dirs :
        /\ localFiles' = localFiles \cup {c} \cup Written(bf, ds, c)
        /\ \E k \in 0..Len(b[c]) : local' = AppendedUpTo(bf, b, ds, c, k)
  BY DEF DieWriting
<1>2. PICK k \in 0..Len(b[c]) : local' = AppendedUpTo(bf, b, ds, c, k)
  BY <1>1
<1>3. \A f \in Files : local[f] \in Seq(Nat) /\ b[f] \in Seq(Nat)
  BY DEF TypeOK
<1>4. SubSeq(b[c], 1, k) \in Seq(Nat)
  BY <1>3, SMT
<1>5. local[c] \o SubSeq(b[c], 1, k) \in Seq(Nat)
  BY <1>3, <1>4, ConcatProperties
<1>6. \A f \in Files : local[f] \o b[f] \in Seq(Nat)
  BY <1>3, ConcatProperties
<1> QED
  BY <1>1, <1>2, <1>3, <1>5, <1>6 DEF AppendedUpTo, DieWriting, Written, TypeOK

(* So does the end of a sync.                                              *)
LEMMA FinishType ==
  ASSUME TypeOK, NEW bf \in SUBSET Files, NEW b \in [Files -> Seq(Nat)],
         NEW ts \in SUBSET Dirs, Finish(bf, b, ts)
  PROVE  /\ localFiles' \subseteq Files
         /\ local' \in [Files -> Seq(Nat)]
         /\ dirty' \in [Dirs -> SUBSET Events]
         /\ ResetSyncer
<1>1. CASE DieWriting(bf, b)
  BY <1>1, WritingType DEF Finish, TypeOK
<1>2. CASE ~DieWriting(bf, b)
  <2>1. local' = Appended(bf, b) /\ localFiles' = localFiles \cup bf
    BY <1>2 DEF Finish
  <2>2. \A f \in Files : local[f] \in Seq(Nat) /\ b[f] \in Seq(Nat)
    BY DEF TypeOK
  <2>3. \A f \in Files : local[f] \o b[f] \in Seq(Nat)
    BY <2>2, ConcatProperties
  <2>4. local' \in [Files -> Seq(Nat)]
    BY <2>1, <2>2, <2>3 DEF Appended
  <2>5. \A d \in Dirs : dirty[d] \subseteq Events
    BY DEF TypeOK
  <2>6. \A d \in Dirs : Trimmed(d, localFiles', local') \subseteq Events
    BY <2>5 DEF Trimmed
  <2>7. dirty' \in [Dirs -> SUBSET Events]
    BY <1>2, <2>5, <2>6 DEF Finish
  <2> QED
    BY <2>1, <2>4, <2>7 DEF TypeOK, Finish
<1> QED
  BY <1>1, <1>2

(* After ResetSyncer the variables of the syncer have their types and no   *)
(* call is outstanding.                                                    *)
LEMMA ResetType ==
  ASSUME ResetSyncer
  PROVE  /\ phase' = "idle" /\ pending' = {} /\ counter' = 0 /\ listed' \in Seq(Dirs)
         /\ todo' = {} /\ job' \in [Files -> Job] /\ bufFiles' = {}
         /\ buf' \in [Files -> Seq(Nat)] /\ usage' = 0 /\ toTrim' = {}
         /\ CallsInv'
<1>1. IsFiniteSet({}) /\ Cardinality({}) = 0
  BY FS_EmptySet
<1>2. NoJob \in Job
  BY DEF NoJob, Job
<1>3. <<>> \in Seq(Nat) /\ <<>> \in Seq(Dirs)
  OBVIOUS
<1> QED
  BY <1>1, <1>2, <1>3 DEF ResetSyncer, CallsInv

(* The answer to an lsfiles call leaves the types and the count right.     *)
LEMMA AnsweredType ==
  ASSUME TypeOK, CallsInv, NEW p \in pending, NEW more \in SUBSET Dirs,
         more # {} => p = Root,
         NEW ls \in Seq(Dirs), NEW td \in SUBSET Files, NEW jb \in [Files -> Job],
         NEW ts \in SUBSET Dirs, Answered(p, more, ls, td, jb, ts)
  PROVE  /\ localFiles' \subseteq Files
         /\ local' \in [Files -> Seq(Nat)]
         /\ dirty' \in [Dirs -> SUBSET Events]
         /\ phase' \in {"idle", "listing", "detect", "reading"}
         /\ pending' \subseteq Dirs \cup {Root}
         /\ counter' \in Nat
         /\ listed' \in Seq(Dirs)
         /\ todo' \subseteq Files
         /\ job' \in [Files -> Job]
         /\ bufFiles' \subseteq Files
         /\ buf' \in [Files -> Seq(Nat)]
         /\ usage' \in Nat
         /\ toTrim' \subseteq Dirs
         /\ CallsInv'
<1> DEFINE c == (counter + Cardinality(more)) - 1
<1>1. CASE c = 0 /\ td = {} /\ Finish({}, buf, ts)
  <2>1. buf \in [Files -> Seq(Nat)]
    BY DEF TypeOK
  <2>2. /\ localFiles' \subseteq Files
        /\ local' \in [Files -> Seq(Nat)]
        /\ dirty' \in [Dirs -> SUBSET Events]
        /\ ResetSyncer
    BY <1>1, <2>1, FinishType
  <2> QED
    BY <2>2, ResetType, SMT
<1>2. CASE ~(c = 0 /\ td = {})
  <2> DEFINE after == (pending \ {p}) \cup more
  <2>0. IsFiniteSet(Dirs)
    BY ConstantsAssumption
  <2>1. IsFiniteSet(more) /\ Cardinality(more) \in Nat
    BY <2>0, FS_Subset, FS_CardinalityType
  <2>2. /\ IsFiniteSet(pending \ {p})
        /\ Cardinality(pending \ {p}) = Cardinality(pending) - 1
        /\ Cardinality(pending) \in Nat
    BY FS_RemoveElement, FS_CardinalityType DEF CallsInv
  <2>3. (pending \ {p}) \cap more = {}
    <3>1. CASE more = {}
      BY <3>1
    <3>2. CASE more # {}
      <4>1. pending = {Root} /\ p = Root
        BY <3>2 DEF CallsInv
      <4> QED
        BY <4>1
    <3> QED
      BY <3>1, <3>2
  <2>4. IsFiniteSet(after) /\ Cardinality(after) = Cardinality(pending \ {p}) + Cardinality(more)
    BY <2>1, <2>2, <2>3, DisjointUnion
  <2>5. c = Cardinality(after)
    BY <2>1, <2>2, <2>4 DEF CallsInv
  <2>6. c \in Nat /\ (c = 0 <=> after = {})
    BY <2>4, <2>5, FS_CardinalityType, FS_EmptySet
  <2>7. /\ phase' = IF c = 0 THEN "detect" ELSE phase
        /\ pending' = after /\ counter' = c /\ listed' = ls /\ todo' = td
        /\ job' = jb /\ toTrim' = ts
        /\ UNCHANGED <<cacheVars, bufFiles, buf, usage>>
    BY <1>2 DEF Answered
  <2>8. phase = "listing"
    BY DEF CallsInv, TypeOK
  <2>9. Root \notin after
    BY ConstantsAssumption DEF CallsInv
  <2>10. CallsInv'
    BY <2>4, <2>5, <2>6, <2>7, <2>8, <2>9 DEF CallsInv
  <2> QED
    BY <2>6, <2>7, <2>10 DEF TypeOK, cacheVars
<1> QED
  BY <1>1, <1>2 DEF Answered

(* Going on with the next file keeps the types.                            *)
LEMMA ReadNextType ==
  ASSUME TypeOK, CallsInv, phase # "listing",
         NEW td \in SUBSET Files, NEW jb \in [Files -> Job],
         NEW bf \in SUBSET Files, NEW b \in [Files -> Seq(Nat)], NEW u \in Nat,
         ReadNext(td, jb, bf, b, u)
  PROVE  /\ phase' = "reading"
         /\ pending' \subseteq Dirs \cup {Root}
         /\ counter' \in Nat
         /\ listed' \in Seq(Dirs)
         /\ todo' \subseteq Files
         /\ job' \in [Files -> Job]
         /\ bufFiles' \subseteq Files
         /\ buf' \in [Files -> Seq(Nat)]
         /\ usage' \in Nat
         /\ toTrim' \subseteq Dirs
         /\ CallsInv'
<1>1. NoJob \in Job
  BY DEF NoJob, Job
<1>2. job' \in [Files -> Job]
  BY <1>1 DEF ReadNext
<1>3. Leading(td) \subseteq Files
  BY DEF Leading
<1>4. CallsInv'
  BY DEF ReadNext, CallsInv
<1> QED
  BY <1>2, <1>3, <1>4 DEF ReadNext, TypeOK

(* The steps of the environment.                                           *)
LEMMA EnvironmentType == TypeOK /\ CallsInv /\ Environment => TypeOK' /\ CallsInv'
<1> SUFFICES ASSUME TypeOK, CallsInv, Environment PROVE TypeOK' /\ CallsInv'
  OBVIOUS
<1> USE ConstantsAssumption
<1>1. ASSUME NEW d \in Dirs, RemoteOpen(d) PROVE TypeOK' /\ CallsInv'
  <2>1. <<d, Stamp[logged[d] + 1]>> \in Files
    BY <1>1 DEF RemoteOpen, Files, Name
  <2>2. logged[d] \in Nat
    BY DEF TypeOK
  <2>3. rbase' \in [Files -> Nat] /\ rsize' \in [Files -> Nat] /\ rfiles' \subseteq Files
    <3> DEFINE f == <<d, Stamp[logged[d] + 1]>>
    <3>1. /\ rfiles' = rfiles \cup {f}
          /\ rbase' = [rbase EXCEPT ![f] = logged[d]]
          /\ rsize' = [rsize EXCEPT ![f] = 0]
      BY <1>1 DEF RemoteOpen
    <3>2. f \in Files
      BY <2>1
    <3> HIDE DEF f
    <3> QED
      BY <2>2, <3>1, <3>2 DEF TypeOK
  <2> QED
    BY <1>1, <2>3 DEF RemoteOpen, TypeOK, CallsInv, cacheVars, syncerVars
<1>2. ASSUME NEW d \in Dirs, NEW e \in Events, Record(d, e) PROVE TypeOK' /\ CallsInv'
  <2>1. dirty' \in [Dirs -> SUBSET Events] /\ recorded' \in [Dirs -> SUBSET Events]
    BY <1>2 DEF Record, TypeOK
  <2> QED
    BY <1>2, <2>1 DEF Record, TypeOK, CallsInv, remoteVars, syncerVars
<1>3. ASSUME NEW f \in Files, RemoteAppend(f) PROVE TypeOK' /\ CallsInv'
  <2>1. Dir(f) \in Dirs
    BY DEF Files, Dir
  <2>2. rsize' \in [Files -> Nat] /\ logged' \in [Dirs -> 0..MaxEvents]
    BY <1>3, <2>1 DEF RemoteAppend, TypeOK
  <2> QED
    BY <1>3, <2>2 DEF RemoteAppend, TypeOK, CallsInv, cacheVars, syncerVars
<1>4. ASSUME NEW f \in Files, RemoteDrop(f) PROVE TypeOK' /\ CallsInv'
  BY <1>4 DEF RemoteDrop, TypeOK, CallsInv, cacheVars, syncerVars
<1>5. ASSUME TimePasses PROVE TypeOK' /\ CallsInv'
  BY <1>5 DEF TimePasses, TypeOK, CallsInv, remoteVars, cacheVars, syncerVars
<1> QED
  BY <1>1, <1>2, <1>3, <1>4, <1>5 DEF Environment

(* The steps of the syncer.                                                *)
LEMMA SyncerType == TypeOK /\ CallsInv /\ Syncer => TypeOK' /\ CallsInv'
<1> SUFFICES ASSUME TypeOK, CallsInv, Syncer PROVE TypeOK' /\ CallsInv'
  OBVIOUS
<1> USE ConstantsAssumption
<1>1. CASE StartSync
  <2>1. IsFiniteSet({Root}) /\ Cardinality({Root}) = 1
    BY FS_Singleton
  <2>2. IsFiniteSet(pending') /\ Cardinality(pending') = 1
    BY <1>1, <2>1 DEF StartSync
  <2>3. pending' # {}
    BY <2>2, FS_EmptySet
  <2> QED
    BY <1>1, <2>2, <2>3 DEF StartSync, TypeOK, CallsInv, remoteVars, cacheVars
<1>2. CASE ListDirs
  <2>1. {d \in Dirs : In(rfiles, d) # {}} \subseteq Dirs
    OBVIOUS
  <2>2. /\ Root \in pending /\ listed \in Seq(Dirs) /\ todo \in SUBSET Files
        /\ job \in [Files -> Job] /\ toTrim \in SUBSET Dirs
        /\ Answered(Root, {d \in Dirs : In(rfiles, d) # {}}, listed, todo, job, toTrim)
    BY <1>2 DEF ListDirs, TypeOK
  <2> HIDE ConstantsAssumption
  <2>3. /\ localFiles' \subseteq Files /\ local' \in [Files -> Seq(Nat)]
        /\ dirty' \in [Dirs -> SUBSET Events]
        /\ phase' \in {"idle", "listing", "detect", "reading"}
        /\ pending' \subseteq Dirs \cup {Root} /\ counter' \in Nat
        /\ listed' \in Seq(Dirs) /\ todo' \subseteq Files /\ job' \in [Files -> Job]
        /\ bufFiles' \subseteq Files /\ buf' \in [Files -> Seq(Nat)] /\ usage' \in Nat
        /\ toTrim' \subseteq Dirs /\ CallsInv'
    BY <2>1, <2>2, AnsweredType
  <2> QED
    BY <1>2, <2>3 DEF ListDirs, TypeOK, remoteVars
<1>3. ASSUME NEW d \in Dirs, ListFiles(d) PROVE TypeOK' /\ CallsInv'
  <2> DEFINE jb == [f \in Files |->
                      IF f \in ToDownload(d)
                      THEN [remote |-> rsize[f], local |-> Len(local[f]), got |-> 0]
                      ELSE job[f]]
             ts == IF In(rfiles, d) = {} THEN toTrim ELSE toTrim \cup {d}
             td == todo \cup ToDownload(d)
  <2>1. \A f \in Files : Len(local[f]) \in Nat
    BY DEF TypeOK
  <2>2. jb \in [Files -> Job]
    BY <2>1 DEF TypeOK, Job
  <2>3. td \subseteq Files /\ ts \subseteq Dirs
    BY DEF TypeOK, ToDownload, In
  <2>4. Append(listed, d) \in Seq(Dirs)
    BY DEF TypeOK
  <2>5. d \in pending /\ Answered(d, {}, Append(listed, d), td, jb, ts)
    BY <1>3 DEF ListFiles
  <2> HIDE DEF jb, ts, td
  <2> HIDE ConstantsAssumption
  <2>6. /\ localFiles' \subseteq Files /\ local' \in [Files -> Seq(Nat)]
        /\ dirty' \in [Dirs -> SUBSET Events]
        /\ phase' \in {"idle", "listing", "detect", "reading"}
        /\ pending' \subseteq Dirs \cup {Root} /\ counter' \in Nat
        /\ listed' \in Seq(Dirs) /\ todo' \subseteq Files /\ job' \in [Files -> Job]
        /\ bufFiles' \subseteq Files /\ buf' \in [Files -> Seq(Nat)] /\ usage' \in Nat
        /\ toTrim' \subseteq Dirs /\ CallsInv'
    BY <2>2, <2>3, <2>4, <2>5, AnsweredType
  <2> QED
    BY <1>3, <2>6 DEF ListFiles, TypeOK, remoteVars
<1>4. ASSUME NEW p \in Dirs \cup {Root}, ListFail(p) PROVE TypeOK' /\ CallsInv'
  <2>1. /\ p \in pending /\ listed \in Seq(Dirs) /\ todo \in SUBSET Files
        /\ job \in [Files -> Job] /\ toTrim \in SUBSET Dirs
        /\ Answered(p, {}, listed, todo, job, toTrim)
    BY <1>4 DEF ListFail, TypeOK
  <2> HIDE ConstantsAssumption
  <2>2. /\ localFiles' \subseteq Files /\ local' \in [Files -> Seq(Nat)]
        /\ dirty' \in [Dirs -> SUBSET Events]
        /\ phase' \in {"idle", "listing", "detect", "reading"}
        /\ pending' \subseteq Dirs \cup {Root} /\ counter' \in Nat
        /\ listed' \in Seq(Dirs) /\ todo' \subseteq Files /\ job' \in [Files -> Job]
        /\ bufFiles' \subseteq Files /\ buf' \in [Files -> Seq(Nat)] /\ usage' \in Nat
        /\ toTrim' \subseteq Dirs /\ CallsInv'
    BY <2>1, AnsweredType
  <2>3. faults' \in Nat
    BY <1>4 DEF ListFail, TypeOK
  <2> QED
    BY <1>4, <2>2, <2>3 DEF ListFail, TypeOK, remoteVars
<1>5. ASSUME DetectOk \/ DetectFail \/ \E f \in Files : ReadFail(f) \/ \E n \in 1..ChunkSize : ReadOk(f, n)
      PROVE TypeOK' /\ CallsInv'
  <2> HIDE ConstantsAssumption
  <2>1. phase # "listing"
    BY <1>5 DEF DetectOk, DetectFail, ReadFail, ReadOk
  <2>2. /\ UNCHANGED <<remoteVars, horizon, recorded>> /\ faults' \in Nat
    <3>1. faults \in Nat /\ faults + 1 \in Nat
      BY DEF TypeOK
    <3>2. CASE DetectOk
      BY <3>1, <3>2 DEF DetectOk
    <3>3. CASE DetectFail
      BY <3>1, <3>3 DEF DetectFail, MayFail
    <3>4. ASSUME NEW f \in Files, ReadFail(f)
          PROVE UNCHANGED <<remoteVars, horizon, recorded>> /\ faults' \in Nat
      BY <3>1, <3>4 DEF ReadFail, MayFail
    <3>5. ASSUME NEW f \in Files, NEW n \in 1..ChunkSize, ReadOk(f, n)
          PROVE UNCHANGED <<remoteVars, horizon, recorded>> /\ faults' \in Nat
      BY <3>1, <3>5 DEF ReadOk
    <3> QED
      BY <1>5, <3>2, <3>3, <3>4, <3>5
  <2>3. ASSUME NEW bf \in SUBSET Files, NEW b \in [Files -> Seq(Nat)],
               \/ Finish(bf, b, toTrim)
               \/ DieWriting(bf, b) /\ ResetSyncer
        PROVE  TypeOK' /\ CallsInv'
    <3>1. toTrim \in SUBSET Dirs
      BY DEF TypeOK
    <3>2. /\ localFiles' \subseteq Files /\ local' \in [Files -> Seq(Nat)]
          /\ dirty' \in [Dirs -> SUBSET Events] /\ ResetSyncer
      BY <2>3, <3>1, FinishType, WritingType DEF TypeOK
    <3> QED
      BY <2>2, <3>2, ResetType DEF TypeOK, remoteVars
  <2>4. ASSUME NEW td \in SUBSET Files, NEW jb \in [Files -> Job],
               NEW bf \in SUBSET Files, NEW b \in [Files -> Seq(Nat)], NEW u \in Nat,
               ReadNext(td, jb, bf, b, u),
               localFiles' \subseteq Files, local' \in [Files -> Seq(Nat)], UNCHANGED dirty
        PROVE  TypeOK' /\ CallsInv'
    <3>1. /\ phase' = "reading"
          /\ pending' \subseteq Dirs \cup {Root} /\ counter' \in Nat
          /\ listed' \in Seq(Dirs) /\ todo' \subseteq Files /\ job' \in [Files -> Job]
          /\ bufFiles' \subseteq Files /\ buf' \in [Files -> Seq(Nat)] /\ usage' \in Nat
          /\ toTrim' \subseteq Dirs /\ CallsInv'
      BY <2>1, <2>4, ReadNextType
    <3> QED
      BY <2>2, <2>4, <3>1 DEF TypeOK, remoteVars
  <2>5. /\ todo \in SUBSET Files /\ bufFiles \in SUBSET Files /\ job \in [Files -> Job]
        /\ buf \in [Files -> Seq(Nat)] /\ usage \in Nat /\ {} \in SUBSET Files
        /\ UNCHANGED cacheVars => localFiles' \subseteq Files /\ local' \in [Files -> Seq(Nat)]
                                 /\ UNCHANGED dirty
    BY DEF TypeOK, cacheVars
  <2>6. CASE DetectOk
    BY <2>3, <2>4, <2>5, <2>6 DEF DetectOk
  <2>7. CASE DetectFail
    BY <2>3, <2>5, <2>7 DEF DetectFail
  <2>8. ASSUME NEW f \in Files, ReadFail(f) PROVE TypeOK' /\ CallsInv'
    <3> DEFINE td == {g \in todo : Dir(g) # Dir(f)}
    <3>1. td \in SUBSET Files /\ bufFiles \cup td \in SUBSET Files
      BY <2>5
    <3>2. \/ Finish(bufFiles \cup td, buf, toTrim)
          \/ ReadNext(td, job, bufFiles, buf, usage) /\ UNCHANGED cacheVars
      BY <2>8 DEF ReadFail
    <3> HIDE DEF td
    <3> QED
      BY <2>3, <2>4, <2>5, <3>1, <3>2
  <2>9. ASSUME NEW f \in Files, NEW n \in 1..ChunkSize, ReadOk(f, n) PROVE TypeOK' /\ CallsInv'
    <3> DEFINE b  == [buf EXCEPT ![f] = @ \o Chunk(f, Offset(f), n)]
               bf == bufFiles \cup {f}
               jb == [job EXCEPT ![f].got = @ + n]
               td == IF Offset(f) + n = job[f].remote THEN todo \ {f} ELSE todo
    <3>1. Offset(f) \in Nat /\ n \in Nat /\ rbase \in [Files -> Nat]
      BY <2>5 DEF Offset, Job, TypeOK
    <3>2. Chunk(f, Offset(f), n) \in Seq(Nat)
      BY <3>1, ChunkSeq
    <3>3. buf[f] \o Chunk(f, Offset(f), n) \in Seq(Nat)
      BY <2>5, <3>2, ConcatProperties
    <3>4. b \in [Files -> Seq(Nat)]
      BY <2>5, <3>3
    <3>5. jb \in [Files -> Job]
      <4>1. job[f] \in Job /\ job[f].got + n \in Nat
        BY <2>5, <3>1 DEF Job
      <4>2. [job[f] EXCEPT !.got = @ + n] \in Job
        BY <4>1 DEF Job
      <4> QED
        BY <2>5, <4>2
    <3>6. td \in SUBSET Files /\ bf \in SUBSET Files /\ bf \cup td \in SUBSET Files
      BY <2>5
    <3>7. usage + n \in Nat /\ 0 \in Nat
      BY <2>5, <3>1
    <3>8. [g \in Files |-> <<>>] \in [Files -> Seq(Nat)]
      OBVIOUS
    <3>9. \/ Finish(bf \cup td, b, toTrim)
          \/ ReadNext(td, jb, bf, b, usage + n) /\ UNCHANGED cacheVars
          \/ /\ localFiles' = localFiles \cup bf
             /\ local' = Appended(bf, b)
             /\ UNCHANGED dirty
             /\ ReadNext(td, jb, {}, [g \in Files |-> <<>>], 0)
          \/ DieWriting(bf, b) /\ ResetSyncer
      BY <2>9 DEF ReadOk
    <3>10. ASSUME local' = Appended(bf, b), localFiles' = localFiles \cup bf
           PROVE localFiles' \subseteq Files /\ local' \in [Files -> Seq(Nat)]
      <4>1. \A g \in Files : local[g] \in Seq(Nat) /\ b[g] \in Seq(Nat)
        BY <3>4 DEF TypeOK
      <4>2. \A g \in Files : local[g] \o b[g] \in Seq(Nat)
        BY <4>1, ConcatProperties
      <4> QED
        BY <3>6, <3>10, <4>1, <4>2 DEF Appended, TypeOK
    <3> HIDE DEF b, bf, jb, td
    <3> QED
      BY <2>3, <2>4, <2>5, <3>4, <3>5, <3>6, <3>7, <3>8, <3>9, <3>10
  <2> QED
    BY <1>5, <2>6, <2>7, <2>8, <2>9
<1>6. CASE Abort
  <2>1. faults' \in Nat
    BY <1>6 DEF Abort, TypeOK
  <2> QED
    BY <1>6, <2>1, ResetType DEF Abort, TypeOK, remoteVars, cacheVars
<1> QED
  BY <1>1, <1>2, <1>3, <1>4, <1>5, <1>6 DEF Syncer

(* The initial state.                                                      *)
LEMMA InitType == Init => TypeOK /\ CallsInv
<1> SUFFICES ASSUME Init PROVE TypeOK /\ CallsInv
  OBVIOUS
<1>1. NoJob \in Job /\ <<>> \in Seq(Nat) /\ <<>> \in Seq(Dirs) /\ 0 \in 0..MaxEvents
  BY ConstantsAssumption DEF NoJob, Job
<1> QED
  BY <1>1, FS_EmptySet DEF Init, TypeOK, CallsInv

(* The variables keep their types, and m_counter is the number of          *)
(* outstanding lsfiles calls, in every behaviour.                          *)
THEOREM TypeCorrect == Spec => [](TypeOK /\ CallsInv)
<1>1. Init => TypeOK /\ CallsInv
  BY InitType
<1>2. TypeOK /\ CallsInv /\ [Next]_vars => (TypeOK /\ CallsInv)'
  <2>1. TypeOK /\ CallsInv /\ UNCHANGED vars => (TypeOK /\ CallsInv)'
    BY DEF vars, remoteVars, cacheVars, syncerVars, TypeOK, CallsInv
  <2> QED
    BY <2>1, EnvironmentType, SyncerType DEF Next
<1> QED
  BY <1>1, <1>2, PTL DEF Spec

(* The downloads start after every lsfiles call was answered.              *)
THEOREM ListingFirst == Spec => []DownloadsAfterListing
<1>1. TypeOK /\ CallsInv => DownloadsAfterListing
  BY DEF CallsInv, DownloadsAfterListing
<1> QED
  BY <1>1, TypeCorrect, PTL

-----------------------------------------------------------------------------
(* The inductive invariant behind PrefixOfRemote, NoHole and NoLoss.       *)

(* The remote journal: a file is followed by, or is, one the remote still  *)
(* has; the entries of a site are distributed over its files in order.     *)
RemoteInv ==
  /\ \A f \in Files :
       f \in todo \cup localFiles \cup bufFiles \cup rfiles \/ rsize[f] > 0 =>
         \E h \in In(rfiles, Dir(f)) : Name(f) <= Name(h)
  /\ \A f \in Files : rbase[f] + rsize[f] <= logged[Dir(f)]
  /\ \A d \in Dirs : \A e \in 1..logged[d] : \E h \in In(Files, d) : HoldsEntry(h, e)
  /\ \A f, g \in Files :
       Dir(f) = Dir(g) /\ Name(f) < Name(g) /\ (g \in rfiles \/ rsize[g] > 0) =>
         rbase[f] + rsize[f] <= rbase[g]
  /\ \A f \in rfiles : IsNewest(f, rfiles) => rbase[f] + rsize[f] = logged[Dir(f)]

(* In file f the cached entries s, and the buffered entries t after them,  *)
(* are what the remote has there.                                          *)
Follows(f, s, t) ==
  /\ Len(s) + Len(t) <= rsize[f]
  /\ \A i \in 1..Len(s) : s[i] = rbase[f] + i
  /\ \A i \in 1..Len(t) : t[i] = rbase[f] + Len(s) + i

(* File f is whole once b, of files bf, is appended to the cache lf, l.    *)
Whole(f, lf, l, bf, b) == f \in lf \cup bf /\ Len(l[f]) + Len(b[f]) = rsize[f]

(* f is in the same directory as g, older, and recent enough to be synced. *)
Older(f, g) == f \in In(rfiles, Dir(g)) /\ horizon <= Name(f) /\ Name(f) < Name(g)

(* A cache lf, l, a queue td with jobs jb and buffers bf, b fit together:  *)
(* the buffers continue the cached files, a job reads on where its buffer  *)
(* ends, and whatever is older than a cached or buffered file is whole, or *)
(* will be by the job before it in the queue.                              *)
Fit(lf, l, td, jb, bf, b) ==
  /\ \A f \in Files : Follows(f, l[f], b[f])
  /\ \A f \in Files : f \notin bf => b[f] = <<>>
  /\ \A f \in td : /\ jb[f].local + jb[f].got = Len(l[f]) + Len(b[f])
                   /\ jb[f].remote <= rsize[f]
  /\ \A g \in lf : \A f \in Files : Older(f, g) => Whole(f, lf, l, {}, [h \in Files |-> <<>>])
  /\ \A g \in bf : \A f \in Files : Older(f, g) => Whole(f, lf, l, bf, b)
  /\ \A g \in td : \A f \in Files : Older(f, g) =>
       Whole(f, lf, l, bf, b) \/ (f \in td /\ jb[f].remote = rsize[f])

FitInv ==
  /\ Fit(localFiles, local, todo, job, bufFiles, buf)
  /\ phase # "reading" => bufFiles = {}
  /\ phase = "idle" => todo = {}

IInv == TypeOK /\ CallsInv /\ RemoteInv /\ FitInv

(* A file is named with a time.                                            *)
LEMMA NamesAreNat == \A f \in Files : Name(f) \in Nat
<1>1. Times \subseteq Nat
  BY ConstantsAssumption
<1> QED
  BY <1>1 DEF Files, Name

(* Files of the same directory and name are the same file.                 *)
LEMMA SameFile == \A f, g \in Files : Dir(f) = Dir(g) /\ Name(f) = Name(g) => f = g
  BY DEF Files, Dir, Name

(* The first k entries of t appended to s.                                 *)
LEMMA AppendPrefix ==
  ASSUME NEW s \in Seq(Nat), NEW t \in Seq(Nat), NEW k \in 0..Len(t)
  PROVE  LET u == s \o SubSeq(t, 1, k) IN
         /\ u \in Seq(Nat)
         /\ Len(u) = Len(s) + k
         /\ \A i \in 1..Len(s) : u[i] = s[i]
         /\ \A i \in 1..k : u[Len(s) + i] = t[i]
<1> DEFINE v == SubSeq(t, 1, k)
<1>1. v \in Seq(Nat) /\ Len(v) = k /\ \A i \in 1..k : v[i] = t[i]
  <2>1. Len(t) \in Nat /\ k \in Nat
    OBVIOUS
  <2> QED
    BY <2>1, SMT
<1>2. /\ s \o v \in Seq(Nat)
      /\ Len(s \o v) = Len(s) + Len(v)
      /\ \A i \in 1..Len(s)+Len(v) : (s \o v)[i] = IF i <= Len(s) THEN s[i] ELSE v[i - Len(s)]
  BY <1>1, ConcatProperties
<1>3. Len(s) \in Nat /\ k \in Nat
  OBVIOUS
<1> HIDE DEF v
<1>4. \A i \in 1..k : (s \o v)[Len(s) + i] = t[i]
  <2> TAKE i \in 1..k
  <2>1. Len(s) + i \in 1..Len(s)+Len(v) /\ ~(Len(s) + i <= Len(s)) /\ (Len(s) + i) - Len(s) = i
    BY <1>1, <1>3
  <2> QED
    BY <1>1, <1>2, <2>1
<1>5. \A i \in 1..Len(s) : (s \o v)[i] = s[i]
  BY <1>1, <1>2, <1>3
<1> QED
  BY <1>1, <1>2, <1>4, <1>5 DEF v

(* A file written in part follows what the remote has.                     *)
LEMMA FollowsPart ==
  ASSUME TypeOK, NEW f \in Files, NEW s \in Seq(Nat), NEW t \in Seq(Nat),
         Follows(f, s, t), NEW k \in 0..Len(t)
  PROVE  /\ s \o SubSeq(t, 1, k) \in Seq(Nat)
         /\ Len(s \o SubSeq(t, 1, k)) = Len(s) + k
         /\ Follows(f, s \o SubSeq(t, 1, k), <<>>)
<1> DEFINE u == s \o SubSeq(t, 1, k)
<1>1. /\ u \in Seq(Nat)
      /\ Len(u) = Len(s) + k
      /\ \A i \in 1..Len(s) : u[i] = s[i]
      /\ \A i \in 1..k : u[Len(s) + i] = t[i]
  BY AppendPrefix
<1>2. /\ Len(s) \in Nat /\ Len(t) \in Nat /\ k \in Nat
      /\ rbase[f] \in Nat /\ rsize[f] \in Nat
  BY DEF TypeOK
<1> HIDE DEF u
<1>3. Len(s) + k <= rsize[f]
  BY <1>2 DEF Follows
<1>4. ASSUME NEW i \in 1..Len(u) PROVE u[i] = rbase[f] + i
  <2>1. CASE i <= Len(s)
    BY <1>1, <1>2, <2>1 DEF Follows
  <2>2. CASE i > Len(s)
    <3>1. i - Len(s) \in 1..k /\ i - Len(s) \in 1..Len(t) /\ Len(s) + (i - Len(s)) = i
      BY <1>1, <1>2, <2>2
    <3>2. u[Len(s) + (i - Len(s))] = t[i - Len(s)]
      BY <1>1, <3>1
    <3>3. t[i - Len(s)] = rbase[f] + Len(s) + (i - Len(s))
      BY <3>1 DEF Follows
    <3> QED
      BY <1>2, <3>1, <3>2, <3>3
  <2> QED
    BY <1>1, <1>2, <2>1, <2>2
<1>5. Len(<<>>) = 0
  OBVIOUS
<1>6. Follows(f, u, <<>>)
  BY <1>1, <1>2, <1>3, <1>4, <1>5 DEF Follows
<1> QED
  BY <1>1, <1>6 DEF u

(* A file written in full follows what the remote has.                     *)
LEMMA FollowsAll ==
  ASSUME TypeOK, NEW f \in Files, NEW s \in Seq(Nat), NEW t \in Seq(Nat),
         Follows(f, s, t)
  PROVE  /\ s \o t \in Seq(Nat)
         /\ Len(s \o t) = Len(s) + Len(t)
         /\ Follows(f, s \o t, <<>>)
<1>1. Len(t) \in 0..Len(t) /\ SubSeq(t, 1, Len(t)) = t
  <2>1. Len(t) \in Nat
    OBVIOUS
  <2> QED
    BY <2>1, SMT
<1> QED
  BY <1>1, FollowsPart

Empty == [f \in Files |-> <<>>]

(* The queue and the buffers may be forgotten.                             *)
LEMMA FitForget ==
  ASSUME NEW lf \in SUBSET Files, NEW l \in [Files -> Seq(Nat)],
         NEW td \in SUBSET Files, NEW jb, NEW jb2,
         NEW bf \in SUBSET Files, NEW b \in [Files -> Seq(Nat)],
         TypeOK, Fit(lf, l, td, jb, bf, b)
  PROVE  Fit(lf, l, {}, jb2, {}, Empty)
<1>1. ASSUME NEW f \in Files PROVE Follows(f, l[f], <<>>)
  <2>1. Len(l[f]) \in Nat /\ Len(b[f]) \in Nat /\ rsize[f] \in Nat /\ Len(<<>>) = 0
    BY DEF TypeOK
  <2>2. Follows(f, l[f], b[f])
    BY DEF Fit
  <2> QED
    BY <2>1, <2>2 DEF Follows
<1> QED
  BY <1>1 DEF Fit, Empty

(* Writing the buffers to the cache.                                       *)
LEMMA FitFlush ==
  ASSUME TypeOK, NEW td \in SUBSET Files, NEW jb \in [Files -> Job],
         NEW bf \in SUBSET Files, NEW b \in [Files -> Seq(Nat)],
         Fit(localFiles, local, td, jb, bf, b)
  PROVE  Fit(localFiles \cup bf, Appended(bf, b), td, jb, {}, Empty)
<1> DEFINE l2 == Appended(bf, b)
<1>1. ASSUME NEW f \in Files
      PROVE  /\ local[f] \in Seq(Nat) /\ b[f] \in Seq(Nat)
             /\ Len(local[f]) \in Nat /\ Len(b[f]) \in Nat
             /\ Len(l2[f]) = Len(local[f]) + Len(b[f]) /\ Follows(f, l2[f], <<>>)
  <2>1. /\ local[f] \in Seq(Nat) /\ b[f] \in Seq(Nat)
        /\ Len(local[f]) \in Nat /\ Len(b[f]) \in Nat
    BY DEF TypeOK
  <2>2. Follows(f, local[f], b[f]) /\ (f \notin bf => b[f] = <<>>)
    BY DEF Fit
  <2>3. CASE f \in bf
    BY <2>1, <2>2, <2>3, FollowsAll DEF Appended
  <2>4. CASE f \notin bf
    <3>1. l2[f] = local[f] /\ b[f] = <<>> /\ Len(<<>>) = 0
      BY <2>2, <2>4 DEF Appended
    <3> QED
      BY <2>1, <2>2, <3>1
  <2> QED
    BY <2>1, <2>3, <2>4
<1> HIDE DEF l2
<1>2. \A f \in Files : Empty[f] = <<>> /\ Len(Empty[f]) = 0
  BY DEF Empty
<1>3. \A f \in Files : Follows(f, l2[f], Empty[f])
  BY <1>1, <1>2
<1>4. ASSUME NEW f \in td
      PROVE  jb[f].local + jb[f].got = Len(l2[f]) + Len(Empty[f]) /\ jb[f].remote <= rsize[f]
  <2>1. f \in Files
    OBVIOUS
  <2>2. jb[f].local + jb[f].got = Len(local[f]) + Len(b[f]) /\ jb[f].remote <= rsize[f]
    BY DEF Fit
  <2>3. Len(l2[f]) = Len(local[f]) + Len(b[f]) /\ Len(Empty[f]) = 0
    BY <1>1, <1>2, <2>1
  <2>4. Len(local[f]) \in Nat /\ Len(b[f]) \in Nat
    BY <1>1, <2>1
  <2>5. Len(l2[f]) + Len(Empty[f]) = Len(local[f]) + Len(b[f])
    BY <2>3, <2>4
  <2> QED
    BY <2>2, <2>5
<1>5. ASSUME NEW f \in Files, Whole(f, localFiles, local, bf, b)
      PROVE  Whole(f, localFiles \cup bf, l2, {}, Empty)
  <2>1. Len(l2[f]) = Len(local[f]) + Len(b[f]) /\ Len(Empty[f]) = 0
    BY <1>1, <1>2
  <2>2. Len(local[f]) \in Nat /\ Len(b[f]) \in Nat
    BY <1>1
  <2>3. Len(l2[f]) + Len(Empty[f]) = Len(local[f]) + Len(b[f])
    BY <2>1, <2>2
  <2> QED
    BY <1>5, <2>3 DEF Whole
<1>6. ASSUME NEW f \in Files, Whole(f, localFiles, local, {}, Empty)
      PROVE  Whole(f, localFiles \cup bf, l2, {}, Empty)
  <2>1. Len(local[f]) = rsize[f] /\ rsize[f] \in Nat
    BY <1>1, <1>2, <1>6 DEF Whole, TypeOK
  <2>2. Len(local[f]) + Len(b[f]) <= rsize[f]
    BY DEF Fit, Follows
  <2>3. Len(l2[f]) = Len(local[f]) + Len(b[f]) /\ Len(Empty[f]) = 0
    BY <1>1, <1>2
  <2>4. Len(local[f]) \in Nat /\ Len(b[f]) \in Nat
    BY <1>1
  <2>5. Len(l2[f]) + Len(Empty[f]) = rsize[f]
    BY <2>1, <2>2, <2>3, <2>4
  <2> QED
    BY <1>6, <2>5 DEF Whole
<1>7. ASSUME NEW g \in localFiles \cup bf, NEW f \in Files, Older(f, g)
      PROVE  Whole(f, localFiles \cup bf, l2, {}, Empty)
  <2>1. CASE g \in localFiles
    BY <1>6, <1>7, <2>1 DEF Fit, Empty
  <2>2. CASE g \in bf
    BY <1>5, <1>7, <2>2 DEF Fit
  <2> QED
    BY <2>1, <2>2
<1>8. ASSUME NEW g \in td, NEW f \in Files, Older(f, g)
      PROVE  Whole(f, localFiles \cup bf, l2, {}, Empty) \/ (f \in td /\ jb[f].remote = rsize[f])
  BY <1>5, <1>8 DEF Fit
<1>9. Fit(localFiles \cup bf, l2, td, jb, {}, Empty)
  BY <1>2, <1>3, <1>4, <1>7, <1>8 DEF Fit, Empty
<1> QED
  BY <1>9 DEF l2

(* Empty files at the head of the queue become buffered files.             *)
LEMMA FitSkip ==
  ASSUME TypeOK, NEW td \in SUBSET todo, NEW jb \in [Files -> Job],
         NEW bf \in SUBSET Files, NEW b \in [Files -> Seq(Nat)],
         NEW lf \in SUBSET Files, NEW l \in [Files -> Seq(Nat)],
         \A f \in Files : jb[f].remote = job[f].remote,
         Fit(lf, l, td, jb, bf, b)
  PROVE  Fit(lf, l, td \ Leading(td), [f \in Files |-> IF f \in td \ Leading(td) THEN jb[f] ELSE NoJob],
             bf \cup Leading(td), b)
<1> DEFINE lead == Leading(td)
           td2 == td \ lead
           jb2 == [f \in Files |-> IF f \in td2 THEN jb[f] ELSE NoJob]
<1>1. lead \subseteq td /\ td \subseteq Files
  BY DEF Leading, TypeOK
<1>2. ASSUME NEW f \in lead PROVE jb[f].remote = 0
  <2>1. job[f] \in Job /\ f \in Files
    BY <1>1 DEF TypeOK
  <2>2. job[f].remote \in Nat
    BY <2>1 DEF Job
  <2>3. ~Before(f, f)
    <3>1. Name(f) \in Nat
      BY <2>1, NamesAreNat
    <3> QED
      BY <3>1 DEF Before
  <2>4. ~(job[f].remote > 0)
    BY <1>1, <2>3 DEF Leading, NonEmpty
  <2> QED
    BY <2>1, <2>2, <2>4
<1>3. ASSUME NEW g \in lead, NEW f \in td, Older(f, g) PROVE f \in lead
  <2>1. f \in Files /\ g \in Files /\ Dir(f) = Dir(g) /\ Name(f) < Name(g)
    BY <1>1, <1>3 DEF Older, In
  <2>2. ASSUME NEW h \in NonEmpty(td), Before(g, h) PROVE Before(f, h)
    <3>1. h \in Files
      BY <1>1 DEF NonEmpty
    <3>2. Name(f) \in Nat /\ Name(g) \in Nat /\ Name(h) \in Nat
      BY <2>1, <3>1, NamesAreNat
    <3>3. CASE Dir(g) = Dir(h)
      BY <2>1, <2>2, <3>2, <3>3 DEF Before
    <3>4. CASE Dir(g) # Dir(h)
      BY <2>1, <2>2, <3>4 DEF Before
    <3> QED
      BY <3>3, <3>4
  <2> QED
    BY <2>2 DEF Leading
<1>4. ASSUME NEW f \in Files
      PROVE  /\ Len(l[f]) \in Nat /\ Len(b[f]) \in Nat /\ rsize[f] \in Nat
             /\ Follows(f, l[f], b[f])
  BY DEF TypeOK, Fit
<1>5. ASSUME NEW f \in lead, jb[f].remote = rsize[f]
      PROVE  Whole(f, lf, l, bf \cup lead, b)
  <2>1. f \in Files /\ rsize[f] = 0
    BY <1>1, <1>2, <1>5
  <2> QED
    BY <1>4, <2>1 DEF Follows, Whole
<1>6. ASSUME NEW f \in Files, Whole(f, lf, l, bf, b) PROVE Whole(f, lf, l, bf \cup lead, b)
  BY <1>6 DEF Whole
<1> HIDE DEF lead
<1>7. ASSUME NEW g \in bf \cup lead, NEW f \in Files, Older(f, g)
      PROVE  Whole(f, lf, l, bf \cup lead, b)
  <2>1. CASE g \in bf
    BY <1>6, <1>7, <2>1 DEF Fit
  <2>2. CASE g \in lead
    <3>1. Whole(f, lf, l, bf, b) \/ (f \in td /\ jb[f].remote = rsize[f])
      BY <1>1, <1>7, <2>2 DEF Fit
    <3> QED
      BY <1>3, <1>5, <1>6, <1>7, <2>2, <3>1
  <2> QED
    BY <2>1, <2>2
<1>8. ASSUME NEW g \in td2, NEW f \in Files, Older(f, g)
      PROVE  Whole(f, lf, l, bf \cup lead, b) \/ (f \in td2 /\ jb2[f].remote = rsize[f])
  <2>1. Whole(f, lf, l, bf, b) \/ (f \in td /\ jb[f].remote = rsize[f])
    BY <1>8 DEF Fit
  <2> QED
    BY <1>5, <1>6, <2>1
<1>9. \A f \in td2 : /\ jb2[f].local + jb2[f].got = Len(l[f]) + Len(b[f])
                     /\ jb2[f].remote <= rsize[f]
  <2>1. \A f \in td2 : f \in Files /\ f \in td
    BY <1>1
  <2> QED
    BY <2>1 DEF Fit
<1> HIDE DEF td2, jb2
<1>10. Fit(lf, l, td2, jb2, bf \cup lead, b)
  BY <1>7, <1>8, <1>9 DEF Fit
<1> QED
  BY <1>10 DEF lead, td2, jb2

(* The process dies while the buffers are written.                         *)
LEMMA FitDie ==
  ASSUME TypeOK, NEW td, NEW jb, NEW jb2,
         NEW bf \in SUBSET Files, NEW b \in [Files -> Seq(Nat)],
         Fit(localFiles, local, td, jb, bf, b),
         NEW c \in bf, NEW ds \in SUBSET Dirs, NEW k \in 0..Len(b[c])
  PROVE  Fit(localFiles \cup {c} \cup Written(bf, ds, c), AppendedUpTo(bf, b, ds, c, k),
             {}, jb2, {}, Empty)
<1> DEFINE l2 == AppendedUpTo(bf, b, ds, c, k)
           w == Written(bf, ds, c)
           lf2 == localFiles \cup {c} \cup w
<1>0. w \subseteq bf /\ w \subseteq Files
  BY DEF Written
<1>1. ASSUME NEW f \in Files
      PROVE  /\ local[f] \in Seq(Nat) /\ b[f] \in Seq(Nat)
             /\ Len(local[f]) \in Nat /\ Len(b[f]) \in Nat /\ rsize[f] \in Nat
             /\ Follows(f, local[f], b[f])
             /\ Len(local[f]) + Len(b[f]) <= rsize[f]
  <2>1. local[f] \in Seq(Nat) /\ b[f] \in Seq(Nat) /\ rsize[f] \in Nat
    BY DEF TypeOK
  <2>2. Follows(f, local[f], b[f])
    BY DEF Fit
  <2> QED
    BY <2>1, <2>2 DEF Follows
<1>2. \A f \in Files : Empty[f] = <<>> /\ Len(Empty[f]) = 0
  BY DEF Empty
<1>3. c \in Files /\ c \notin w /\ ~(Name(c) < Name(c))
  <2>1. c \in Files
    OBVIOUS
  <2>2. Name(c) \in Nat
    BY <2>1, NamesAreNat
  <2> QED
    BY <2>1, <2>2 DEF Written
<1>4. /\ l2[c] = local[c] \o SubSeq(b[c], 1, k)
      /\ \A f \in w : l2[f] = local[f] \o b[f]
      /\ \A f \in Files : f \notin w /\ f # c => l2[f] = local[f]
  BY <1>0, <1>3 DEF AppendedUpTo
<1>5. ASSUME NEW f \in Files PROVE Follows(f, l2[f], <<>>)
  <2>1. CASE f = c
    BY <1>1, <1>4, <2>1, FollowsPart
  <2>2. CASE f \in w
    BY <1>1, <1>4, <2>2, FollowsAll
  <2>3. CASE f # c /\ f \notin w
    <3>1. l2[f] = local[f] /\ Len(<<>>) = 0
      BY <1>4, <2>3
    <3> QED
      BY <1>1, <3>1 DEF Follows
  <2> QED
    BY <2>1, <2>2, <2>3
<1> HIDE DEF l2, w
(* A file whole in the cache before stays so. *)
<1>6. ASSUME NEW f \in Files, Whole(f, localFiles, local, {}, Empty)
      PROVE  Whole(f, lf2, l2, {}, Empty)
  <2>1. Len(local[f]) = rsize[f] /\ f \in localFiles
    <3>1. f \in localFiles /\ Len(local[f]) + Len(Empty[f]) = rsize[f]
      BY <1>6 DEF Whole
    <3>2. Len(local[f]) \in Nat /\ Len(Empty[f]) = 0
      BY <1>1, <1>2
    <3> QED
      BY <3>1, <3>2
  <2>2. Len(b[f]) = 0
    BY <1>1, <2>1
  <2>3. Len(l2[f]) = rsize[f]
    <3>1. CASE f = c
      <4>1. k = 0
        BY <2>2, <3>1
      <4>2. Len(l2[f]) = Len(local[f]) + k
        <5>1. /\ local[c] \in Seq(Nat) /\ b[c] \in Seq(Nat)
              /\ Follows(c, local[c], b[c])
          BY <1>1, <1>3
        <5>2. /\ local[c] \o SubSeq(b[c], 1, k) \in Seq(Nat)
              /\ Len(local[c] \o SubSeq(b[c], 1, k)) = Len(local[c]) + k
              /\ Follows(c, local[c] \o SubSeq(b[c], 1, k), <<>>)
          BY <1>3, <5>1, FollowsPart, Zenon
        <5> QED
          BY <1>4, <3>1, <5>2
      <4> QED
        BY <1>1, <2>1, <4>1, <4>2
    <3>2. CASE f \in w
      <4>1. Len(l2[f]) = Len(local[f]) + Len(b[f])
        BY <1>0, <1>1, <1>4, <3>2, FollowsAll
      <4> QED
        BY <1>1, <2>1, <2>2, <4>1
    <3>3. CASE f # c /\ f \notin w
      BY <1>4, <2>1, <3>3
    <3> QED
      BY <3>1, <3>2, <3>3
  <2>4. Len(l2[f]) + Len(Empty[f]) = rsize[f]
    BY <1>1, <1>2, <2>3
  <2> QED
    BY <2>1, <2>4 DEF Whole
(* A file that is whole once the buffers are written, and is not left out. *)
<1>7. ASSUME NEW f \in Files, Whole(f, localFiles, local, bf, b), f \in bf => f \in w
      PROVE  Whole(f, lf2, l2, {}, Empty)
  <2>1. CASE f \in bf
    <3>1. Len(l2[f]) = Len(local[f]) + Len(b[f])
      BY <1>1, <1>4, <1>7, <2>1, FollowsAll
    <3>2. Len(local[f]) + Len(b[f]) = rsize[f]
      BY <1>7 DEF Whole
    <3>3. Len(l2[f]) + Len(Empty[f]) = rsize[f]
      <4>1. Len(local[f]) \in Nat /\ Len(b[f]) \in Nat /\ Len(Empty[f]) = 0
        BY <1>1, <1>2
      <4> QED
        BY <3>1, <3>2, <4>1
    <3> QED
      BY <1>7, <2>1, <3>3 DEF Whole
  <2>2. CASE f \notin bf
    <3>1. b[f] = <<>> /\ Len(b[f]) = 0
      BY <1>2, <2>2 DEF Fit
    <3>2. f \in localFiles /\ Len(local[f]) + Len(b[f]) = rsize[f]
      BY <1>7, <2>2 DEF Whole
    <3>3. Len(local[f]) + Len(Empty[f]) = rsize[f]
      BY <1>1, <1>2, <3>1, <3>2
    <3>4. Whole(f, localFiles, local, {}, Empty)
      BY <3>2, <3>3 DEF Whole
    <3> QED
      BY <1>6, <3>4
  <2> QED
    BY <2>1, <2>2
<1>8. ASSUME NEW g \in lf2, NEW f \in Files, Older(f, g)
      PROVE  Whole(f, lf2, l2, {}, Empty)
  <2>1. CASE g \in localFiles
    BY <1>6, <1>8, <2>1 DEF Fit, Empty
  <2>2. CASE g \in {c} \cup w
    <3>1. g \in bf /\ g \in Files /\ Dir(f) = Dir(g) /\ Name(f) < Name(g)
      BY <1>0, <1>8, <2>2 DEF Older, In
    <3>2. Whole(f, localFiles, local, bf, b)
      BY <1>8, <3>1 DEF Fit
    <3>3. Name(f) \in Nat /\ Name(g) \in Nat /\ Name(c) \in Nat
      BY <1>3, <3>1, NamesAreNat
    <3>4. f \in bf => f \in w
      <4>1. CASE g = c
        BY <3>1, <4>1 DEF w, Written
      <4>2. CASE g \in w
        BY <3>1, <3>3, <4>2 DEF w, Written
      <4> QED
        BY <2>2, <4>1, <4>2
    <3> QED
      BY <1>7, <3>2, <3>4
  <2> QED
    BY <1>8, <2>1, <2>2
<1>9. Fit(lf2, l2, {}, jb2, {}, Empty)
  <2>1. \A f \in Files : Follows(f, l2[f], Empty[f])
    BY <1>2, <1>5
  <2> QED
    BY <1>2, <1>8, <2>1 DEF Fit, Empty
<1> QED
  BY <1>9 DEF l2, w

(* The syncer's files are ones the remote has, or had.                     *)
Known == todo \cup localFiles \cup bufFiles \cup rfiles

(* A step of the syncer leaves the remote journal alone.                   *)
LEMMA RemoteKept ==
  ASSUME RemoteInv, UNCHANGED remoteVars, Known' \subseteq Known
  PROVE  RemoteInv'
<1>1. /\ rfiles' = rfiles /\ rbase' = rbase /\ rsize' = rsize /\ logged' = logged
      /\ todo' \cup localFiles' \cup bufFiles' \cup rfiles'
           \subseteq todo \cup localFiles \cup bufFiles \cup rfiles
  BY DEF remoteVars, Known
<1> QED
  BY <1>1 DEF RemoteInv, In, HoldsEntry, IsNewest

(* FitInv after a step that leaves the remote journal and the age limit.   *)
LEMMA FitPrimed ==
  ASSUME UNCHANGED <<remoteVars, horizon>>,
         Fit(localFiles', local', todo', job', bufFiles', buf'),
         phase' # "reading" => bufFiles' = {},
         phase' = "idle" => todo' = {}
  PROVE  FitInv'
<1>1. rfiles' = rfiles /\ rbase' = rbase /\ rsize' = rsize /\ horizon' = horizon
  BY DEF remoteVars
<1>2. Fit(localFiles, local, todo, job, bufFiles, buf)'
  BY <1>1 DEF Fit, Follows, Whole, Older, In
<1> QED
  BY <1>2 DEF FitInv

(* The buffers are empty outside the reading phase.                        *)
LEMMA NothingBuffered ==
  ASSUME TypeOK, FitInv, phase # "reading"
  PROVE  bufFiles = {} /\ buf = Empty
<1>1. bufFiles = {} /\ \A f \in Files : buf[f] = <<>>
  BY DEF FitInv, Fit
<1>2. buf \in [Files -> Seq(Nat)]
  BY DEF TypeOK
<1> QED
  BY <1>1, <1>2 DEF Empty

(* The process dies while it writes: the syncer is gone.                   *)
LEMMA DieFit ==
  ASSUME TypeOK, NEW td, NEW jb,
         NEW bf \in SUBSET Files, NEW b \in [Files -> Seq(Nat)],
         Fit(localFiles, local, td, jb, bf, b),
         UNCHANGED <<remoteVars, horizon>>,
         DieWriting(bf, b), ResetSyncer
  PROVE  FitInv' /\ Known' \subseteq Known \cup bf
<1>1. todo' = {} /\ bufFiles' = {} /\ buf' = Empty /\ phase' = "idle"
  BY DEF ResetSyncer, Empty
<1>2. PICK c \in bf, ds \in SUBSET Dirs :
        /\ localFiles' = localFiles \cup {c} \cup Written(bf, ds, c)
        /\ \E k \in 0..Len(b[c]) : local' = AppendedUpTo(bf, b, ds, c, k)
  BY DEF DieWriting
<1>3. PICK k \in 0..Len(b[c]) : local' = AppendedUpTo(bf, b, ds, c, k)
  BY <1>2
<1>4. Fit(localFiles \cup {c} \cup Written(bf, ds, c), AppendedUpTo(bf, b, ds, c, k),
          {}, job', {}, Empty)
  BY FitDie
<1>5. FitInv'
  BY <1>1, <1>2, <1>3, <1>4, FitPrimed
<1> QED
  BY <1>1, <1>2, <1>5 DEF Known, Written, remoteVars

(* Finishing a sync.                                                       *)
LEMMA FinishFit ==
  ASSUME TypeOK, NEW td \in SUBSET Files, NEW jb \in [Files -> Job],
         NEW bf \in SUBSET Files, NEW b \in [Files -> Seq(Nat)], NEW ts,
         Fit(localFiles, local, td, jb, bf, b),
         UNCHANGED <<remoteVars, horizon>>,
         Finish(bf, b, ts)
  PROVE  FitInv' /\ Known' \subseteq Known \cup bf
<1>1. /\ todo' = {} /\ bufFiles' = {} /\ buf' = Empty /\ phase' = "idle" /\ ResetSyncer
  BY DEF Finish, ResetSyncer, Empty
<1>2. CASE DieWriting(bf, b)
  BY <1>1, <1>2, DieFit
<1>3. CASE localFiles' = localFiles \cup bf /\ local' = Appended(bf, b)
  <2>1. Fit(localFiles', local', td, jb, {}, Empty)
    BY <1>3, FitFlush
  <2>2. Fit(localFiles', local', {}, job', {}, Empty)
    BY <2>1 DEF Fit
  <2>3. FitInv'
    BY <1>1, <2>2, FitPrimed
  <2> QED
    BY <1>1, <1>3, <2>3 DEF Known, remoteVars
<1> QED
  BY <1>2, <1>3 DEF Finish

(* Only empty files are left in the queue.                                 *)
LEMMA FitSkipAll ==
  ASSUME TypeOK, NEW td \in SUBSET todo, NEW jb \in [Files -> Job],
         NEW bf \in SUBSET Files, NEW b \in [Files -> Seq(Nat)],
         \A f \in Files : jb[f].remote = job[f].remote,
         Fit(localFiles, local, td, jb, bf, b), NonEmpty(td) = {}
  PROVE  Fit(localFiles, local, {}, [f \in Files |-> NoJob], bf \cup td, b)
<1>1. Leading(td) = td /\ td \ Leading(td) = {}
  BY DEF Leading
<1>2. localFiles \in SUBSET Files /\ local \in [Files -> Seq(Nat)]
  BY DEF TypeOK
<1>3. Fit(localFiles, local, td \ Leading(td),
          [f \in Files |-> IF f \in td \ Leading(td) THEN jb[f] ELSE NoJob],
          bf \cup Leading(td), b)
  BY <1>2, FitSkip
<1> QED
  BY <1>1, <1>3 DEF Fit

(* Going on with the next file.                                            *)
LEMMA ReadNextFit ==
  ASSUME TypeOK, NEW td \in SUBSET todo, NEW jb \in [Files -> Job],
         NEW bf \in SUBSET Files, NEW b \in [Files -> Seq(Nat)], NEW u,
         localFiles' \in SUBSET Files, local' \in [Files -> Seq(Nat)],
         \A f \in Files : jb[f].remote = job[f].remote,
         Fit(localFiles', local', td, jb, bf, b),
         UNCHANGED <<remoteVars, horizon>>,
         ReadNext(td, jb, bf, b, u)
  PROVE  FitInv' /\ Known' \subseteq Known \cup bf \cup localFiles'
<1> DEFINE td2 == td \ Leading(td)
           jb2 == [f \in Files |-> IF f \in td2 THEN jb[f] ELSE NoJob]
<1>1. Fit(localFiles', local', td2, jb2, bf \cup Leading(td), b)
  BY FitSkip
<1>2. /\ todo' = td2 /\ bufFiles' = bf \cup Leading(td) /\ buf' = b /\ phase' = "reading"
      /\ job' = [f \in Files |-> IF f \in todo' THEN jb[f] ELSE NoJob]
  BY DEF ReadNext
<1>3. job' = jb2
  BY <1>2
<1>4. Leading(td) \subseteq td
  BY DEF Leading
<1> HIDE DEF td2, jb2
<1>5. FitInv'
  BY <1>1, <1>2, <1>3, FitPrimed
<1>6. td2 \subseteq td
  BY DEF td2
<1> QED
  BY <1>2, <1>4, <1>5, <1>6 DEF Known, remoteVars

(* The offset of a read is a natural number.                               *)
LEMMA OffsetType == ASSUME TypeOK, NEW f \in Files PROVE Offset(f) \in Nat
<1>1. job[f].local \in Nat /\ job[f].got \in Nat
  BY DEF TypeOK, Job
<1> QED
  BY <1>1 DEF Offset

(* A chunk is not larger than what is left of the file.                    *)
LEMMA WantedFits ==
  ASSUME TypeOK, NEW f \in Files, NEW n \in 1..WantedSize(f)
  PROVE  n \in Nat \ {0} /\ Offset(f) + n <= job[f].remote
<1>1. job[f].remote \in Nat /\ job[f].local \in Nat /\ job[f].got \in Nat
  BY DEF TypeOK, Job
<1>2. Offset(f) \in Nat
  BY OffsetType
<1>3. ChunkSize \in Nat
  BY ConstantsAssumption
<1>4. WantedSize(f) \in Int /\ WantedSize(f) <= job[f].remote - Offset(f)
  BY <1>1, <1>2, <1>3 DEF WantedSize, SmallerOf
<1> QED
  BY <1>1, <1>2, <1>4

(* A chunk that arrives continues the buffer of the first file.            *)
LEMMA ReadFit ==
  ASSUME TypeOK, FitInv, NEW f \in Files, NEW n \in Nat, 1 <= n,
         Offset(f) + n <= job[f].remote,
         IsFront(f), NEW td \in SUBSET todo,
         todo \ {f} \subseteq td, f \notin td => Offset(f) + n = job[f].remote
  PROVE  Fit(localFiles, local, td, [job EXCEPT ![f].got = @ + n], bufFiles \cup {f},
             [buf EXCEPT ![f] = @ \o Chunk(f, Offset(f), n)])
<1> DEFINE b  == [buf EXCEPT ![f] = @ \o Chunk(f, Offset(f), n)]
           jb == [job EXCEPT ![f].got = @ + n]
           bf == bufFiles \cup {f}
<1>0. Fit(localFiles, local, todo, job, bufFiles, buf)
  BY DEF FitInv
<1>1. f \in todo /\ todo \subseteq Files
  BY DEF IsFront, TypeOK
<1>2. ASSUME NEW g \in Files
      PROVE  /\ local[g] \in Seq(Nat) /\ buf[g] \in Seq(Nat) /\ rsize[g] \in Nat
             /\ Len(local[g]) \in Nat /\ Len(buf[g]) \in Nat /\ rbase[g] \in Nat
             /\ Follows(g, local[g], buf[g])
             /\ job[g] \in Job
  BY <1>0 DEF TypeOK, Fit
<1>2a. /\ local \in [Files -> Seq(Nat)] /\ buf \in [Files -> Seq(Nat)]
      /\ rsize \in [Files -> Nat] /\ rbase \in [Files -> Nat] /\ job \in [Files -> Job]
  BY DEF TypeOK
<1>3. /\ Offset(f) = Len(local[f]) + Len(buf[f])
      /\ job[f].remote <= rsize[f]
  BY <1>0, <1>1 DEF Fit, Offset
<1>4. /\ Len(local[f]) \in Nat /\ Len(buf[f]) \in Nat /\ rsize[f] \in Nat
      /\ rbase[f] \in Nat /\ job[f].remote \in Nat /\ job[f].local \in Nat
      /\ job[f].got \in Nat
  <2>1. job[f] \in Job
    BY <1>2
  <2> QED
    BY <1>2, <2>1 DEF Job
<1>5. /\ Offset(f) \in Nat
      /\ Len(local[f]) + Len(buf[f]) + n <= rsize[f]
  BY <1>3, <1>4, <1>2a DEF Job
<1>6. LET c == Chunk(f, Offset(f), n) IN
      /\ c \in Seq(Nat) /\ Len(c) = n
      /\ \A i \in 1..n : c[i] = rbase[f] + Offset(f) + i
  <2>1. rbase \in [Files -> Nat]
    BY DEF TypeOK
  <2> QED
    BY <1>4, <1>5, <2>1, ChunkSeq
<1>7. /\ b[f] = buf[f] \o Chunk(f, Offset(f), n)
      /\ \A g \in Files : g # f => b[g] = buf[g]
      /\ \A g \in Files : g # f => jb[g] = job[g]
      /\ jb[f].remote = job[f].remote /\ jb[f].local = job[f].local
      /\ jb[f].got = job[f].got + n
  BY <1>2 DEF TypeOK, Job
<1> DEFINE c == Chunk(f, Offset(f), n)
<1>8. /\ buf[f] \o c \in Seq(Nat)
      /\ Len(buf[f] \o c) = Len(buf[f]) + n
      /\ \A i \in 1..Len(buf[f])+n : (buf[f] \o c)[i] =
            IF i <= Len(buf[f]) THEN buf[f][i] ELSE c[i - Len(buf[f])]
  <2> HIDE DEF c
  <2>1. c \in Seq(Nat) /\ Len(c) = n
    BY <1>6 DEF c
  <2>2. buf[f] \in Seq(Nat)
    BY <1>2
  <2>3. /\ buf[f] \o c \in Seq(Nat)
        /\ Len(buf[f] \o c) = Len(buf[f]) + Len(c)
        /\ \A i \in 1..Len(buf[f])+Len(c) : (buf[f] \o c)[i] =
              IF i <= Len(buf[f]) THEN buf[f][i] ELSE c[i - Len(buf[f])]
    BY <2>1, <2>2, ConcatOfNats, Zenon
  <2> QED
    BY <2>1, <2>3, Zenon
<1>8a. b \in [Files -> Seq(Nat)] /\ jb \in [Files -> Job]
  <2>1. [job[f] EXCEPT !.got = @ + n] \in Job
    <3>1. job[f] \in Job /\ job[f].got + n \in Nat
      BY <1>2, <1>4
    <3> QED
      BY <3>1 DEF Job
  <2> QED
    BY <1>8, <1>2a, <2>1
<1> HIDE DEF b, jb
<1>9. \A g \in Files : Follows(g, local[g], b[g])
  <2> TAKE g \in Files
  <2>1. CASE g # f
    BY <1>2, <1>7, <2>1
  <2>2. CASE g = f
    <3> HIDE DEF c
    <3>1. Len(b[f]) = Len(buf[f]) + n
      BY <1>7, <1>8 DEF c
    <3>2. Len(local[f]) + Len(b[f]) <= rsize[f]
      BY <1>4, <1>5, <1>8a, <1>2a, <3>1
    <3>3. ASSUME NEW i \in 1..Len(b[f]) PROVE b[f][i] = rbase[f] + Len(local[f]) + i
      <4>1. i \in 1..Len(buf[f])+n /\ Len(buf[f]) \in Nat /\ i \in Nat
        BY <1>2, <3>1
      <4>2. CASE i <= Len(buf[f])
        <5>1. b[f][i] = buf[f][i]
          BY <1>7, <1>8, <4>1, <4>2 DEF c
        <5>2. i \in 1..Len(buf[f])
          BY <4>1, <4>2
        <5>3. buf[f][i] = rbase[f] + Len(local[f]) + i
          BY <1>2, <5>2 DEF Follows
        <5> QED
          BY <5>1, <5>3
      <4>3. CASE ~(i <= Len(buf[f]))
        <5>1. b[f][i] = c[i - Len(buf[f])]
          BY <1>7, <1>8, <4>1, <4>3 DEF c
        <5>2. i - Len(buf[f]) \in 1..n
          BY <1>4, <4>1, <4>3
        <5>3. c[i - Len(buf[f])] = rbase[f] + Offset(f) + (i - Len(buf[f]))
          BY <1>6, <5>2 DEF c
        <5> QED
          BY <1>3, <1>4, <1>8a, <1>2a, <4>1, <5>1, <5>3
      <4> QED
        BY <4>2, <4>3
    <3>4. \A i \in 1..Len(local[f]) : local[f][i] = rbase[f] + i
      BY <1>2 DEF Follows
    <3> QED
      BY <2>2, <3>2, <3>3, <3>4 DEF Follows
  <2> QED
    BY <2>1, <2>2
<1>10. \A g \in Files : g \notin bf => b[g] = <<>>
  BY <1>0, <1>7 DEF Fit
<1>11. \A g \in td : /\ jb[g].local + jb[g].got = Len(local[g]) + Len(b[g])
                     /\ jb[g].remote <= rsize[g]
  <2> TAKE g \in td
  <2>1. g \in todo /\ g \in Files
    BY <1>1
  <2>2. CASE g # f
    BY <1>0, <1>7, <2>1, <2>2 DEF Fit
  <2>3. CASE g = f
    <3> HIDE DEF c
    <3>1. Len(b[f]) = Len(buf[f]) + n
      BY <1>7, <1>8 DEF c
    <3>3. job[f].local + job[f].got = Len(local[f]) + Len(buf[f])
      BY <1>3 DEF Offset
    <3>5. jb[f].local + jb[f].got = Len(local[f]) + Len(b[f])
      <4>1. jb[f].local + jb[f].got = job[f].local + (job[f].got + n)
        BY <1>7
      <4>2. job[f].local + (job[f].got + n) = (job[f].local + job[f].got) + n
        BY <1>4
      <4>3. (Len(local[f]) + Len(buf[f])) + n = Len(local[f]) + Len(b[f])
        BY <1>4, <1>8a, <1>2a, <3>1
      <4> QED
        BY <3>3, <4>1, <4>2, <4>3
    <3> QED
      BY <1>3, <1>7, <2>3, <3>5
  <2> QED
    BY <2>2, <2>3
<1>12. ASSUME NEW h \in Files, Whole(h, localFiles, local, bufFiles, buf)
       PROVE  Whole(h, localFiles, local, bf, b)
  <2>1. h # f
    <3>1. Len(local[h]) + Len(buf[h]) = rsize[h]
      BY <1>12 DEF Whole
    <3>2. Len(local[f]) + Len(buf[f]) # rsize[f]
      BY <1>4, <1>5, <1>2a
    <3> QED
      BY <3>1, <3>2
  <2>2. b[h] = buf[h]
    BY <1>7, <2>1
  <2> QED
    BY <1>12, <2>2 DEF Whole
<1>13. ASSUME NEW h \in todo, Older(h, f) PROVE FALSE
  <2>1. h \in Files /\ Dir(h) = Dir(f) /\ Name(h) < Name(f)
    BY <1>1, <1>13 DEF Older, In
  <2>2. Name(h) \in Nat /\ Name(f) \in Nat
    BY <2>1, NamesAreNat
  <2>3. h # f
    BY <2>1, <2>2
  <2>4. Before(f, h)
    BY <2>3 DEF IsFront
  <2> QED
    BY <2>1, <2>2, <2>4 DEF Before
<1>14. ASSUME NEW g \in bf, NEW h \in Files, Older(h, g)
       PROVE  Whole(h, localFiles, local, bf, b)
  <2>1. CASE g \in bufFiles
    BY <1>0, <1>12, <1>14, <2>1 DEF Fit
  <2>2. CASE g = f
    <3>1. Whole(h, localFiles, local, bufFiles, buf) \/ h \in todo
      BY <1>0, <1>1, <1>14, <2>2 DEF Fit
    <3> QED
      BY <1>12, <1>13, <1>14, <2>2, <3>1
  <2> QED
    BY <2>1, <2>2
<1>15. ASSUME NEW g \in td, NEW h \in Files, Older(h, g)
       PROVE  Whole(h, localFiles, local, bf, b) \/ (h \in td /\ jb[h].remote = rsize[h])
  <2>1. \/ Whole(h, localFiles, local, bufFiles, buf)
        \/ h \in todo /\ job[h].remote = rsize[h]
    BY <1>0, <1>15 DEF Fit
  <2>2. CASE h # f
    BY <1>7, <1>12, <2>1, <2>2
  <2>3. CASE h = f /\ f \in td
    BY <1>7, <1>12, <2>1, <2>3
  <2>4. CASE h = f /\ f \notin td
    <3>1. Offset(f) + n = job[f].remote
      BY <1>1, <2>4
    <3>2. CASE job[f].remote = rsize[f]
      <4>1. Len(b[f]) = Len(buf[f]) + n
        BY <1>7, <1>8
      <4>2. Len(local[f]) + Len(b[f]) = rsize[f]
        BY <1>3, <1>4, <1>8a, <1>2a, <3>1, <3>2, <4>1
      <4> QED
        BY <2>4, <4>2 DEF Whole
    <3>3. CASE Whole(h, localFiles, local, bufFiles, buf)
      BY <1>12, <3>3
    <3> QED
      BY <2>1, <2>4, <3>2, <3>3
  <2> QED
    BY <2>2, <2>3, <2>4
<1> HIDE DEF bf
<1>16. Fit(localFiles, local, td, jb, bf, b)
  BY <1>0, <1>9, <1>10, <1>11, <1>14, <1>15 DEF Fit
<1> QED
  BY <1>16 DEF b, jb, bf

(* The answer to an lsfiles call is queued.                                *)
LEMMA ListFit ==
  ASSUME TypeOK, CallsInv, FitInv, NEW d \in Dirs, d \in pending
  PROVE  Fit(localFiles, local, todo \cup ToDownload(d),
             [f \in Files |->
                IF f \in ToDownload(d)
                THEN [remote |-> rsize[f], local |-> Len(local[f]), got |-> 0]
                ELSE job[f]],
             {}, Empty)
<1> DEFINE jb == [f \in Files |->
                    IF f \in ToDownload(d)
                    THEN [remote |-> rsize[f], local |-> Len(local[f]), got |-> 0]
                    ELSE job[f]]
           new == ToDownload(d)
<1>1. bufFiles = {} /\ buf = Empty
  BY NothingBuffered DEF CallsInv
<1>2. Fit(localFiles, local, todo, job, {}, Empty)
  BY <1>1 DEF FitInv
<1>3. new \subseteq In(rfiles, d) /\ new \subseteq Files /\ todo \subseteq Files
  BY DEF ToDownload, In, TypeOK
<1>4. /\ \A f \in new : /\ jb[f].remote = rsize[f]
                        /\ jb[f].local = Len(local[f]) /\ jb[f].got = 0
      /\ \A f \in Files : f \notin new => jb[f] = job[f]
  BY <1>3
<1>5. \A f \in Files : /\ Empty[f] = <<>> /\ Len(Empty[f]) = 0
                       /\ Len(local[f]) \in Nat /\ rsize[f] \in Nat
                       /\ Follows(f, local[f], Empty[f])
  BY <1>2 DEF Empty, TypeOK, Fit
<1> HIDE DEF jb
<1>6. \A f \in todo \cup new : /\ jb[f].local + jb[f].got = Len(local[f]) + Len(Empty[f])
                               /\ jb[f].remote <= rsize[f]
  <2> TAKE f \in todo \cup new
  <2>1. CASE f \in new
    <3>1. jb[f].remote = rsize[f] /\ jb[f].local = Len(local[f]) /\ jb[f].got = 0
      BY <1>4, <2>1
    <3>2. Len(Empty[f]) = 0 /\ Len(local[f]) \in Nat /\ rsize[f] \in Nat
      BY <1>3, <1>5, <2>1
    <3> QED
      BY <3>1, <3>2
  <2>2. CASE f \notin new
    BY <1>2, <1>3, <1>4, <2>2 DEF Fit
  <2> QED
    BY <2>1, <2>2
(* A file that is not to be downloaded is whole or too old. *)
<1>7. ASSUME NEW g \in new, NEW f \in Files, Older(f, g), f \notin new
      PROVE  Whole(f, localFiles, local, {}, Empty)
  <2>1. f \in In(rfiles, d) /\ Dir(f) = d /\ horizon <= Name(f)
    BY <1>3, <1>7 DEF Older, In
  <2>2. CASE TooOld(f)
    <3>1. Name(f) \in Nat /\ horizon \in Nat
      BY NamesAreNat DEF TypeOK
    <3>2. In(localFiles, d) # {}
      BY <2>1, <2>2, <3>1 DEF TooOld
    <3>3. PICK h \in In(localFiles, d) : Name(f) < Name(h)
      BY <2>1, <2>2, <3>2 DEF TooOld
    <3>4. h \in localFiles /\ Dir(h) = d
      BY <3>3 DEF In
    <3>5. Older(f, h)
      BY <2>1, <3>3, <3>4 DEF Older
    <3> QED
      BY <1>2, <3>4, <3>5 DEF Fit, Empty
  <2>3. CASE f \in localFiles /\ ~(Len(local[f]) < rsize[f])
    <3>1. Len(local[f]) + Len(Empty[f]) <= rsize[f]
      BY <1>5 DEF Follows
    <3>2. Len(local[f]) \in Nat /\ rsize[f] \in Nat /\ Len(Empty[f]) = 0
      BY <1>5
    <3>3. Len(local[f]) + Len(Empty[f]) = rsize[f]
      BY <2>3, <3>1, <3>2
    <3> QED
      BY <2>3, <3>3 DEF Whole
  <2> QED
    BY <1>7, <2>1, <2>2, <2>3 DEF ToDownload
<1>8. ASSUME NEW g \in todo \cup new, NEW f \in Files, Older(f, g)
      PROVE  \/ Whole(f, localFiles, local, {}, Empty)
             \/ f \in todo \cup new /\ jb[f].remote = rsize[f]
  <2>1. CASE f \in new
    BY <1>4, <2>1
  <2>2. CASE f \notin new /\ g \in new
    BY <1>7, <1>8, <2>2
  <2>3. CASE f \notin new /\ g \in todo
    BY <1>2, <1>4, <1>8, <2>3 DEF Fit
  <2> QED
    BY <2>1, <2>2, <2>3
<1> HIDE DEF new
<1>9. Fit(localFiles, local, todo \cup new, jb, {}, Empty)
  BY <1>2, <1>6, <1>8 DEF Fit
<1> QED
  BY <1>9 DEF jb, new

(* The steps of the environment keep the cache and the queue fitting: only *)
(* the newest file grows, a new file is newer than all the known ones.     *)
LEMMA EnvironmentFit ==
  TypeOK /\ RemoteInv /\ FitInv /\ Environment => RemoteInv' /\ FitInv'
<1> SUFFICES ASSUME TypeOK, RemoteInv, FitInv, Environment PROVE RemoteInv' /\ FitInv'
  OBVIOUS
<1>0a. /\ rfiles \subseteq Files /\ rbase \in [Files -> Nat] /\ rsize \in [Files -> Nat]
      /\ logged \in [Dirs -> 0..MaxEvents] /\ localFiles \subseteq Files
      /\ local \in [Files -> Seq(Nat)] /\ todo \subseteq Files /\ bufFiles \subseteq Files
      /\ buf \in [Files -> Seq(Nat)] /\ horizon \in Nat /\ job \in [Files -> Job]
  BY DEF TypeOK
<1>0b. \A f \in Files : Name(f) \in Nat /\ Dir(f) \in Dirs
  BY NamesAreNat DEF Files, Dir
<1>1. ASSUME NEW d \in Dirs, RemoteOpen(d) PROVE RemoteInv' /\ FitInv'
  <2> DEFINE n == <<d, Stamp[logged[d] + 1]>>
  <2>1. n \in Files /\ Dir(n) = d
    BY <1>1 DEF RemoteOpen, Files, Dir, Name
  <2>2. /\ \A g \in In(rfiles, d) : Name(g) < Name(n)
        /\ rfiles' = rfiles \cup {n}
        /\ rbase' = [rbase EXCEPT ![n] = logged[d]]
        /\ rsize' = [rsize EXCEPT ![n] = 0]
        /\ UNCHANGED <<logged, cacheVars, syncerVars, horizon>>
    BY <1>1 DEF RemoteOpen
  <2> HIDE DEF n
  <2>3. /\ rbase'[n] = logged[d] /\ rsize'[n] = 0
        /\ \A f \in Files : f # n => rbase'[f] = rbase[f] /\ rsize'[f] = rsize[f]
    BY <1>0a, <2>1, <2>2
  (* The new file is newer than every known one of its directory. *)
  <2>4. ASSUME NEW f \in Files, Dir(f) = d, f \in Known \/ rsize[f] > 0
        PROVE  Name(f) < Name(n) /\ f # n
    <3>1. PICK h \in In(rfiles, Dir(f)) : Name(f) <= Name(h)
      BY <2>4 DEF RemoteInv, Known
    <3>2. h \in Files /\ Name(h) < Name(n)
      BY <1>0a, <2>2, <2>4, <3>1 DEF In
    <3>3. Name(f) \in Nat /\ Name(h) \in Nat /\ Name(n) \in Nat
      BY <1>0b, <2>1, <3>2
    <3>4. Name(f) < Name(n)
      BY <3>1, <3>2, <3>3
    <3> QED
      BY <3>3, <3>4
  <2>5. n \notin Known /\ rsize[n] = 0
    <3>1. n \notin Known /\ ~(rsize[n] > 0) /\ rsize[n] \in Nat
      BY <1>0a, <2>1, <2>4
    <3> QED
      BY <3>1
  <2>6. RemoteInv'
    <3>1. ASSUME NEW f \in Files, f \in (Known)' \/ rsize'[f] > 0
          PROVE  \E h \in In(rfiles', Dir(f)) : Name(f) <= Name(h)
      <4>1. CASE f = n
        <5>1. Name(n) <= Name(n)
          BY <1>0b, <2>1
        <5> QED
          BY <2>2, <4>1, <5>1 DEF In
      <4>2. CASE f # n
        <5>1. f \in Known \/ rsize[f] > 0
          BY <2>2, <2>3, <3>1, <4>2 DEF Known, cacheVars, syncerVars
        <5> QED
          BY <2>2, <5>1 DEF RemoteInv, Known, In
      <4> QED
        BY <4>1, <4>2
    <3>2. ASSUME NEW f \in Files PROVE rbase'[f] + rsize'[f] <= logged'[Dir(f)]
      <4>1. CASE f = n
        BY <1>0a, <2>1, <2>2, <2>3, <4>1
      <4>2. CASE f # n
        BY <2>2, <2>3, <4>2 DEF RemoteInv
      <4> QED
        BY <4>1, <4>2
    <3>3. ASSUME NEW c \in Dirs, NEW e \in 1..logged'[c]
          PROVE  \E h \in In(Files, c) : HoldsEntry(h, e)'
      <4>1. PICK h \in In(Files, c) : HoldsEntry(h, e)
        BY <2>2, <3>3 DEF RemoteInv
      <4>2. h \in Files /\ rbase[h] < e /\ e <= rbase[h] + rsize[h]
        BY <4>1 DEF HoldsEntry, In
      <4>3. h # n
        <5>1. rbase[n] \in Nat /\ e \in Int
          BY <1>0a, <2>1, <2>2
        <5> QED
          BY <2>5, <4>2, <5>1
      <4> QED
        BY <2>3, <4>1, <4>2, <4>3 DEF HoldsEntry
    <3>4. ASSUME NEW f \in Files, NEW g \in Files, Dir(f) = Dir(g), Name(f) < Name(g),
                 g \in rfiles' \/ rsize'[g] > 0
          PROVE  rbase'[f] + rsize'[f] <= rbase'[g]
      <4>0. f # g
        BY <1>0b, <3>4
      <4>1. CASE g = n
        <5>1. rbase'[f] = rbase[f] /\ rsize'[f] = rsize[f] /\ rbase'[g] = logged[Dir(f)]
          BY <2>1, <2>3, <3>4, <4>0, <4>1
        <5> QED
          BY <5>1 DEF RemoteInv
      <4>2. CASE g # n
        <5>1. (g \in rfiles \/ rsize[g] > 0) /\ rbase'[g] = rbase[g]
          BY <2>2, <2>3, <3>4, <4>2
        <5>2. f # n
          <6>1. CASE Dir(g) = d
            <7>1. Name(g) < Name(n)
              BY <2>4, <5>1, <6>1 DEF Known
            <7>2. Name(f) \in Nat /\ Name(g) \in Nat /\ Name(n) \in Nat
              BY <1>0b, <2>1
            <7> QED
              BY <3>4, <7>1, <7>2
          <6>2. CASE Dir(g) # d
            BY <2>1, <3>4, <6>2
          <6> QED
            BY <6>1, <6>2
        <5>3. rbase[f] + rsize[f] <= rbase[g]
          BY <3>4, <5>1 DEF RemoteInv
        <5> QED
          BY <2>3, <5>1, <5>2, <5>3
      <4> QED
        BY <4>1, <4>2
    <3>5. ASSUME NEW f \in rfiles', \A g \in In(rfiles', Dir(f)) : Name(g) <= Name(f)
          PROVE  rbase'[f] + rsize'[f] = logged'[Dir(f)]
      <4>1. CASE f = n
        BY <1>0a, <2>1, <2>2, <2>3, <4>1
      <4>2. CASE f # n
        <5>1. f \in rfiles /\ f \in Files
          BY <1>0a, <2>2, <4>2
        <5>2. IsNewest(f, rfiles)
          BY <2>2, <3>5, <5>1 DEF IsNewest, In
        <5>3. rbase[f] + rsize[f] = logged[Dir(f)]
          BY <5>1, <5>2 DEF RemoteInv
        <5> QED
          BY <2>2, <2>3, <4>2, <5>1, <5>3
      <4> QED
        BY <4>1, <4>2
    <3>6. \A h \in Files, e \in Nat : HoldsEntry(h, e)' <=> rbase'[h] < e /\ e <= rbase'[h] + rsize'[h]
      BY DEF HoldsEntry
    <3> QED
      BY <3>1, <3>2, <3>3, <3>4, <3>5 DEF RemoteInv, IsNewest, Known
  <2>7. FitInv'
    <3>1. Fit(localFiles, local, todo, job, bufFiles, buf)
      BY DEF FitInv
    <3>2. /\ localFiles' = localFiles /\ local' = local /\ todo' = todo /\ job' = job
          /\ bufFiles' = bufFiles /\ buf' = buf /\ phase' = phase /\ horizon' = horizon
      BY <2>2 DEF cacheVars, syncerVars
    <3>3. ASSUME NEW g \in Files, g \in Known, NEW f \in Files, Older(f, g)'
          PROVE  Older(f, g) /\ f # n
      <4>1. f \in In(rfiles', Dir(g)) /\ horizon <= Name(f) /\ Name(f) < Name(g)
        BY <3>2, <3>3 DEF Older
      <4>2. f # n
        <5>1. CASE f = n
          <6>1. Dir(g) = d
            BY <2>1, <4>1, <5>1 DEF In
          <6>2. Name(g) < Name(n)
            BY <2>4, <3>3, <6>1
          <6>3. Name(g) \in Nat /\ Name(n) \in Nat
            BY <1>0b, <2>1
          <6> QED
            BY <4>1, <5>1, <6>2, <6>3
        <5> QED
          BY <5>1
      <4> QED
        BY <2>2, <4>1, <4>2 DEF Older, In
    <3>4. ASSUME NEW f \in Files PROVE Follows(f, local[f], buf[f])'
      <4>1. CASE f = n
        <5>1. Follows(n, local[n], buf[n])
          BY <2>1, <3>1 DEF Fit
        <5>2. Len(local[n]) + Len(buf[n]) <= 0
          BY <2>5, <5>1 DEF Follows
        <5>3. Len(local[n]) \in Nat /\ Len(buf[n]) \in Nat
          BY <1>0a, <2>1
        <5>4. Len(local[n]) = 0 /\ Len(buf[n]) = 0
          BY <1>0a, <2>1, <5>2, <5>3
        <5> QED
          BY <2>3, <3>2, <4>1, <5>4 DEF Follows
      <4>2. CASE f # n
        <5>1. Follows(f, local[f], buf[f])
          BY <3>1 DEF Fit
        <5> QED
          BY <2>3, <3>2, <4>2, <5>1 DEF Follows
      <4> QED
        BY <4>1, <4>2
    <3>5. ASSUME NEW f \in Files, f # n, NEW lf, NEW l, NEW bf, NEW b, Whole(f, lf, l, bf, b)
          PROVE  f \in lf \cup bf /\ Len(l[f]) + Len(b[f]) = rsize'[f]
      BY <2>3, <3>5 DEF Whole
    <3>6. ASSUME NEW g \in localFiles, NEW f \in Files, Older(f, g)'
          PROVE  Whole(f, localFiles, local, {}, Empty)'
      <4>1. Older(f, g) /\ f # n
        BY <1>0a, <3>3, <3>6 DEF Known
      <4>2. Whole(f, localFiles, local, {}, Empty)
        BY <3>1, <4>1 DEF Fit, Empty
      <4> QED
        BY <3>2, <3>5, <4>1, <4>2 DEF Whole, Empty
    <3>7. ASSUME NEW g \in bufFiles, NEW f \in Files, Older(f, g)'
          PROVE  Whole(f, localFiles, local, bufFiles, buf)'
      <4>1. Older(f, g) /\ f # n
        BY <1>0a, <3>3, <3>7 DEF Known
      <4>2. Whole(f, localFiles, local, bufFiles, buf)
        BY <3>1, <4>1 DEF Fit
      <4> QED
        BY <3>2, <3>5, <4>1, <4>2 DEF Whole
    <3>8. ASSUME NEW g \in todo, NEW f \in Files, Older(f, g)'
          PROVE  \/ Whole(f, localFiles, local, bufFiles, buf)'
                 \/ f \in todo /\ job[f].remote = rsize'[f]
      <4>1. Older(f, g) /\ f # n
        BY <1>0a, <3>3, <3>8 DEF Known
      <4>2. Whole(f, localFiles, local, bufFiles, buf) \/ (f \in todo /\ job[f].remote = rsize[f])
        BY <3>1, <4>1 DEF Fit
      <4> QED
        BY <2>3, <3>2, <3>5, <4>1, <4>2 DEF Whole
    <3>9. \A f \in todo : job[f].remote <= rsize'[f]
      BY <1>0a, <2>3, <2>5, <3>1 DEF Fit, Known
    <3>10. Fit(localFiles, local, todo, job, bufFiles, buf)'
      BY <3>1, <3>2, <3>4, <3>6, <3>7, <3>8, <3>9 DEF Fit, Empty
    <3> QED
      BY <3>2, <3>10 DEF FitInv
  <2> QED
    BY <2>6, <2>7
<1>2. ASSUME NEW d \in Dirs, NEW e \in Events, Record(d, e) PROVE RemoteInv' /\ FitInv'
  BY <1>2 DEF Record, RemoteInv, FitInv, Fit, Follows, Whole, Older, HoldsEntry, In, IsNewest,
              remoteVars, syncerVars
<1>3. ASSUME NEW a \in Files, RemoteAppend(a) PROVE RemoteInv' /\ FitInv'
  <2>1. /\ a \in rfiles /\ IsNewest(a, rfiles)
        /\ rsize' = [rsize EXCEPT ![a] = @ + 1]
        /\ logged' = [logged EXCEPT ![Dir(a)] = @ + 1]
        /\ UNCHANGED <<rfiles, rbase, cacheVars, syncerVars, horizon>>
    BY <1>3 DEF RemoteAppend
  <2>2. /\ rsize'[a] = rsize[a] + 1
        /\ \A f \in Files : f # a => rsize'[f] = rsize[f]
        /\ logged'[Dir(a)] = logged[Dir(a)] + 1
        /\ \A d \in Dirs : d # Dir(a) => logged'[d] = logged[d]
    BY <1>0a, <1>0b, <2>1
  <2>3. /\ \A f \in Files : rbase[f] \in Nat /\ rsize[f] \in Nat
        /\ \A d \in Dirs : logged[d] \in Nat
        /\ rsize' \in [Files -> Nat] /\ logged' \in [Dirs -> Nat]
    <3>1. \A d \in Dirs : logged[d] \in Nat
      BY <1>0a
    <3>2. \A f \in Files : rsize'[f] \in Nat
      BY <1>0a, <2>1
    <3>3. \A d \in Dirs : logged'[d] \in Nat
      BY <1>0a, <1>0b, <2>1, <3>1
    <3> QED
      BY <1>0a, <2>1, <3>1, <3>2, <3>3
  <2>3a. ASSUME NEW f \in Files
         PROVE  rsize[f] <= rsize'[f] /\ rsize[f] \in Nat /\ rsize'[f] \in Nat
    <3>1. rsize[f] \in Nat /\ rsize'[f] \in Nat
      BY <2>3
    <3>2. CASE f = a
      <4>1. rsize[a] <= rsize[a] + 1
        BY <1>0a, <3>1, <3>2
      <4> QED
        BY <2>2, <3>1, <3>2, <4>1
    <3>3. CASE f # a
      <4>1. rsize[f] <= rsize[f]
        BY <1>0a, <3>1
      <4> QED
        BY <2>2, <3>1, <3>3, <4>1
    <3> QED
      BY <3>2, <3>3
  (* No known file is newer. *)
  <2>4. ASSUME NEW g \in Files, Dir(g) = Dir(a), g \in Known \/ rsize[g] > 0
        PROVE  ~(Name(a) < Name(g))
    <3>1. PICK h \in In(rfiles, Dir(g)) : Name(g) <= Name(h)
      BY <2>4 DEF RemoteInv, Known
    <3>2. h \in Files /\ Name(h) <= Name(a)
      BY <1>0a, <2>1, <2>4, <3>1 DEF In, IsNewest
    <3>3. Name(a) \in Nat /\ Name(g) \in Nat /\ Name(h) \in Nat
      BY <1>0b, <3>2
    <3> QED
      BY <3>1, <3>2, <3>3
  <2>5. rbase[a] + rsize[a] = logged[Dir(a)]
    BY <2>1 DEF RemoteInv
  <2>6. RemoteInv'
    <3>1. ASSUME NEW f \in Files, Known' = Known, f \in Known \/ rsize'[f] > 0
          PROVE  \E h \in In(rfiles, Dir(f)) : Name(f) <= Name(h)
      <4>1. CASE f = a
        BY <2>1, <4>1 DEF RemoteInv
      <4>2. CASE f # a
        BY <2>2, <3>1, <4>2 DEF RemoteInv, Known
      <4> QED
        BY <4>1, <4>2
    <3>2. ASSUME NEW f \in Files PROVE rbase[f] + rsize'[f] <= logged'[Dir(f)]
      <4>1. rbase[f] + rsize[f] <= logged[Dir(f)] /\ Dir(f) \in Dirs /\ Dir(a) \in Dirs
        BY <1>0b DEF RemoteInv
      <4>2. CASE f = a
        BY <1>0a, <2>2, <2>3, <2>5, <4>1, <4>2
      <4>3. CASE f # a /\ Dir(f) = Dir(a)
        BY <1>0a, <2>2, <2>3, <4>1, <4>3
      <4>4. CASE f # a /\ Dir(f) # Dir(a)
        BY <1>0a, <2>2, <2>3, <4>1, <4>4
      <4> QED
        BY <4>2, <4>3, <4>4
    <3>3. ASSUME NEW c \in Dirs, NEW e \in 1..logged'[c]
          PROVE  \E h \in In(Files, c) : rbase[h] < e /\ e <= rbase[h] + rsize'[h]
      <4>1. CASE e \in 1..logged[c]
        <5>1. PICK h \in In(Files, c) : HoldsEntry(h, e)
          BY <4>1 DEF RemoteInv
        <5>2. h \in Files /\ rbase[h] < e /\ e <= rbase[h] + rsize[h]
          BY <5>1 DEF HoldsEntry, In
        <5>3. e <= rbase[h] + rsize'[h]
          <6>1. rbase[h] \in Nat /\ rsize[h] <= rsize'[h] /\ e \in Int
            BY <2>3, <2>3a, <5>2
          <6> QED
            BY <1>0a, <2>3, <5>2, <6>1
        <5> QED
          BY <5>1, <5>2, <5>3
      <4>2. CASE e \notin 1..logged[c]
        <5>1. c = Dir(a) /\ e = logged[c] + 1
          BY <2>2, <2>3, <3>3, <4>2
        <5>2. rbase[a] < e /\ e <= rbase[a] + rsize'[a]
          BY <1>0a, <2>2, <2>3, <2>5, <5>1
        <5> QED
          BY <5>1, <5>2 DEF In
      <4> QED
        BY <4>1, <4>2
    <3>4. ASSUME NEW f \in Files, NEW g \in Files, Dir(f) = Dir(g), Name(f) < Name(g),
                 g \in rfiles \/ rsize'[g] > 0
          PROVE  rbase[f] + rsize'[f] <= rbase[g]
      <4>1. g \in rfiles \/ rsize[g] > 0
        BY <2>1, <2>2, <3>4
      <4>2. f # a
        BY <2>4, <3>4, <4>1 DEF Known
      <4>3. rbase[f] + rsize[f] <= rbase[g]
        BY <3>4, <4>1 DEF RemoteInv
      <4> QED
        BY <2>2, <4>2, <4>3
    <3>5. ASSUME NEW f \in rfiles, IsNewest(f, rfiles)
          PROVE  rbase[f] + rsize'[f] = logged'[Dir(f)]
      <4>1. rbase[f] + rsize[f] = logged[Dir(f)] /\ f \in Files /\ Dir(f) \in Dirs
        BY <1>0a, <1>0b, <3>5 DEF RemoteInv
      <4>2. CASE f = a
        BY <1>0a, <2>2, <2>3, <4>1, <4>2
      <4>3. CASE Dir(f) # Dir(a)
        BY <1>0a, <2>2, <2>3, <4>1, <4>3
      <4>4. CASE Dir(f) = Dir(a) /\ f # a
        <5>1. Name(f) <= Name(a) /\ Name(a) <= Name(f)
          BY <1>0a, <2>1, <3>5, <4>4 DEF IsNewest, In
        <5>2. Name(f) = Name(a)
          BY <1>0b, <4>1, <5>1
        <5> QED
          BY <4>1, <4>4, <5>2, SameFile
      <4> QED
        BY <4>2, <4>3, <4>4
    <3>6. rfiles' = rfiles /\ rbase' = rbase /\ Known' = Known
      BY <2>1 DEF Known, cacheVars, syncerVars
    <3>7. \A h, e : HoldsEntry(h, e)' <=> rbase[h] < e /\ e <= rbase[h] + rsize'[h]
      BY <3>6 DEF HoldsEntry
    <3> QED
      BY <3>1, <3>2, <3>3, <3>4, <3>5, <3>6, <3>7 DEF RemoteInv, IsNewest, Known, In
  <2>7. FitInv'
    <3>1. Fit(localFiles, local, todo, job, bufFiles, buf)
      BY DEF FitInv
    <3>2. /\ localFiles' = localFiles /\ local' = local /\ todo' = todo /\ job' = job
          /\ bufFiles' = bufFiles /\ buf' = buf /\ phase' = phase /\ horizon' = horizon
          /\ rfiles' = rfiles /\ rbase' = rbase
      BY <2>1 DEF cacheVars, syncerVars
    <3>3. \A f, g : Older(f, g)' <=> Older(f, g)
      BY <3>2 DEF Older, In
    <3>4. ASSUME NEW f \in Files PROVE rsize[f] <= rsize'[f] /\ rsize'[f] \in Nat
      BY <2>3a
    <3>5. ASSUME NEW f \in Files PROVE Follows(f, local[f], buf[f])'
      <4>1. Follows(f, local[f], buf[f])
        BY <3>1 DEF Fit
      <4>2. Len(local[f]) + Len(buf[f]) <= rsize[f]
        BY <4>1 DEF Follows
      <4>3. Len(local[f]) + Len(buf[f]) <= rsize'[f]
        BY <1>0a, <2>3, <3>4, <4>2
      <4> QED
        BY <3>2, <4>1, <4>3 DEF Follows
    <3>6. ASSUME NEW g \in Files, g \in Known, NEW f \in Files, Older(f, g)
          PROVE  rsize'[f] = rsize[f]
      <4>1. Dir(f) = Dir(g) /\ Name(f) < Name(g)
        BY <3>6 DEF Older, In
      <4>2. f # a
        BY <2>4, <3>6, <4>1
      <4> QED
        BY <2>2, <4>2
    <3>7. \A f \in todo : job[f].remote <= rsize'[f]
      <4> TAKE f \in todo
      <4>1. job[f].remote <= rsize[f] /\ f \in Files
        BY <1>0a, <3>1 DEF Fit
      <4>2. job[f].remote \in Nat
        BY <1>0a, <4>1 DEF Job
      <4> QED
        BY <1>0a, <2>3, <3>4, <4>1, <4>2
    <3>8. ASSUME NEW g \in localFiles, NEW f \in Files, Older(f, g)
          PROVE  Whole(f, localFiles, local, {}, Empty)'
      <4>1. Whole(f, localFiles, local, {}, Empty) /\ rsize'[f] = rsize[f]
        BY <1>0a, <3>1, <3>6, <3>8 DEF Fit, Empty, Known
      <4> QED
        BY <3>2, <4>1 DEF Whole, Empty
    <3>9. ASSUME NEW g \in bufFiles, NEW f \in Files, Older(f, g)
          PROVE  Whole(f, localFiles, local, bufFiles, buf)'
      <4>1. Whole(f, localFiles, local, bufFiles, buf) /\ rsize'[f] = rsize[f]
        BY <1>0a, <3>1, <3>6, <3>9 DEF Fit, Known
      <4> QED
        BY <3>2, <4>1 DEF Whole
    <3>10. ASSUME NEW g \in todo, NEW f \in Files, Older(f, g)
           PROVE  \/ Whole(f, localFiles, local, bufFiles, buf)'
                  \/ f \in todo /\ job[f].remote = rsize'[f]
      <4>1. rsize'[f] = rsize[f]
        BY <1>0a, <3>6, <3>10 DEF Known
      <4>2. Whole(f, localFiles, local, bufFiles, buf) \/ (f \in todo /\ job[f].remote = rsize[f])
        BY <3>1, <3>10 DEF Fit
      <4> QED
        BY <3>2, <4>1, <4>2 DEF Whole
    <3>11. Fit(localFiles, local, todo, job, bufFiles, buf)'
      BY <3>1, <3>2, <3>3, <3>5, <3>7, <3>8, <3>9, <3>10 DEF Fit, Empty
    <3> QED
      BY <3>2, <3>11 DEF FitInv
  <2> QED
    BY <2>6, <2>7
<1>4. ASSUME NEW a \in Files, RemoteDrop(a) PROVE RemoteInv' /\ FitInv'
  <2>1. /\ ~IsNewest(a, rfiles)
        /\ rfiles' = rfiles \ {a}
        /\ UNCHANGED <<rbase, rsize, logged, cacheVars, syncerVars, horizon>>
    BY <1>4 DEF RemoteDrop
  <2>2. PICK m \in In(rfiles, Dir(a)) : Name(a) < Name(m)
    <3>1. PICK m \in In(rfiles, Dir(a)) : ~(Name(m) <= Name(a))
      BY <2>1 DEF IsNewest
    <3>2. Name(a) \in Nat /\ Name(m) \in Nat
      BY <1>0a, <1>0b, <3>1 DEF In
    <3> QED
      BY <3>1, <3>2
  <2>3. m \in rfiles' /\ Dir(m) = Dir(a) /\ m \in Files
    <3>1. Name(a) \in Nat
      BY <1>0b
    <3> QED
      BY <1>0a, <2>1, <2>2, <3>1 DEF In
  <2>4. RemoteInv'
    <3>1. ASSUME NEW f \in Files, f \in Known \/ rsize[f] > 0
          PROVE  \E h \in In(rfiles', Dir(f)) : Name(f) <= Name(h)
      <4>1. PICK h \in In(rfiles, Dir(f)) : Name(f) <= Name(h)
        BY <3>1 DEF RemoteInv, Known
      <4>2. CASE h = a
        <5>1. Name(f) \in Nat /\ Name(a) \in Nat /\ Name(m) \in Nat
          BY <1>0b, <2>3
        <5> QED
          BY <2>2, <2>3, <4>1, <4>2, <5>1 DEF In
      <4>3. CASE h # a
        BY <2>1, <4>1, <4>3 DEF In
      <4> QED
        BY <4>2, <4>3
    <3>2. ASSUME NEW f \in rfiles', \A g \in In(rfiles', Dir(f)) : Name(g) <= Name(f)
          PROVE  rbase[f] + rsize[f] = logged[Dir(f)]
      <4>1. f \in rfiles /\ f \in Files
        BY <1>0a, <2>1
      <4>2. ASSUME NEW g \in In(rfiles, Dir(f)) PROVE Name(g) <= Name(f)
        <5>1. CASE g # a
          BY <2>1, <3>2, <5>1 DEF In
        <5>2. CASE g = a
          <6>1. Name(m) <= Name(f)
            BY <2>3, <3>2, <4>2, <5>2 DEF In
          <6>2. Name(f) \in Nat /\ Name(a) \in Nat /\ Name(m) \in Nat
            BY <1>0b, <2>3, <4>1
          <6> QED
            BY <2>2, <5>2, <6>1, <6>2
        <5> QED
          BY <5>1, <5>2
      <4> QED
        BY <4>1, <4>2 DEF RemoteInv, IsNewest
    <3>3. Known' \subseteq Known
      BY <2>1 DEF Known, cacheVars, syncerVars
    <3>4. rbase' = rbase /\ rsize' = rsize /\ logged' = logged /\ rfiles' \subseteq rfiles
      BY <2>1
    <3>5. \A f \in Files : f \in Known' \/ rsize[f] > 0 =>
             \E h \in In(rfiles', Dir(f)) : Name(f) <= Name(h)
      BY <3>1, <3>3
    <3> QED
      BY <3>2, <3>4, <3>5 DEF RemoteInv, IsNewest, HoldsEntry, In, Known
  <2>5. FitInv'
    <3>1. \A f, g : Older(f, g)' => Older(f, g)
      BY <2>1 DEF Older, In
    <3>2. /\ rbase' = rbase /\ rsize' = rsize
          /\ UNCHANGED <<localFiles, local, todo, job, bufFiles, buf, phase>>
      BY <2>1 DEF cacheVars, syncerVars
    <3> QED
      BY <3>1, <3>2 DEF FitInv, Fit, Follows, Whole
  <2> QED
    BY <2>4, <2>5
<1>5. ASSUME TimePasses PROVE RemoteInv' /\ FitInv'
  <2>1. /\ UNCHANGED <<rfiles, rbase, rsize, logged>>
        /\ UNCHANGED <<localFiles, local, todo, job, bufFiles, buf, phase>>
        /\ horizon' = horizon + 1
    BY <1>5 DEF TimePasses, remoteVars, cacheVars, syncerVars
  <2>2. \A f \in Files, g \in Files : Older(f, g)' => Older(f, g)
    BY <1>0a, <1>0b, <2>1 DEF Older, In
  <2>3. FitInv'
    BY <1>0a, <2>1, <2>2 DEF FitInv, Fit, Follows, Whole
  <2>4. RemoteInv'
    BY <2>1 DEF RemoteInv, IsNewest, HoldsEntry, In
  <2> QED
    BY <2>3, <2>4
<1> QED
  BY <1>1, <1>2, <1>3, <1>4, <1>5 DEF Environment

(* The end of an lsfiles answer.                                           *)
LEMMA AnsweredFit ==
  ASSUME TypeOK, CallsInv, RemoteInv, FitInv, NEW p \in pending, NEW more,
         NEW ls, NEW td \in SUBSET Files, NEW jb \in [Files -> Job], NEW ts,
         Answered(p, more, ls, td, jb, ts), td \subseteq todo \cup rfiles,
         Fit(localFiles, local, td, jb, {}, Empty),
         UNCHANGED <<remoteVars, horizon>>
  PROVE  RemoteInv' /\ FitInv'
<1>0. bufFiles = {} /\ buf = Empty /\ phase = "listing"
  BY NothingBuffered DEF CallsInv, TypeOK
<1>1. CASE Finish({}, buf, ts)
  <2>1. buf \in [Files -> Seq(Nat)] /\ {} \in SUBSET Files /\ Fit(localFiles, local, td, jb, {}, buf)
    BY <1>0 DEF TypeOK
  <2>2. FitInv' /\ Known' \subseteq Known \cup {}
    BY <1>1, <2>1, FinishFit
  <2> QED
    BY <2>2, RemoteKept
<1>2. CASE /\ todo' = td /\ job' = jb /\ UNCHANGED <<cacheVars, bufFiles, buf, usage>>
           /\ phase' \in {"detect", phase}
  <2>1. FitInv'
    BY <1>0, <1>2, FitPrimed DEF cacheVars
  <2>2. Known' \subseteq Known
    BY <1>2 DEF Known, cacheVars, remoteVars
  <2> QED
    BY <2>1, <2>2, RemoteKept
<1> QED
  BY <1>1, <1>2 DEF Answered

(* The steps of the syncer keep the cache and the queue fitting.           *)
LEMMA SyncerFit ==
  TypeOK /\ CallsInv /\ RemoteInv /\ FitInv /\ Syncer /\ TypeOK' => RemoteInv' /\ FitInv'
<1> SUFFICES ASSUME TypeOK, CallsInv, RemoteInv, FitInv, Syncer, TypeOK'
             PROVE  RemoteInv' /\ FitInv'
  OBVIOUS
<1>0. /\ todo \in SUBSET Files /\ job \in [Files -> Job] /\ bufFiles \in SUBSET Files
      /\ buf \in [Files -> Seq(Nat)] /\ {} \in SUBSET Files
      /\ localFiles' \in SUBSET Files /\ local' \in [Files -> Seq(Nat)]
      /\ Fit(localFiles, local, todo, job, bufFiles, buf)
  BY DEF TypeOK, FitInv
<1>1. CASE StartSync
  <2>1. UNCHANGED <<remoteVars, horizon, cacheVars, todo, job, bufFiles, buf>> /\ phase' = "listing"
    BY <1>1 DEF StartSync
  <2>2. phase # "reading"
    BY <1>1 DEF StartSync
  <2>3. FitInv'
    BY <2>1, <2>2, FitPrimed DEF cacheVars, FitInv
  <2>4. Known' \subseteq Known
    BY <2>1 DEF Known, cacheVars, remoteVars
  <2> QED
    BY <2>1, <2>3, <2>4, RemoteKept
<1>2. CASE ListDirs
  <2>1. /\ Answered(Root, {d \in Dirs : In(rfiles, d) # {}}, listed, todo, job, toTrim)
        /\ Root \in pending /\ UNCHANGED <<remoteVars, horizon>>
    BY <1>2 DEF ListDirs
  <2>2. Fit(localFiles, local, todo, job, {}, Empty)
    BY <1>0, <2>1, NothingBuffered DEF CallsInv
  <2> QED
    BY <1>0, <2>1, <2>2, AnsweredFit
<1>3. ASSUME NEW d \in Dirs, ListFiles(d) PROVE RemoteInv' /\ FitInv'
  <2> DEFINE jb == [f \in Files |->
                      IF f \in ToDownload(d)
                      THEN [remote |-> rsize[f], local |-> Len(local[f]), got |-> 0]
                      ELSE job[f]]
             ts == IF In(rfiles, d) = {} THEN toTrim ELSE toTrim \cup {d}
             td == todo \cup ToDownload(d)
  <2>1. d \in pending /\ Answered(d, {}, Append(listed, d), td, jb, ts)
        /\ UNCHANGED <<remoteVars, horizon>>
    BY <1>3 DEF ListFiles
  <2>2. \A f \in Files : Len(local[f]) \in Nat
    BY DEF TypeOK
  <2>3. jb \in [Files -> Job]
    BY <2>2 DEF TypeOK, Job
  <2>4. td \subseteq Files /\ td \subseteq todo \cup rfiles
    BY DEF TypeOK, ToDownload, In
  <2>5. Fit(localFiles, local, td, jb, {}, Empty)
    BY <2>1, ListFit
  <2> HIDE DEF jb, ts, td
  <2> QED
    BY <2>1, <2>3, <2>4, <2>5, AnsweredFit
<1>4. ASSUME NEW p \in Dirs \cup {Root}, ListFail(p) PROVE RemoteInv' /\ FitInv'
  <2>1. /\ Answered(p, {}, listed, todo, job, toTrim)
        /\ p \in pending /\ UNCHANGED <<remoteVars, horizon>>
    BY <1>4 DEF ListFail
  <2>2. Fit(localFiles, local, todo, job, {}, Empty)
    BY <1>0, <2>1, NothingBuffered DEF CallsInv
  <2> QED
    BY <1>0, <2>1, <2>2, AnsweredFit
<1>5. CASE DetectOk
  <2>1. /\ phase = "detect" /\ UNCHANGED <<remoteVars, horizon>>
        /\ \/ NonEmpty(todo) = {} /\ Finish(todo, buf, toTrim)
           \/ ReadNext(todo, job, {}, buf, 0) /\ UNCHANGED cacheVars
    BY <1>5 DEF DetectOk
  <2>2. bufFiles = {} /\ buf = Empty
    BY <2>1, NothingBuffered
  <2>3. CASE NonEmpty(todo) = {} /\ Finish(todo, buf, toTrim)
    <3>1. Fit(localFiles, local, {}, [f \in Files |-> NoJob], todo, buf)
      <4>1. Fit(localFiles, local, {}, [f \in Files |-> NoJob], bufFiles \cup todo, buf)
        BY <1>0, <2>3, FitSkipAll
      <4> QED
        BY <2>2, <4>1
    <3>2. [f \in Files |-> NoJob] \in [Files -> Job]
      BY DEF NoJob, Job
    <3>3. FitInv' /\ Known' \subseteq Known \cup todo
      BY <1>0, <2>1, <2>3, <3>1, <3>2, FinishFit
    <3>4. Known' \subseteq Known
      BY <3>3 DEF Known
    <3> QED
      BY <2>1, <3>3, <3>4, RemoteKept
  <2>4. CASE ReadNext(todo, job, {}, buf, 0) /\ UNCHANGED cacheVars
    <3>1. localFiles' = localFiles /\ local' = local
      BY <2>4 DEF cacheVars
    <3>2. FitInv' /\ Known' \subseteq Known \cup {} \cup localFiles'
      BY <1>0, <2>1, <2>2, <2>4, <3>1, ReadNextFit
    <3>3. Known' \subseteq Known
      BY <3>1, <3>2 DEF Known
    <3> QED
      BY <2>1, <3>2, <3>3, RemoteKept
  <2> QED
    BY <2>1, <2>3, <2>4
<1>6. CASE DetectFail
  <2>1. phase = "detect" /\ UNCHANGED <<remoteVars, horizon>> /\ Finish({}, buf, toTrim)
    BY <1>6 DEF DetectFail
  <2>2. Fit(localFiles, local, todo, job, {}, buf)
    <3>1. bufFiles = {}
      BY <2>1, NothingBuffered
    <3> QED
      BY <1>0, <3>1
  <2>3. FitInv' /\ Known' \subseteq Known \cup {}
    BY <1>0, <2>1, <2>2, FinishFit
  <2> QED
    BY <2>1, <2>3, RemoteKept
<1>7. ASSUME NEW f \in Files, ReadFail(f) PROVE RemoteInv' /\ FitInv'
  <2> DEFINE td == {g \in todo : Dir(g) # Dir(f)}
  <2>1. /\ UNCHANGED <<remoteVars, horizon>>
        /\ \/ NonEmpty(td) = {} /\ Finish(bufFiles \cup td, buf, toTrim)
           \/ ReadNext(td, job, bufFiles, buf, usage) /\ UNCHANGED cacheVars
    BY <1>7 DEF ReadFail
  <2>2. td \in SUBSET todo /\ \A g \in td, h \in todo : Dir(h) = Dir(g) => h \in td
    OBVIOUS
  <2> HIDE DEF td
  <2>3. Fit(localFiles, local, td, job, bufFiles, buf)
    <3>1. ASSUME NEW g \in td, NEW h \in Files, Older(h, g)
          PROVE  \/ Whole(h, localFiles, local, bufFiles, buf)
                 \/ h \in td /\ job[h].remote = rsize[h]
      <4>1. Dir(h) = Dir(g) /\ g \in todo
        BY <2>2, <3>1 DEF Older, In
      <4>2. \/ Whole(h, localFiles, local, bufFiles, buf)
            \/ h \in todo /\ job[h].remote = rsize[h]
        BY <1>0, <3>1, <4>1 DEF Fit
      <4> QED
        BY <2>2, <4>1, <4>2
    <3> QED
      BY <1>0, <2>2, <3>1 DEF Fit
  <2>4. CASE NonEmpty(td) = {} /\ Finish(bufFiles \cup td, buf, toTrim)
    <3>1. Fit(localFiles, local, {}, [g \in Files |-> NoJob], bufFiles \cup td, buf)
      BY <1>0, <2>2, <2>3, <2>4, FitSkipAll
    <3>2. [g \in Files |-> NoJob] \in [Files -> Job] /\ bufFiles \cup td \in SUBSET Files
      BY <1>0, <2>2 DEF NoJob, Job
    <3>3. FitInv' /\ Known' \subseteq Known \cup (bufFiles \cup td)
      BY <1>0, <2>1, <2>4, <3>1, <3>2, FinishFit
    <3>4. Known' \subseteq Known
      BY <2>2, <3>3 DEF Known
    <3> QED
      BY <2>1, <3>3, <3>4, RemoteKept
  <2>5. CASE ReadNext(td, job, bufFiles, buf, usage) /\ UNCHANGED cacheVars
    <3>1. localFiles' = localFiles /\ local' = local
      BY <2>5 DEF cacheVars
    <3>2. FitInv' /\ Known' \subseteq Known \cup bufFiles \cup localFiles'
      BY <1>0, <2>1, <2>2, <2>3, <2>5, <3>1, ReadNextFit
    <3>3. Known' \subseteq Known
      BY <3>1, <3>2 DEF Known
    <3> QED
      BY <2>1, <3>2, <3>3, RemoteKept
  <2> QED
    BY <2>1, <2>4, <2>5
<1>8. ASSUME NEW f \in Files, NEW n \in 1..ChunkSize, ReadOk(f, n) PROVE RemoteInv' /\ FitInv'
  <2> DEFINE b  == [buf EXCEPT ![f] = @ \o Chunk(f, Offset(f), n)]
             bf == bufFiles \cup {f}
             jb == [job EXCEPT ![f].got = @ + n]
             td == IF Offset(f) + n = job[f].remote THEN todo \ {f} ELSE todo
  <2>1. /\ UNCHANGED <<remoteVars, horizon>> /\ IsFront(f) /\ n \in 1..WantedSize(f)
        /\ \/ NonEmpty(td) = {} /\ Finish(bf \cup td, b, toTrim)
           \/ ReadNext(td, jb, bf, b, usage + n) /\ UNCHANGED cacheVars
           \/ /\ localFiles' = localFiles \cup bf
              /\ local' = Appended(bf, b)
              /\ ReadNext(td, jb, {}, [g \in Files |-> <<>>], 0)
           \/ DieWriting(bf, b) /\ ResetSyncer
    BY <1>8 DEF ReadOk
  <2>2. n \in Nat /\ 1 <= n /\ Offset(f) + n <= job[f].remote
    <3>1. n \in Nat \ {0} /\ Offset(f) + n <= job[f].remote
      BY <2>1, WantedFits
    <3> QED
      BY <3>1
  <2>3. /\ td \in SUBSET todo /\ todo \ {f} \subseteq td
        /\ f \notin td => Offset(f) + n = job[f].remote
    BY <2>1 DEF IsFront
  <2>4. Chunk(f, Offset(f), n) \in Seq(Nat)
    <3>1. Offset(f) \in Nat /\ rbase \in [Files -> Nat]
      BY OffsetType DEF TypeOK
    <3> QED
      BY <2>2, <3>1, ChunkSeq
  <2>5. b \in [Files -> Seq(Nat)]
    <3>1. buf[f] \o Chunk(f, Offset(f), n) \in Seq(Nat)
      BY <1>0, <2>4, ConcatProperties
    <3> QED
      BY <1>0, <3>1
  <2>6. jb \in [Files -> Job] /\ \A g \in Files : jb[g].remote = job[g].remote
    <3>1. [job[f] EXCEPT !.got = @ + n] \in Job
      <4>1. job[f] \in Job /\ job[f].got + n \in Nat
        BY <1>0, <2>2 DEF Job
      <4> QED
        BY <4>1 DEF Job
    <3> QED
      BY <1>0, <3>1 DEF Job
  <2>7. bf \in SUBSET Files /\ bf \subseteq Known /\ td \subseteq Known /\ bf \cup td \in SUBSET Files
    BY <1>0, <2>1 DEF IsFront, Known
  <2> HIDE DEF td
  <2>8. Fit(localFiles, local, td, jb, bf, b)
    BY <2>1, <2>2, <2>3, ReadFit
  <2> HIDE DEF b, bf, jb
  <2>9. CASE NonEmpty(td) = {} /\ Finish(bf \cup td, b, toTrim)
    <3>1. Fit(localFiles, local, {}, [g \in Files |-> NoJob], bf \cup td, b)
      BY <2>3, <2>5, <2>6, <2>7, <2>8, <2>9, FitSkipAll
    <3>2. [g \in Files |-> NoJob] \in [Files -> Job]
      BY DEF NoJob, Job
    <3>3. FitInv' /\ Known' \subseteq Known \cup (bf \cup td)
      BY <1>0, <2>1, <2>5, <2>7, <2>9, <3>1, <3>2, FinishFit
    <3>4. Known' \subseteq Known
      BY <2>7, <3>3
    <3> QED
      BY <2>1, <3>3, <3>4, RemoteKept
  <2>10. CASE ReadNext(td, jb, bf, b, usage + n) /\ UNCHANGED cacheVars
    <3>1. localFiles' = localFiles /\ local' = local
      BY <2>10 DEF cacheVars
    <3>2. FitInv' /\ Known' \subseteq Known \cup bf \cup localFiles'
      BY <1>0, <2>1, <2>3, <2>5, <2>6, <2>7, <2>8, <2>10, <3>1, ReadNextFit
    <3>3. Known' \subseteq Known
      BY <2>7, <3>1, <3>2 DEF Known
    <3> QED
      BY <2>1, <3>2, <3>3, RemoteKept
  <2>11. CASE /\ localFiles' = localFiles \cup bf
              /\ local' = Appended(bf, b)
              /\ ReadNext(td, jb, {}, [g \in Files |-> <<>>], 0)
    <3>1. Fit(localFiles', local', td, jb, {}, Empty)
      BY <1>0, <2>3, <2>5, <2>6, <2>7, <2>8, <2>11, FitFlush
    <3>2. ReadNext(td, jb, {}, Empty, 0) /\ Empty \in [Files -> Seq(Nat)]
      BY <2>11 DEF Empty
    <3>3. FitInv' /\ Known' \subseteq Known \cup {} \cup localFiles'
      BY <1>0, <2>1, <2>3, <2>6, <3>1, <3>2, ReadNextFit
    <3>4. Known' \subseteq Known
      BY <2>7, <2>11, <3>3 DEF Known
    <3> QED
      BY <2>1, <3>3, <3>4, RemoteKept
  <2>12. CASE DieWriting(bf, b) /\ ResetSyncer
    <3>1. FitInv' /\ Known' \subseteq Known \cup bf
      BY <2>1, <2>5, <2>7, <2>8, <2>12, DieFit
    <3>2. Known' \subseteq Known
      BY <2>7, <3>1
    <3> QED
      BY <2>1, <3>1, <3>2, RemoteKept
  <2> QED
    BY <2>1, <2>9, <2>10, <2>11, <2>12
<1>9. CASE Abort
  <2>1. /\ UNCHANGED <<remoteVars, cacheVars, horizon>> /\ todo' = {} /\ bufFiles' = {}
        /\ buf' = Empty /\ phase' = "idle" /\ localFiles' = localFiles /\ local' = local
    BY <1>9 DEF Abort, ResetSyncer, cacheVars, Empty
  <2>2. Fit(localFiles, local, {}, job', {}, Empty)
    BY <1>0, FitForget DEF TypeOK
  <2>3. FitInv'
    BY <2>1, <2>2, FitPrimed
  <2>4. Known' \subseteq Known
    BY <2>1 DEF Known, remoteVars
  <2> QED
    BY <2>1, <2>3, <2>4, RemoteKept
<1> QED
  BY <1>1, <1>2, <1>3, <1>4, <1>5, <1>6, <1>7, <1>8, <1>9 DEF Syncer

(* The inductive invariant.                                                *)
LEMMA Inductive == Spec => []IInv
<1>1. Init => IInv
  <2> SUFFICES ASSUME Init PROVE IInv
    OBVIOUS
  <2>1. TypeOK /\ CallsInv
    BY InitType
  <2>2. RemoteInv
    BY DEF Init, RemoteInv, In, Files, Dir, IsNewest, HoldsEntry
  <2>3. FitInv
    <3>1. Len(<<>>) = 0
      OBVIOUS
    <3> QED
      BY <3>1 DEF Init, FitInv, Fit, Follows
  <2> QED
    BY <2>1, <2>2, <2>3 DEF IInv
<1>2. IInv /\ [Next]_vars => IInv'
  <2>1. IInv /\ UNCHANGED vars => IInv'
    BY DEF vars, remoteVars, cacheVars, syncerVars, IInv, TypeOK, CallsInv, RemoteInv, FitInv,
           Fit, Follows, Whole, Older, In, IsNewest, HoldsEntry
  <2>2. IInv /\ Environment => IInv'
    BY EnvironmentType, EnvironmentFit DEF IInv
  <2>3. IInv /\ Syncer => IInv'
    BY SyncerType, SyncerFit DEF IInv
  <2> QED
    BY <2>1, <2>2, <2>3 DEF Next
<1> QED
  BY <1>1, <1>2, PTL DEF Spec

(* Every cached file is a prefix of the remote one: no chunk is repeated,  *)
(* skipped or put into another file.                                       *)
THEOREM PrefixKept == Spec => []PrefixOfRemote
<1>1. IInv => PrefixOfRemote
  <2> SUFFICES ASSUME IInv, NEW f \in Files
               PROVE  /\ Len(local[f]) <= rsize[f]
                      /\ \A i \in 1..Len(local[f]) : local[f][i] = rbase[f] + i
    BY DEF PrefixOfRemote
  <2>1. Follows(f, local[f], buf[f])
    BY DEF IInv, FitInv, Fit
  <2>2. /\ local \in [Files -> Seq(Nat)] /\ buf \in [Files -> Seq(Nat)]
        /\ rsize \in [Files -> Nat]
    BY DEF IInv, TypeOK
  <2>3. Len(local[f]) \in Nat /\ Len(buf[f]) \in Nat /\ rsize[f] \in Nat
    BY <2>2
  <2> QED
    BY <2>1, <2>2, <2>3 DEF Follows
<1> QED
  BY <1>1, Inductive, PTL

(* Nothing the remote still has is missing below the newest cached file of *)
(* a site, even when the process is killed while it writes.                *)
THEOREM HoleFree == Spec => []NoHole
<1>1. IInv => NoHole
  <2> SUFFICES ASSUME IInv, NEW g \in localFiles, NEW f \in In(rfiles, Dir(g)),
                      horizon <= Name(f), Name(f) < Name(g)
               PROVE  f \in localFiles /\ Len(local[f]) = rsize[f]
    BY DEF NoHole
  <2>1. f \in Files /\ g \in Files
    BY DEF IInv, TypeOK, In
  <2>2. Older(f, g)
    BY DEF Older
  <2>3. Whole(f, localFiles, local, {}, Empty)
    BY <2>1, <2>2 DEF IInv, FitInv, Fit, Empty
  <2>4. Len(Empty[f]) = 0 /\ local \in [Files -> Seq(Nat)]
    BY <2>1 DEF IInv, TypeOK, Empty
  <2>5. Len(local[f]) \in Nat
    BY <2>1, <2>4
  <2> QED
    BY <2>1, <2>3, <2>4, <2>5 DEF Whole
<1> QED
  BY <1>1, Inductive, PTL

(* An entry of a file that is whole in the cache.                          *)
LEMMA WholeHolds ==
  ASSUME IInv, NEW d \in Dirs, NEW h \in In(Files, d), NEW e \in Nat, HoldsEntry(h, e),
         h \in localFiles, e <= rbase[h] + Len(local[h])
  PROVE  InCache(d, e)
<1>1. /\ h \in Files /\ Dir(h) = d /\ local \in [Files -> Seq(Nat)]
      /\ rbase \in [Files -> Nat]
  BY DEF In, IInv, TypeOK
<1>2. Follows(h, local[h], buf[h])
  BY <1>1 DEF IInv, FitInv, Fit
<1>3. rbase[h] \in Nat /\ Len(local[h]) \in Nat /\ local[h] \in Seq(Nat)
  BY <1>1
<1>4. e - rbase[h] \in 1..Len(local[h])
  BY <1>1, <1>3 DEF HoldsEntry
<1>5. local[h][e - rbase[h]] = rbase[h] + (e - rbase[h])
  BY <1>2, <1>4 DEF Follows
<1>6. rbase[h] + (e - rbase[h]) = e
  BY <1>1, <1>3
<1>7. e - rbase[h] \in DOMAIN local[h]
  BY <1>3, <1>4
<1> QED
  BY <1>1, <1>5, <1>6, <1>7 DEF InCache, In

(* A logged entry is expired, or cached, or its remote file is still there *)
(* and not older than any cached one.                                      *)
LEMMA Covered ==
  ASSUME IInv, NEW d \in Dirs, NEW e \in 1..logged[d]
  PROVE  \/ InCache(d, e) \/ Expired(d, e)
         \/ \E h \in In(rfiles, d) :
              HoldsEntry(h, e) /\ \A g \in In(localFiles, d) : Name(g) <= Name(h)
<1>1. PICK h \in In(Files, d) : HoldsEntry(h, e)
  BY DEF IInv, RemoteInv
<1>2. h \in Files /\ Dir(h) = d /\ e \in Nat
  BY <1>1 DEF In, IInv, TypeOK
<1>3. CASE h \notin rfiles \/ Name(h) < horizon
  BY <1>1, <1>3 DEF Expired
<1>4. CASE /\ h \in rfiles /\ horizon <= Name(h)
           /\ \E g \in In(localFiles, d) : Name(h) < Name(g)
  <2>1. PICK g \in In(localFiles, d) : Name(h) < Name(g)
    BY <1>4
  <2>2. Older(h, g) /\ g \in localFiles
    BY <1>2, <1>4, <2>1 DEF Older, In
  <2>3. Whole(h, localFiles, local, {}, Empty)
    BY <1>2, <2>2 DEF IInv, FitInv, Fit, Empty
  <2>4. /\ Len(Empty[h]) = 0 /\ local \in [Files -> Seq(Nat)] /\ rsize \in [Files -> Nat]
        /\ rbase \in [Files -> Nat]
    BY <1>2 DEF IInv, TypeOK, Empty
  <2>5. h \in localFiles /\ Len(local[h]) = rsize[h]
    <3>1. Len(local[h]) \in Nat
      BY <1>2, <2>4
    <3> QED
      BY <1>2, <2>3, <2>4, <3>1 DEF Whole
  <2>6. e <= rbase[h] + Len(local[h])
    BY <1>1, <2>5 DEF HoldsEntry
  <2> QED
    BY <1>1, <1>2, <2>5, <2>6, WholeHolds
<1>5. CASE /\ h \in rfiles
           /\ \A g \in In(localFiles, d) : Name(g) <= Name(h)
  BY <1>1, <1>2, <1>5 DEF In
<1>6. /\ Name(h) \in Nat /\ horizon \in Nat
      /\ \A g \in In(localFiles, d) : Name(g) \in Nat
  BY <1>2, NamesAreNat DEF IInv, TypeOK, In
<1> QED
  BY <1>3, <1>4, <1>5, <1>6

(* Whatever is killed when, an entry missing from the dirty log and the    *)
(* cache is fetched by a later sync.                                       *)
THEOREM AlwaysRecoverable == Spec => []Recoverable
<1>1. IInv => Recoverable
  <2> SUFFICES ASSUME IInv, NEW d \in Dirs, NEW e \in recorded[d]
               PROVE  \/ InCache(d, e) \/ Expired(d, e) \/ e > logged[d]
                      \/ \E f \in In(rfiles, d) :
                           HoldsEntry(f, e) /\ \A g \in In(localFiles, d) : Name(g) <= Name(f)
    BY DEF Recoverable
  <2>1. e \in 1..MaxEvents /\ logged[d] \in 0..MaxEvents
    BY DEF IInv, TypeOK, Events
  <2>2. e \in 1..logged[d] \/ e > logged[d]
    BY <2>1, ConstantsAssumption
  <2> QED
    BY <2>2, Covered
<1> QED
  BY <1>1, Inductive, PTL

(* What trimDirtyLog drops is in the cache, or expired.                    *)
DropsOnlyCovered ==
  \A d \in Dirs : \A g \in In(localFiles, d) : \A e \in Events :
    /\ IsNewest(g, localFiles)
    /\ local[g] # <<>>
    /\ ~(Stamp[e] >= Stamp[Last(local[g])])
    => InCache(d, e) \/ Expired(d, e)

(* What trimDirtyLog drops is covered in every reachable state.            *)
LEMMA Drops == IInv => DropsOnlyCovered
<1> SUFFICES ASSUME IInv, NEW d \in Dirs, NEW g \in In(localFiles, d), NEW e \in Events,
                    IsNewest(g, localFiles), local[g] # <<>>,
                    ~(Stamp[e] >= Stamp[Last(local[g])])
             PROVE  InCache(d, e) \/ Expired(d, e)
  BY DEF DropsOnlyCovered
<1>1. /\ g \in Files /\ g \in localFiles /\ Dir(g) = d
      /\ local \in [Files -> Seq(Nat)] /\ rbase \in [Files -> Nat] /\ rsize \in [Files -> Nat]
      /\ buf \in [Files -> Seq(Nat)] /\ logged \in [Dirs -> 0..MaxEvents]
  BY DEF IInv, TypeOK, In
<1>2. /\ MaxEvents \in Nat /\ Stamp \in [Events -> Nat]
      /\ \A e1, e2 \in Events : e1 <= e2 => Stamp[e1] <= Stamp[e2]
  BY ConstantsAssumption
<1> DEFINE k == Len(local[g])
<1>3. k \in Nat \ {0}
  BY <1>1, EmptySeq
<1>4. Follows(g, local[g], buf[g])
  BY <1>1 DEF IInv, FitInv, Fit
<1>5. Last(local[g]) = rbase[g] + k
  BY <1>3, <1>4 DEF Follows, Last
<1>6. k <= rsize[g]
  <2>1. Len(buf[g]) \in Nat /\ rsize[g] \in Nat
    BY <1>1
  <2> QED
    BY <1>1, <1>3, <1>4, <2>1 DEF Follows
<1>7. rbase[g] + rsize[g] <= logged[d]
  BY <1>1 DEF IInv, RemoteInv
<1>8. /\ rbase[g] \in Nat /\ rsize[g] \in Nat /\ logged[d] \in 0..MaxEvents
      /\ e \in 1..MaxEvents
  BY <1>1 DEF Events
<1> HIDE DEF k
<1>9. rbase[g] + k \in Events /\ rbase[g] + k <= logged[d]
  BY <1>1, <1>2, <1>3, <1>6, <1>7, <1>8 DEF Events
<1>10. e < rbase[g] + k
  <2>1. Stamp[e] \in Nat /\ Stamp[rbase[g] + k] \in Nat
    BY <1>2, <1>9
  <2>2. ~(Stamp[rbase[g] + k] <= Stamp[e])
    BY <1>5, <2>1
  <2>3. ~(rbase[g] + k <= e)
    BY <1>2, <1>9, <2>2
  <2> QED
    BY <1>3, <1>8, <1>9, <2>3 DEF Events
<1>11. e \in 1..logged[d]
  BY <1>8, <1>9, <1>10 DEF Events
<1>12. CASE \E h \in In(rfiles, d) :
              HoldsEntry(h, e) /\ \A f \in In(localFiles, d) : Name(f) <= Name(h)
  <2>1. PICK h \in In(rfiles, d) : HoldsEntry(h, e) /\ Name(g) <= Name(h)
    BY <1>12
  <2>2. h \in rfiles /\ h \in Files /\ Dir(h) = d
    BY <2>1 DEF In, IInv, TypeOK
  <2>3. CASE h = g
    <3>1. e <= rbase[h] + Len(local[h]) /\ e \in Nat
      BY <1>3, <1>8, <1>10, <2>3 DEF k
    <3>2. h \in In(Files, d)
      BY <2>2 DEF In
    <3> QED
      BY <1>1, <2>1, <2>3, <3>1, <3>2, WholeHolds
  <2>4. CASE Name(g) < Name(h)
    <3>1. rbase[g] + rsize[g] <= rbase[h]
      BY <1>1, <2>2, <2>4 DEF IInv, RemoteInv
    <3>2. rbase[h] < e /\ rbase[h] \in Nat
      BY <1>1, <2>1, <2>2 DEF HoldsEntry
    <3> QED
      BY <1>1, <1>3, <1>6, <1>8, <1>10, <3>1, <3>2
  <2>5. Name(g) \in Nat /\ Name(h) \in Nat
    BY <1>1, <2>2, NamesAreNat
  <2> QED
    BY <1>1, <2>1, <2>2, <2>3, <2>4, <2>5, SameFile
<1> QED
  BY <1>11, <1>12, Covered

(* The buffer a chunk was appended to.                                     *)
LEMMA ChunkBuffered ==
  ASSUME TypeOK, NEW f \in Files, NEW n \in Nat
  PROVE  [buf EXCEPT ![f] = @ \o Chunk(f, Offset(f), n)] \in [Files -> Seq(Nat)]
<1>1. Offset(f) \in Nat /\ rbase \in [Files -> Nat] /\ buf \in [Files -> Seq(Nat)]
  BY OffsetType DEF TypeOK
<1>2. Chunk(f, Offset(f), n) \in Seq(Nat)
  BY <1>1, ChunkSeq
<1>3. buf[f] \o Chunk(f, Offset(f), n) \in Seq(Nat)
  BY <1>1, <1>2, ConcatProperties
<1> QED
  BY <1>1, <1>3

(* What a step of the syncer does to the cache when the process is not     *)
(* killed in it.                                                           *)
Grown ==
  /\ localFiles \subseteq localFiles'
  /\ \A f \in Files : Len(local[f]) <= Len(local'[f])
  /\ \A d \in Dirs : dirty'[d] = dirty[d] \/ dirty'[d] = Trimmed(d, localFiles', local')
  /\ UNCHANGED <<remoteVars, horizon, recorded>>

(* Writing the buffers shortens no file.                                   *)
LEMMA AppendedGrows ==
  ASSUME TypeOK, NEW bf, NEW b \in [Files -> Seq(Nat)], NEW f \in Files
  PROVE  Len(local[f]) <= Len(Appended(bf, b)[f])
<1>1. local \in [Files -> Seq(Nat)] /\ local[f] \in Seq(Nat) /\ b[f] \in Seq(Nat)
  BY DEF TypeOK
<1>2. Len(local[f] \o b[f]) = Len(local[f]) + Len(b[f])
  BY <1>1, ConcatProperties
<1>3. Len(local[f]) \in Nat /\ Len(b[f]) \in Nat
  BY <1>1
<1>4. Len(local[f]) <= Len(local[f] \o b[f]) /\ Len(local[f]) <= Len(local[f])
  BY <1>1, <1>2, <1>3
<1> QED
  BY <1>4 DEF Appended

(* Every step of the syncer grows the cache and trims at most.             *)
LEMMA SyncerGrows == TypeOK /\ ~Crashes /\ Syncer => Grown
<1> SUFFICES ASSUME TypeOK, ~Crashes, Syncer PROVE Grown
  OBVIOUS
<1>0. buf \in [Files -> Seq(Nat)]
  BY DEF TypeOK
<1>1. ASSUME UNCHANGED <<remoteVars, horizon, recorded, cacheVars>> PROVE Grown
  <2>1. localFiles' = localFiles /\ local' = local /\ dirty' = dirty
    BY <1>1 DEF cacheVars
  <2>2. \A f \in Files : Len(local[f]) \in Nat
    BY DEF TypeOK
  <2>3. \A f \in Files : Len(local[f]) <= Len(local[f])
    BY <2>2, SMT
  <2> QED
    BY <1>1, <2>1, <2>3 DEF Grown
<1>2. ASSUME NEW bf, NEW b \in [Files -> Seq(Nat)],
             localFiles' = localFiles \cup bf, local' = Appended(bf, b),
             \A d \in Dirs : dirty'[d] = dirty[d] \/ dirty'[d] = Trimmed(d, localFiles', local'),
             UNCHANGED <<remoteVars, horizon, recorded>>
      PROVE  Grown
  BY <1>2, AppendedGrows DEF Grown
<1>3. ASSUME NEW bf, NEW b \in [Files -> Seq(Nat)], NEW ts, Finish(bf, b, ts),
             UNCHANGED <<remoteVars, horizon, recorded>>
      PROVE  Grown
  <2>1. /\ localFiles' = localFiles \cup bf
        /\ local' = Appended(bf, b)
        /\ dirty' = [d \in Dirs |-> IF d \in ts THEN Trimmed(d, localFiles', local')
                                   ELSE dirty[d]]
    BY <1>3 DEF Finish, DieWriting
  <2>2. \A d \in Dirs : dirty'[d] = dirty[d] \/ dirty'[d] = Trimmed(d, localFiles', local')
    BY <2>1
  <2> QED
    BY <1>2, <1>3, <2>1, <2>2
<1>4. ASSUME NEW p, NEW more, NEW ls, NEW td, NEW jb, NEW ts,
             Answered(p, more, ls, td, jb, ts),
             UNCHANGED <<remoteVars, horizon, recorded>>
      PROVE  Grown
  <2>1. Finish({}, buf, ts) \/ UNCHANGED cacheVars
    BY <1>4 DEF Answered
  <2> QED
    BY <1>0, <1>1, <1>3, <1>4, <2>1
<1>5. CASE StartSync
  BY <1>1, <1>5 DEF StartSync
<1>6. CASE ListDirs
  BY <1>4, <1>6 DEF ListDirs
<1>7. ASSUME NEW d \in Dirs, ListFiles(d) PROVE Grown
  BY <1>4, <1>7 DEF ListFiles
<1>8. ASSUME NEW p \in Dirs \cup {Root}, ListFail(p) PROVE Grown
  BY <1>4, <1>8 DEF ListFail
<1>9. CASE DetectOk
  BY <1>0, <1>1, <1>3, <1>9 DEF DetectOk
<1>10. CASE DetectFail
  BY <1>0, <1>3, <1>10 DEF DetectFail
<1>11. ASSUME NEW f \in Files, ReadFail(f) PROVE Grown
  BY <1>0, <1>1, <1>3, <1>11 DEF ReadFail
<1>12. ASSUME NEW f \in Files, NEW n \in 1..ChunkSize, ReadOk(f, n) PROVE Grown
  <2> DEFINE b == [buf EXCEPT ![f] = @ \o Chunk(f, Offset(f), n)]
  <2>1. b \in [Files -> Seq(Nat)]
    BY ConstantsAssumption, ChunkBuffered
  <2>2. /\ UNCHANGED <<remoteVars, horizon, recorded>>
        /\ \/ \E bf : Finish(bf, b, toTrim)
           \/ UNCHANGED cacheVars
           \/ \E bf : /\ localFiles' = localFiles \cup bf
                      /\ local' = Appended(bf, b)
                      /\ dirty' = dirty
    BY <1>12 DEF ReadOk, DieWriting
  <2> HIDE DEF b
  <2> QED
    BY <1>1, <1>2, <1>3, <2>1, <2>2
<1>13. CASE Abort
  BY <1>1, <1>13 DEF Abort
<1> QED
  BY <1>5, <1>6, <1>7, <1>8, <1>9, <1>10, <1>11, <1>12, <1>13 DEF Syncer

(* An entry in the cache stays there as long as the cache grows.           *)
LEMMA CacheKept ==
  ASSUME IInv, IInv', NEW d \in Dirs, NEW e \in Events, InCache(d, e),
         localFiles \subseteq localFiles', rbase' = rbase, rsize' = rsize,
         \A f \in Files : Len(local[f]) <= Len(local'[f])
  PROVE  InCache(d, e)'
<1>1. PICK f \in In(localFiles, d) : \E i \in DOMAIN local[f] : local[f][i] = e
  BY DEF InCache
<1>2. f \in Files /\ f \in In(localFiles', d) /\ f \in localFiles
  BY <1>1 DEF In, IInv, TypeOK
<1>3. PICK i \in DOMAIN local[f] : local[f][i] = e
  BY <1>1
<1>4. local[f] \in Seq(Nat) /\ local'[f] \in Seq(Nat)
  BY <1>2 DEF IInv, TypeOK
<1>5. i \in 1..Len(local[f]) /\ i \in 1..Len(local'[f]) /\ DOMAIN local'[f] = 1..Len(local'[f])
  <2>1. Len(local[f]) <= Len(local'[f])
    BY <1>2
  <2>2. /\ DOMAIN local[f] = 1..Len(local[f]) /\ DOMAIN local'[f] = 1..Len(local'[f])
        /\ Len(local[f]) \in Nat /\ Len(local'[f]) \in Nat
    BY <1>4
  <2>3. i \in 1..Len(local[f])
    BY <1>3, <2>2
  <2>4. i \in Nat /\ 1 <= i /\ i <= Len(local[f])
    BY <2>2, <2>3
  <2>5. i <= Len(local'[f])
    BY <2>1, <2>2, <2>4
  <2> QED
    BY <2>2, <2>3, <2>4, <2>5
<1>6. Follows(f, local[f], buf[f]) /\ Follows(f, local[f], buf[f])'
  BY <1>2 DEF IInv, FitInv, Fit
<1>7. local[f][i] = rbase[f] + i /\ local'[f][i] = rbase[f] + i
  BY <1>5, <1>6 DEF Follows
<1> QED
  BY <1>2, <1>3, <1>5, <1>7 DEF InCache

(* The environment loses no recorded entry.                                *)
LEMMA EnvironmentLoss ==
  ASSUME IInv, IInv', NoLoss, Environment
  PROVE  NoLoss'
<1>1. /\ rbase \in [Files -> Nat] /\ rsize \in [Files -> Nat]
      /\ horizon \in Nat /\ \A d \in Dirs : recorded[d] \subseteq Events
      /\ dirty \in [Dirs -> SUBSET Events] /\ recorded \in [Dirs -> SUBSET Events]
      /\ MaxEvents \in Nat
  BY ConstantsAssumption DEF IInv, TypeOK
<1>2. ASSUME NEW d \in Dirs, NEW e \in Events, Record(d, e) PROVE NoLoss'
  <2>1. /\ recorded'[d] = recorded[d] \cup {e} /\ dirty'[d] = dirty[d] \cup {e}
        /\ \A c \in Dirs : c # d => recorded'[c] = recorded[c] /\ dirty'[c] = dirty[c]
        /\ UNCHANGED <<rfiles, rbase, rsize, localFiles, local, horizon>>
    BY <1>1, <1>2 DEF Record, remoteVars
  <2>2. \A c, x : (InCache(c, x)' <=> InCache(c, x)) /\ (Expired(c, x)' <=> Expired(c, x))
    BY <2>1 DEF InCache, Expired, HoldsEntry, In
  <2> QED
    BY <2>1, <2>2 DEF NoLoss
<1>3. ASSUME UNCHANGED <<localFiles, local, dirty, recorded>>,
             \A d \in Dirs, e \in Events : Expired(d, e) => Expired(d, e)'
      PROVE  NoLoss'
  <2>1. \A d, e : InCache(d, e)' <=> InCache(d, e)
    BY <1>3 DEF InCache, In
  <2> QED
    BY <1>1, <1>3, <2>1 DEF NoLoss
<1>4. ASSUME NEW d \in Dirs, RemoteOpen(d) PROVE NoLoss'
  <2> DEFINE n == <<d, Stamp[logged[d] + 1]>>
  <2>1. /\ n \in Files /\ Dir(n) = d
        /\ \A g \in In(rfiles, d) : Name(g) < Name(n)
        /\ rfiles' = rfiles \cup {n}
        /\ rbase' = [rbase EXCEPT ![n] = logged[d]]
        /\ rsize' = [rsize EXCEPT ![n] = 0]
        /\ UNCHANGED <<localFiles, local, dirty, recorded, horizon>>
    BY <1>4 DEF RemoteOpen, Files, Dir, Name, cacheVars
  <2> HIDE DEF n
  <2>2. rsize[n] = 0
    <3>1. rsize[n] \in Nat
      BY <1>1, <2>1
    <3>2. CASE rsize[n] > 0
      <4>1. PICK h \in In(rfiles, d) : Name(n) <= Name(h)
        BY <2>1, <3>2 DEF IInv, RemoteInv
      <4>2. Name(n) \in Nat /\ Name(h) \in Nat
        BY <2>1, <4>1, NamesAreNat DEF IInv, TypeOK, In
      <4> QED
        BY <2>1, <4>1, <4>2
    <3> QED
      BY <3>1, <3>2
  <2>3. ASSUME NEW c \in Dirs, NEW e \in Events, Expired(c, e) PROVE Expired(c, e)'
    <3>1. PICK f \in In(Files, c) : HoldsEntry(f, e) /\ (f \notin rfiles \/ Name(f) < horizon)
      BY <2>3 DEF Expired
    <3>2. f \in Files /\ rbase[f] < e /\ e <= rbase[f] + rsize[f]
      BY <3>1 DEF In, HoldsEntry
    <3>3. f # n
      <4>1. rbase[n] \in Nat /\ e \in Int
        BY <1>1, <2>1 DEF Events
      <4> QED
        BY <2>2, <3>2, <4>1
    <3>4. rbase'[f] = rbase[f] /\ rsize'[f] = rsize[f]
      BY <1>1, <2>1, <3>2, <3>3
    <3>5. HoldsEntry(f, e)'
      BY <3>2, <3>4 DEF HoldsEntry
    <3> QED
      BY <2>1, <3>1, <3>3, <3>5 DEF Expired, In
  <2> QED
    BY <1>3, <2>1, <2>3
<1>5. ASSUME NEW a \in Files, RemoteAppend(a) PROVE NoLoss'
  <2>1. /\ rsize' = [rsize EXCEPT ![a] = @ + 1] /\ rbase' = rbase /\ rfiles' = rfiles
        /\ UNCHANGED <<localFiles, local, dirty, recorded, horizon>>
    BY <1>5 DEF RemoteAppend, cacheVars
  <2>2. ASSUME NEW c \in Dirs, NEW e \in Events, Expired(c, e) PROVE Expired(c, e)'
    <3>1. PICK f \in In(Files, c) : HoldsEntry(f, e) /\ (f \notin rfiles \/ Name(f) < horizon)
      BY <2>2 DEF Expired
    <3>2. /\ f \in Files /\ rbase[f] < e /\ e <= rbase[f] + rsize[f]
          /\ rbase[f] \in Nat /\ rsize[f] \in Nat /\ e \in Int
      BY <1>1, <3>1 DEF In, HoldsEntry, Events
    <3>3. e <= rbase[f] + rsize'[f]
      <4>1. CASE f = a
        <5>1. rsize'[f] = rsize[f] + 1
          BY <1>1, <2>1, <3>2, <4>1
        <5> QED
          BY <1>1, <3>2, <5>1
      <4>2. CASE f # a
        BY <1>1, <2>1, <3>2, <4>2
      <4> QED
        BY <4>1, <4>2
    <3>4. HoldsEntry(f, e)'
      BY <2>1, <3>2, <3>3 DEF HoldsEntry
    <3> QED
      BY <2>1, <3>1, <3>4 DEF Expired, In
  <2> QED
    BY <1>3, <2>1, <2>2
<1>6. ASSUME NEW a \in Files, RemoteDrop(a) PROVE NoLoss'
  <2>1. /\ rfiles' = rfiles \ {a} /\ rbase' = rbase /\ rsize' = rsize
        /\ UNCHANGED <<localFiles, local, dirty, recorded, horizon>>
    BY <1>6 DEF RemoteDrop, cacheVars
  <2>2. \A d \in Dirs, e \in Events : Expired(d, e) => Expired(d, e)'
    BY <2>1 DEF Expired, HoldsEntry, In
  <2> QED
    BY <1>3, <2>1, <2>2
<1>7. CASE TimePasses
  <2>1. /\ UNCHANGED <<rfiles, rbase, rsize, localFiles, local, dirty, recorded>>
        /\ horizon' = horizon + 1
    BY <1>7 DEF TimePasses, remoteVars, cacheVars
  <2>2. ASSUME NEW f \in Files, Name(f) < horizon PROVE Name(f) < horizon'
    <3>1. Name(f) \in Nat
      BY NamesAreNat
    <3> QED
      BY <1>1, <2>1, <2>2, <3>1
  <2>3. \A d \in Dirs, e \in Events : Expired(d, e) => Expired(d, e)'
    BY <2>1, <2>2 DEF Expired, HoldsEntry, In
  <2> QED
    BY <1>3, <2>1, <2>3
<1> QED
  BY <1>2, <1>4, <1>5, <1>6, <1>7 DEF Environment

(* Neither does a step that grows the cache and trims what is covered.     *)
LEMMA SyncerLoss ==
  ASSUME IInv, IInv', NoLoss, Grown, DropsOnlyCovered'
  PROVE  NoLoss'
<1> SUFFICES ASSUME NEW d \in Dirs, NEW e \in recorded[d]
             PROVE  e \in dirty'[d] \/ InCache(d, e)' \/ Expired(d, e)'
  BY DEF NoLoss, Grown
<1>1. e \in Events
  BY DEF IInv, TypeOK
<1>2. rfiles' = rfiles /\ rbase' = rbase /\ rsize' = rsize /\ horizon' = horizon
  BY DEF Grown, remoteVars
<1>3. Expired(d, e)' <=> Expired(d, e)
  BY <1>2 DEF Expired, HoldsEntry, In
<1>4. InCache(d, e) => InCache(d, e)'
  BY <1>1, <1>2, CacheKept DEF Grown
<1>5. CASE e \in dirty[d] /\ e \notin dirty'[d]
  <2>1. e \notin Trimmed(d, localFiles', local')
    BY <1>5 DEF Grown
  <2>2. \E g \in In(localFiles', d) : /\ IsNewest(g, localFiles') /\ local'[g] # <<>>
                                      /\ ~(Stamp[e] >= Stamp[Last(local'[g])])
    BY <1>5, <2>1 DEF Trimmed
  <2> QED
    BY <1>1, <2>2 DEF DropsOnlyCovered
<1> QED
  BY <1>3, <1>4, <1>5 DEF NoLoss

(* As long as no handler is cut short, trimming the dirty log loses no     *)
(* entry: each is in the dirty log, in the cache, or expired.              *)
THEOREM Lossless == ~Crashes => (Spec => []NoLoss)
<1> SUFFICES ASSUME ~Crashes PROVE Spec => []NoLoss
  OBVIOUS
<1>1. Init => NoLoss
  BY DEF Init, NoLoss
<1>2. IInv /\ IInv' /\ DropsOnlyCovered' /\ NoLoss /\ [Next]_vars => NoLoss'
  <2>1. IInv /\ IInv' /\ NoLoss /\ Environment => NoLoss'
    BY EnvironmentLoss
  <2>2. IInv /\ IInv' /\ DropsOnlyCovered' /\ NoLoss /\ Syncer => NoLoss'
    BY SyncerGrows, SyncerLoss DEF IInv
  <2>3. NoLoss /\ UNCHANGED vars => NoLoss'
    BY DEF vars, remoteVars, cacheVars, NoLoss, InCache, Expired, HoldsEntry, In
  <2> QED
    BY <2>1, <2>2, <2>3 DEF Next
<1>3. IInv => DropsOnlyCovered
  BY Drops
<1> QED
  BY <1>1, <1>2, <1>3, Inductive, PTL DEF Spec

-----------------------------------------------------------------------------
(* FileSync implements Replica: the cache is a replica of the remote       *)
(* journal, also when the process is killed while it writes.               *)

(* The files of the source as sequences.                                   *)
LEMMA SourceSeq ==
  ASSUME TypeOK, NEW f \in Files
  PROVE  /\ Len(Source[f]) = rsize[f] /\ rsize[f] \in Nat
         /\ \A i \in 1..rsize[f] : Source[f][i] = rbase[f] + i
<1>1. rbase \in [Files -> Nat] /\ rsize[f] \in Nat /\ rbase[f] \in Nat
  BY DEF TypeOK
<1>2. Source[f] = [i \in 1..rsize[f] |-> rbase[f] + 0 + i]
  BY DEF Source, Chunk
<1>3. \A i \in 1..rsize[f] : rbase[f] + 0 + i \in Nat /\ rbase[f] + 0 + i = rbase[f] + i
  BY <1>1
<1>4. Source[f] \in [1..rsize[f] -> Nat]
  BY <1>2, <1>3
<1> QED
  BY <1>1, <1>2, <1>3, <1>4

(* The same one step later.                                                *)
LEMMA SourceSeqNext ==
  ASSUME TypeOK', NEW f \in Files
  PROVE  /\ Len(Source'[f]) = rsize'[f] /\ rsize'[f] \in Nat
         /\ \A i \in 1..rsize'[f] : Source'[f][i] = rbase'[f] + i
<1>1. rbase' \in [Files -> Nat] /\ rsize'[f] \in Nat /\ rbase'[f] \in Nat
  BY DEF TypeOK
<1>2. Source'[f] = [i \in 1..rsize'[f] |-> rbase'[f] + 0 + i]
  BY DEF Source, Chunk
<1>3. \A i \in 1..rsize'[f] : rbase'[f] + 0 + i \in Nat /\ rbase'[f] + 0 + i = rbase'[f] + i
  BY <1>1
<1>4. Source'[f] \in [1..rsize'[f] -> Nat]
  BY <1>2, <1>3
<1> QED
  BY <1>1, <1>2, <1>3, <1>4

(* The cache keeps its files, and every file is as long as before or       *)
(* longer.                                                                 *)
Longer ==
  /\ localFiles \subseteq localFiles'
  /\ \A f \in Files : Len(local[f]) <= Len(local'[f])
  /\ UNCHANGED <<remoteVars, horizon>>

(* A process that dies while it writes leaves no file shorter.             *)
LEMMA DieLonger ==
  ASSUME TypeOK, NEW bf, NEW b \in [Files -> Seq(Nat)], DieWriting(bf, b),
         UNCHANGED <<remoteVars, horizon>>
  PROVE  Longer
<1>1. PICK c \in bf, ds \in SUBSET Dirs :
        /\ localFiles' = localFiles \cup {c} \cup Written(bf, ds, c)
        /\ \E k \in 0..Len(b[c]) : local' = AppendedUpTo(bf, b, ds, c, k)
  BY DEF DieWriting
<1>2. PICK k \in 0..Len(b[c]) : local' = AppendedUpTo(bf, b, ds, c, k)
  BY <1>1
<1>3. ASSUME NEW f \in Files PROVE Len(local[f]) <= Len(local'[f])
  <2>1. local[f] \in Seq(Nat) /\ b[f] \in Seq(Nat) /\ Len(local[f]) \in Nat /\ Len(b[f]) \in Nat
    BY DEF TypeOK
  <2>2. CASE f = c
    <3>0. k \in 0..Len(b[f]) /\ k \in Nat
      BY <2>1, <2>2
    <3>1. Len(local[f] \o SubSeq(b[f], 1, k)) = Len(local[f]) + k
      BY <2>1, <3>0, AppendPrefix
    <3>2. local'[f] = local[f] \o SubSeq(b[f], 1, k)
      BY <1>2, <2>2 DEF AppendedUpTo
    <3>3. Len(local[f]) <= Len(local[f]) + k
      BY <2>1, <3>0
    <3> QED
      BY <3>1, <3>2, <3>3
  <2>3. CASE f # c /\ f \in Written(bf, ds, c)
    <3>1. local'[f] = local[f] \o b[f]
      BY <1>2, <2>3 DEF AppendedUpTo
    <3>2. Len(local[f] \o b[f]) = Len(local[f]) + Len(b[f])
      BY <2>1, ConcatProperties
    <3> QED
      BY <2>1, <3>1, <3>2
  <2>4. CASE f # c /\ f \notin Written(bf, ds, c)
    <3>1. local'[f] = local[f]
      BY <1>2, <2>4 DEF AppendedUpTo
    <3> QED
      BY <2>1, <3>1
  <2> QED
    BY <2>2, <2>3, <2>4
<1> QED
  BY <1>1, <1>3 DEF Longer

(* Every step of the syncer lengthens the cache or leaves it.              *)
LEMMA SyncerLonger == TypeOK /\ Syncer => Longer
<1> SUFFICES ASSUME TypeOK, Syncer PROVE Longer
  OBVIOUS
<1>0. buf \in [Files -> Seq(Nat)]
  BY DEF TypeOK
<1>1. ASSUME UNCHANGED <<remoteVars, horizon, cacheVars>> PROVE Longer
  <2>1. localFiles' = localFiles /\ local' = local
    BY <1>1 DEF cacheVars
  <2>2. \A f \in Files : Len(local[f]) \in Nat
    BY DEF TypeOK
  <2>3. \A f \in Files : Len(local[f]) <= Len(local[f])
    BY <2>2, SMT
  <2> QED
    BY <1>1, <2>1, <2>3 DEF Longer
<1>2. ASSUME NEW bf, NEW b \in [Files -> Seq(Nat)],
             \/ localFiles' = localFiles \cup bf /\ local' = Appended(bf, b)
             \/ DieWriting(bf, b),
             UNCHANGED <<remoteVars, horizon>>
      PROVE  Longer
  BY <1>2, AppendedGrows, DieLonger DEF Longer
<1>3. ASSUME NEW bf, NEW b \in [Files -> Seq(Nat)], NEW ts, Finish(bf, b, ts),
             UNCHANGED <<remoteVars, horizon>>
      PROVE  Longer
  BY <1>2, <1>3 DEF Finish
<1>4. ASSUME NEW p, NEW more, NEW ls, NEW td, NEW jb, NEW ts,
             Answered(p, more, ls, td, jb, ts),
             UNCHANGED <<remoteVars, horizon>>
      PROVE  Longer
  <2>1. Finish({}, buf, ts) \/ UNCHANGED cacheVars
    BY <1>4 DEF Answered
  <2> QED
    BY <1>0, <1>1, <1>3, <1>4, <2>1
<1>5. CASE StartSync
  BY <1>1, <1>5 DEF StartSync
<1>6. CASE ListDirs
  BY <1>4, <1>6 DEF ListDirs
<1>7. ASSUME NEW d \in Dirs, ListFiles(d) PROVE Longer
  BY <1>4, <1>7 DEF ListFiles
<1>8. ASSUME NEW p \in Dirs \cup {Root}, ListFail(p) PROVE Longer
  BY <1>4, <1>8 DEF ListFail
<1>9. CASE DetectOk
  BY <1>0, <1>1, <1>3, <1>9 DEF DetectOk
<1>10. CASE DetectFail
  BY <1>0, <1>3, <1>10 DEF DetectFail
<1>11. ASSUME NEW f \in Files, ReadFail(f) PROVE Longer
  BY <1>0, <1>1, <1>3, <1>11 DEF ReadFail
<1>12. ASSUME NEW f \in Files, NEW n \in 1..ChunkSize, ReadOk(f, n) PROVE Longer
  <2> DEFINE b == [buf EXCEPT ![f] = @ \o Chunk(f, Offset(f), n)]
  <2>1. b \in [Files -> Seq(Nat)]
    BY ConstantsAssumption, ChunkBuffered
  <2>2. /\ UNCHANGED <<remoteVars, horizon>>
        /\ \/ \E bf : Finish(bf, b, toTrim)
           \/ UNCHANGED cacheVars
           \/ \E bf : \/ localFiles' = localFiles \cup bf /\ local' = Appended(bf, b)
                      \/ DieWriting(bf, b)
    BY <1>12 DEF ReadOk
  <2> HIDE DEF b
  <2> QED
    BY <1>1, <1>2, <1>3, <2>1, <2>2
<1>13. CASE Abort
  BY <1>1, <1>13 DEF Abort
<1> QED
  BY <1>5, <1>6, <1>7, <1>8, <1>9, <1>10, <1>11, <1>12, <1>13 DEF Syncer

(* What lengthens the cache is a fetch of the replica.                     *)
LEMMA SyncerFetches == IInv /\ IInv' /\ Longer => Journal!Fetch
<1> SUFFICES ASSUME IInv, IInv', Longer PROVE Journal!Fetch
  OBVIOUS
<1>1. rfiles' = rfiles /\ rbase' = rbase /\ rsize' = rsize /\ horizon' = horizon
  BY DEF Longer, remoteVars
<1>2. Source' = Source
  BY <1>1 DEF Source, Chunk
<1>3. ASSUME NEW f \in Files
      PROVE  Journal!Begins(local[f], local'[f]) /\ Journal!Begins(local'[f], Source[f])
  <2>1. /\ local[f] \in Seq(Nat) /\ local'[f] \in Seq(Nat)
        /\ Len(local[f]) \in Nat /\ Len(local'[f]) \in Nat
        /\ Len(buf[f]) \in Nat /\ Len(buf'[f]) \in Nat /\ rbase[f] \in Nat
    BY DEF IInv, TypeOK
  <2>2. Follows(f, local[f], buf[f]) /\ Follows(f, local[f], buf[f])'
    BY DEF IInv, FitInv, Fit
  <2>3. Len(local'[f]) + Len(buf'[f]) <= rsize[f] /\ Len(local[f]) <= Len(local'[f])
    BY <1>1, <2>2 DEF Follows, Longer
  <2>4. /\ \A i \in 1..Len(local[f]) : local[f][i] = rbase[f] + i
        /\ \A i \in 1..Len(local'[f]) : local'[f][i] = rbase[f] + i
    BY <1>1, <2>2 DEF Follows
  <2>5. Len(Source[f]) = rsize[f] /\ \A i \in 1..rsize[f] : Source[f][i] = rbase[f] + i
    BY SourceSeq DEF IInv
  <2>6. rsize[f] \in Nat /\ Len(local'[f]) <= rsize[f]
    <3>1. rsize[f] \in Nat
      BY SourceSeq DEF IInv
    <3>2. \A l, b, r \in Nat : l + b <= r => l <= r
      OBVIOUS
    <3>3. Len(local'[f]) \in Nat /\ Len(buf'[f]) \in Nat
      BY <2>1
    <3> QED
      BY <2>3, <3>1, <3>2, <3>3, Zenon
  <2>7. \A i \in 1..Len(local[f]) : i \in 1..Len(local'[f])
    BY <2>1, <2>3
  <2>8. \A i \in 1..Len(local'[f]) : i \in 1..rsize[f]
    BY <2>1, <2>6
  <2> QED
    BY <2>3, <2>4, <2>5, <2>6, <2>7, <2>8 DEF Journal!Begins
<1>4. ASSUME NEW g \in localFiles', NEW f \in rfiles,
             horizon <= f[2], Journal!OlderThan(f, g)
      PROVE  f \in localFiles' /\ Len(local'[f]) = Len(Source[f])
  <2>1. f \in Files /\ g \in Files
    BY DEF IInv, TypeOK
  <2>2. Older(f, g)'
    BY <1>1, <1>4, <2>1 DEF Older, In, Journal!OlderThan, Dir, Name
  <2>3. Whole(f, localFiles, local, {}, [h \in Files |-> <<>>])'
    BY <2>1, <2>2 DEF IInv, FitInv, Fit
  <2>4. f \in localFiles' /\ Len(local'[f]) + Len(<<>>) = rsize[f]
    BY <1>1, <2>1, <2>3 DEF Whole
  <2>5. Len(local'[f]) \in Nat /\ Len(<<>>) = 0
    BY <2>1 DEF IInv, TypeOK
  <2>6. Len(Source[f]) = rsize[f] /\ rsize[f] \in Nat
    BY <2>1, SourceSeq DEF IInv
  <2> QED
    BY <2>4, <2>5, <2>6
<1> QED
  BY <1>1, <1>2, <1>3, <1>4 DEF Journal!Fetch, Longer

(* Steps of the remote journal are steps of the source.                    *)
LEMMA EnvironmentWrites ==
  IInv /\ IInv' /\ Environment => Journal!Next \/ UNCHANGED Journal!vars
<1> SUFFICES ASSUME IInv, IInv', Environment PROVE Journal!Next \/ UNCHANGED Journal!vars
  OBVIOUS
<1>0. /\ rfiles \subseteq Files /\ rbase \in [Files -> Nat] /\ rsize \in [Files -> Nat]
      /\ \A f \in Files : Name(f) \in Nat
  BY NamesAreNat DEF IInv, TypeOK
<1>1. ASSUME NEW d \in Dirs, RemoteOpen(d) PROVE Journal!Next
  <2> DEFINE n == <<d, Stamp[logged[d] + 1]>>
  <2>1. n \in Files /\ Dir(n) = d
    BY <1>1 DEF RemoteOpen, Files, Dir, Name
  <2>2. /\ \A g \in In(rfiles, d) : Name(g) < Name(n)
        /\ rfiles' = rfiles \cup {n}
        /\ rbase' = [rbase EXCEPT ![n] = logged[d]]
        /\ rsize' = [rsize EXCEPT ![n] = 0]
        /\ UNCHANGED <<cacheVars, horizon>>
    BY <1>1 DEF RemoteOpen
  <2> HIDE DEF n
  <2>3. rsize[n] = 0
    <3>1. ASSUME rsize[n] > 0 PROVE FALSE
      <4>1. PICK h \in In(rfiles, Dir(n)) : Name(n) <= Name(h)
        BY <2>1, <3>1 DEF IInv, RemoteInv
      <4>2. h \in Files /\ Name(h) < Name(n)
        BY <1>0, <2>1, <2>2, <4>1 DEF In
      <4> QED
        BY <1>0, <2>1, <4>1, <4>2
    <3> QED
      BY <1>0, <2>1, <3>1
  <2>4. Source' = Source
    <3>1. ASSUME NEW f \in Files PROVE Source'[f] = Source[f]
      <4>1. CASE f = n
        <5>1. Source[f] = Chunk(f, 0, 0) /\ Source'[f] = Chunk(f, 0, 0)'
          BY <1>0, <2>1, <2>2, <2>3, <4>1 DEF Source, Chunk
        <5>2. Chunk(f, 0, 0) = <<>> /\ Chunk(f, 0, 0)' = <<>>
          BY DEF Chunk
        <5> QED
          BY <5>1, <5>2
      <4>2. CASE f # n
        BY <1>0, <2>1, <2>2, <4>2 DEF Source, Chunk
      <4> QED
        BY <4>1, <4>2
    <3>2. Source = [f \in Files |-> Source[f]] /\ Source' = [f \in Files |-> Source'[f]]
      BY DEF Source
    <3> QED
      BY <3>1, <3>2
  <2>5. \A g \in rfiles : n[1] = g[1] => Journal!OlderThan(g, n)
    BY <1>0, <2>1, <2>2 DEF In, Dir, Name, Journal!OlderThan
  <2>6. Journal!Open(n)
    BY <2>2, <2>4, <2>5 DEF Journal!Open, cacheVars
  <2> QED
    BY <2>1, <2>6 DEF Journal!Next
<1>2. ASSUME NEW f \in Files, RemoteAppend(f) PROVE Journal!Next
  <2>1. /\ f \in rfiles /\ IsNewest(f, rfiles)
        /\ rsize' = [rsize EXCEPT ![f] = @ + 1]
        /\ UNCHANGED <<rfiles, rbase, cacheVars, horizon>>
    BY <1>2 DEF RemoteAppend
  <2>2. Journal!Newest(f)
    <3>1. \A g \in rfiles : Dir(g) = Dir(f) => Name(g) <= Name(f)
      BY <2>1 DEF IsNewest, In
    <3> QED
      BY <1>0, <3>1 DEF Journal!Newest, Journal!OlderThan, Dir, Name
  <2>3. rsize'[f] = rsize[f] + 1 /\ rsize[f] \in Nat
    BY <1>0, <2>1
  <2>4. \A g \in Files : g # f => Source'[g] = Source[g]
    BY <1>0, <2>1 DEF Source, Chunk
  <2>5. /\ Len(Source[f]) = rsize[f] /\ \A i \in 1..rsize[f] : Source[f][i] = rbase[f] + i
        /\ Len(Source'[f]) = rsize'[f] /\ \A i \in 1..rsize'[f] : Source'[f][i] = rbase'[f] + i
    BY SourceSeq, SourceSeqNext DEF IInv
  <2>6. Journal!Begins(Source[f], Source'[f]) /\ Len(Source'[f]) = Len(Source[f]) + 1
    <3>1. /\ Len(Source[f]) = rsize[f] /\ Len(Source'[f]) = rsize[f] + 1
          /\ rbase'[f] = rbase[f]
      BY <2>1, <2>3, <2>5
    <3>2. ASSUME NEW i \in 1..Len(Source[f]) PROVE Source'[f][i] = Source[f][i]
      <4>1. i \in 1..rsize[f] /\ i \in 1..rsize'[f]
        BY <2>3, <3>1
      <4> QED
        BY <2>5, <3>1, <4>1
    <3>3. Len(Source[f]) <= Len(Source'[f])
      BY <2>3, <3>1
    <3> QED
      BY <2>3, <3>1, <3>2, <3>3 DEF Journal!Begins
  <2>7. Source' = [Source EXCEPT ![f] = Source'[f]]
    BY <2>4 DEF Source
  <2> QED
    BY <2>1, <2>2, <2>6, <2>7 DEF Journal!Write, Journal!Next, cacheVars
<1>3. ASSUME NEW f \in Files, RemoteDrop(f) PROVE Journal!Next
  <2>1. /\ ~IsNewest(f, rfiles) /\ rfiles' = rfiles \ {f}
        /\ UNCHANGED <<rbase, rsize, cacheVars, horizon>>
    BY <1>3 DEF RemoteDrop
  <2>2. ~Journal!Newest(f)
    <3>1. PICK g \in In(rfiles, Dir(f)) : ~(Name(g) <= Name(f))
      BY <2>1 DEF IsNewest
    <3>2. g \in rfiles /\ Dir(g) = Dir(f) /\ Name(f) < Name(g)
      BY <1>0, <3>1 DEF In
    <3> QED
      BY <3>2 DEF Journal!Newest, Journal!OlderThan, Dir, Name
  <2>3. Source' = Source
    BY <2>1 DEF Source, Chunk
  <2> QED
    BY <2>1, <2>2, <2>3 DEF Journal!Drop, Journal!Next, cacheVars
<1>4. CASE TimePasses
  <2>1. horizon' = horizon + 1 /\ UNCHANGED <<remoteVars, cacheVars>>
    BY <1>4 DEF TimePasses
  <2>2. horizon' > horizon
    BY <2>1 DEF IInv, TypeOK
  <2>3. Source' = Source
    BY <2>1 DEF Source, Chunk, remoteVars
  <2> QED
    BY <2>1, <2>2, <2>3 DEF Journal!Age, Journal!Next, remoteVars, cacheVars
<1>5. ASSUME NEW d \in Dirs, NEW e \in Events, Record(d, e) PROVE UNCHANGED Journal!vars
  <2>1. UNCHANGED <<remoteVars, localFiles, local, horizon>>
    BY <1>5 DEF Record
  <2>2. Source' = Source
    BY <2>1 DEF Source, Chunk, remoteVars
  <2> QED
    BY <2>1, <2>2 DEF Journal!vars, remoteVars
<1> QED
  BY <1>1, <1>2, <1>3, <1>4, <1>5 DEF Environment

(* The cache is a replica of the remote journal: entries are never taken   *)
(* back, and no file comes before the older ones are whole, whatever fails *)
(* and whenever the process dies.                                          *)
THEOREM CacheIsReplica == Spec => Replicates
<1>1. Init => Journal!Init
  <2> SUFFICES ASSUME Init PROVE Journal!Init
    OBVIOUS
  <2>1. \A f \in Files : Source[f] = <<>>
    <3>1. \A f \in Files : Chunk(f, 0, 0) = <<>>
      BY DEF Chunk
    <3> QED
      BY <3>1 DEF Init, Source
  <2>2. Source = [f \in Files |-> <<>>]
    BY <2>1 DEF Source
  <2> QED
    BY <2>2 DEF Init, Journal!Init
<1>2. IInv /\ IInv' /\ [Next]_vars => [Journal!Next]_(Journal!vars)
  <2>1. IInv /\ IInv' /\ Environment => [Journal!Next]_(Journal!vars)
    BY EnvironmentWrites
  <2>2. IInv /\ IInv' /\ Syncer => [Journal!Next]_(Journal!vars)
    BY SyncerLonger, SyncerFetches DEF IInv, Journal!Next
  <2>3. UNCHANGED vars => UNCHANGED Journal!vars
    BY DEF vars, remoteVars, cacheVars, Journal!vars, Source, Chunk
  <2> QED
    BY <2>1, <2>2, <2>3 DEF Next
<1> QED
  BY <1>1, <1>2, Inductive, PTL DEF Spec, Replicates, Journal!Spec
=============================================================================
