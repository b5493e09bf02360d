---------------------------- MODULE MonitorsProofs ----------------------------
(***************************************************************************)
(* Proofs about what MCMonitors composes: the views, which are the map of  *)
(* the sites (SitesMap), the values of the converter (DeviceView) and the  *)
(* switches of the PLC (PlcView); what is read from devices and simulated, *)
(* which are the times of flatline's samples (ShortTimes), bfsview's file  *)
(* (PowerStatus) and the lublicator (Lublicator); and hscope-old, its tree *)
(* of statuses (StatusTree) and its bot (Telegram).                        *)
(*                                                                         *)
(* In the views messages come one after the other while what they tell of  *)
(* goes on changing.  Their invariants say what the last message about a   *)
(* thing tells, and what is known when there is none.                      *)
(***************************************************************************)
EXTENDS MCMonitors, Induction, SequenceTheorems

-----------------------------------------------------------------------------
(* Queues.                                                                 *)

NoneIn(w, rel) == \A i \in 1 .. Len(w) : w[i] \notin rel

(* A member of src after which no member of rel comes is good.             *)
LastIn(w, src, rel, good) ==
  \A i \in 1 .. Len(w) :
    w[i] \in src /\ (\A j \in (i + 1) .. Len(w) : w[j] \notin rel) => w[i] \in good

AllIn(w, good) == \A i \in 1 .. Len(w) : w[i] \in good

(* All that comes from a member of src on is good.                         *)
FromOn(w, src, good) ==
  \A i \in 1 .. Len(w) : w[i] \in src => \A j \in i .. Len(w) : w[j] \in good

LEMMA TailFacts ==
  ASSUME NEW dom, NEW w \in Seq(dom), w # <<>>
  PROVE  /\ Len(w) \in Nat \ {0} /\ Head(w) = w[1] /\ Head(w) \in dom
         /\ Tail(w) \in Seq(dom) /\ Len(Tail(w)) = Len(w) - 1
         /\ \A i \in 1 .. Len(w) - 1 : Tail(w)[i] = w[i + 1]
<1>1. Len(w) \in Nat \ {0}
  BY LenProperties, EmptySeq
<1>2. Head(w) = w[1] /\ Tail(w) \in Seq(dom) /\ Len(Tail(w)) = Len(w) - 1
      /\ \A i \in 1 .. Len(w) - 1 : Tail(w)[i] = w[i + 1]
  BY HeadTailProperties
<1>3. w[1] \in dom
  BY <1>1, ElementOfSeq
<1> QED BY <1>1, <1>2, <1>3

LEMMA QueueTail ==
  ASSUME NEW dom, NEW w \in Seq(dom), w # <<>>, NEW src, NEW rel, NEW good
  PROVE  /\ NoneIn(w, rel) <=> Head(w) \notin rel /\ NoneIn(Tail(w), rel)
         /\ LastIn(w, src, rel, good) =>
              /\ LastIn(Tail(w), src, rel, good)
              /\ NoneIn(Tail(w), rel) /\ Head(w) \in src => Head(w) \in good
         /\ AllIn(w, good) => AllIn(Tail(w), good) /\ Head(w) \in good
         /\ FromOn(w, src, good) =>
              /\ FromOn(Tail(w), src, good)
              /\ Head(w) \in src => AllIn(w, good)
<1>1. PICK v : v = Tail(w)
  OBVIOUS
<1>2. PICK n \in Nat : n = Len(v) /\ Len(w) = n + 1
  BY <1>1, TailFacts
<1>3. Head(w) = w[1] /\ \A i \in 1 .. n : v[i] = w[i + 1]
  BY <1>1, <1>2, TailFacts
<1>4. \A i \in 1 .. n + 1 : i = 1 \/ i - 1 \in 1 .. n
  BY <1>2
<1>5. \A i \in 1 .. n : i + 1 \in 1 .. n + 1 /\ \A j \in (i + 2) .. n + 1 : j - 1 \in (i + 1) .. n /\ w[j] = v[j - 1]
  <2> TAKE i \in 1 .. n
  <2>1. i + 1 \in 1 .. n + 1
    OBVIOUS
  <2>2. ASSUME NEW j \in (i + 2) .. n + 1 PROVE j - 1 \in (i + 1) .. n /\ w[j] = v[j - 1]
    <3>1. j - 1 \in (i + 1) .. n /\ j - 1 \in 1 .. n /\ (j - 1) + 1 = j
      OBVIOUS
    <3> QED BY <1>3, <3>1
  <2> QED BY <2>1, <2>2
<1>6. NoneIn(w, rel) <=> w[1] \notin rel /\ NoneIn(v, rel)
  <2>1. ASSUME NoneIn(w, rel) PROVE w[1] \notin rel /\ NoneIn(v, rel)
    <3>1. 1 \in 1 .. n + 1
      OBVIOUS
    <3> QED BY <1>2, <1>3, <1>5, <2>1, <3>1 DEF NoneIn
  <2>2. ASSUME w[1] \notin rel, NoneIn(v, rel), NEW i \in 1 .. n + 1 PROVE w[i] \notin rel
    <3>1. CASE i - 1 \in 1 .. n
      <4>1. v[i - 1] = w[(i - 1) + 1] /\ (i - 1) + 1 = i
        BY <1>3, <3>1
      <4> QED BY <1>2, <2>2, <3>1, <4>1 DEF NoneIn
    <3> QED BY <1>4, <2>2, <3>1
  <2> QED BY <1>2, <2>1, <2>2 DEF NoneIn
<1>7. ASSUME LastIn(w, src, rel, good)
      PROVE  LastIn(v, src, rel, good) /\ (NoneIn(v, rel) /\ w[1] \in src => w[1] \in good)
  <2>1. ASSUME NEW i \in 1 .. n, v[i] \in src, \A j \in (i + 1) .. n : v[j] \notin rel PROVE v[i] \in good
    <3>1. v[i] = w[i + 1] /\ i + 1 \in 1 .. n + 1 /\ (i + 1) + 1 = i + 2
      BY <1>3, <1>5
    <3>2. \A j \in (i + 2) .. n + 1 : w[j] \notin rel
      BY <1>5, <2>1
    <3> QED BY <1>2, <1>7, <2>1, <3>1, <3>2 DEF LastIn
  <2>2. ASSUME NoneIn(v, rel), w[1] \in src PROVE w[1] \in good
    <3>1. ASSUME NEW j \in 2 .. n + 1 PROVE w[j] \notin rel
      <4>1. j - 1 \in 1 .. n /\ (j - 1) + 1 = j
        OBVIOUS
      <4> QED BY <1>2, <1>3, <2>2, <4>1 DEF NoneIn
    <3>2. 1 \in 1 .. n + 1 /\ 1 + 1 = 2
      OBVIOUS
    <3> QED BY <1>2, <1>7, <2>2, <3>1, <3>2 DEF LastIn
  <2> QED BY <1>2, <2>1, <2>2 DEF LastIn
<1>8. ASSUME AllIn(w, good) PROVE AllIn(v, good) /\ w[1] \in good
  <2>1. 1 \in 1 .. n + 1
    OBVIOUS
  <2> QED BY <1>2, <1>3, <1>5, <1>8, <2>1 DEF AllIn
<1>9. ASSUME FromOn(w, src, good)
      PROVE  FromOn(v, src, good) /\ (w[1] \in src => AllIn(w, good))
  <2>1. ASSUME NEW i \in 1 .. n, v[i] \in src, NEW j \in i .. n PROVE v[j] \in good
    <3>1. j \in 1 .. n /\ j + 1 \in (i + 1) .. n + 1 /\ i + 1 \in 1 .. n + 1
      OBVIOUS
    <3>2. v[i] = w[i + 1] /\ v[j] = w[j + 1]
      BY <1>3, <3>1
    <3> QED BY <1>2, <1>9, <2>1, <3>1, <3>2 DEF FromOn
  <2>2. ASSUME w[1] \in src PROVE AllIn(w, good)
    <3>1. 1 \in 1 .. n + 1
      OBVIOUS
    <3> QED BY <1>2, <1>9, <2>2, <3>1 DEF FromOn, AllIn
  <2> QED BY <1>2, <2>1, <2>2 DEF FromOn
<1> QED BY <1>1, <1>3, <1>6, <1>7, <1>8, <1>9

LEMMA QueueAppend ==
  ASSUME NEW dom, NEW w \in Seq(dom), NEW m \in dom, NEW src, NEW rel, NEW good
  PROVE  /\ Append(w, m) \in Seq(dom) /\ Append(w, m) # <<>>
         /\ NoneIn(Append(w, m), rel) <=> NoneIn(w, rel) /\ m \notin rel
         /\ LastIn(w, src, rel, good) \/ m \in rel =>
              ((m \in src => m \in good) => LastIn(Append(w, m), src, rel, good))
         /\ AllIn(w, good) /\ m \in good => AllIn(Append(w, m), good)
         /\ FromOn(w, src, good) /\ m \in good => FromOn(Append(w, m), src, good)
<1>1. PICK v : v = Append(w, m)
  OBVIOUS
<1>2. PICK n \in Nat : n = Len(w)
  BY LenProperties
<1>3. v \in Seq(dom) /\ Len(v) = n + 1 /\ v[n + 1] = m /\ \A i \in 1 .. n : v[i] = w[i]
  BY <1>1, <1>2, AppendProperties
<1>4. v # <<>>
  BY <1>3, EmptySeq
<1>5. \A i \in 1 .. n + 1 : i \in 1 .. n \/ i = n + 1
  OBVIOUS
<1>6. n + 1 \in 1 .. n + 1 /\ \A i \in 1 .. n : i \in 1 .. n + 1
  OBVIOUS
<1>7. NoneIn(v, rel) <=> NoneIn(w, rel) /\ m \notin rel
  BY <1>2, <1>3, <1>5, <1>6 DEF NoneIn
<1>8. ASSUME LastIn(w, src, rel, good) \/ m \in rel, m \in src => m \in good
      PROVE  LastIn(v, src, rel, good)
  <2> SUFFICES ASSUME NEW i \in 1 .. n + 1, v[i] \in src, \A j \in (i + 1) .. n + 1 : v[j] \notin rel
      PROVE  v[i] \in good
    BY <1>3 DEF LastIn
  <2>1. CASE i = n + 1
    BY <1>3, <1>8, <2>1
  <2>2. CASE i \in 1 .. n
    <3>1. n + 1 \in (i + 1) .. n + 1 /\ \A j \in (i + 1) .. n : j \in (i + 1) .. n + 1 /\ j \in 1 .. n
      BY <2>2
    <3>2. m \notin rel
      BY <1>3, <3>1
    <3>3. \A j \in (i + 1) .. n : w[j] \notin rel
      BY <1>3, <3>1
    <3> QED BY <1>2, <1>3, <1>8, <2>2, <3>2, <3>3 DEF LastIn
  <2> QED BY <1>5, <2>1, <2>2
<1>9. AllIn(w, good) /\ m \in good => AllIn(v, good)
  BY <1>2, <1>3, <1>5 DEF AllIn
<1>10. ASSUME FromOn(w, src, good), m \in good PROVE FromOn(v, src, good)
  <2> SUFFICES ASSUME NEW i \in 1 .. n + 1, v[i] \in src, NEW j \in i .. n + 1 PROVE v[j] \in good
    BY <1>3 DEF FromOn
  <2>1. CASE j = n + 1
    BY <1>3, <1>10, <2>1
  <2>2. CASE j # n + 1
    <3>1. i \in 1 .. n /\ j \in i .. n /\ j \in 1 .. n
      BY <2>2
    <3> QED BY <1>2, <1>3, <1>10, <3>1 DEF FromOn
  <2> QED BY <2>1, <2>2
<1> QED BY <1>1, <1>3, <1>4, <1>7, <1>8, <1>9, <1>10

LEMMA QueueEmpty ==
  ASSUME NEW src, NEW rel, NEW good
  PROVE  /\ NoneIn(<<>>, rel) /\ LastIn(<<>>, src, rel, good)
         /\ AllIn(<<>>, good) /\ FromOn(<<>>, src, good)
<1>1. Len(<<>>) = 0
  OBVIOUS
<1> QED BY <1>1 DEF NoneIn, LastIn, AllIn, FromOn

-----------------------------------------------------------------------------
(* The map of the sites.  The last message of the broker about a site      *)
(* tells whether it is mounted, and without one the map shows that, or it  *)
(* is known that a call failed.                                            *)

MapMessage == [what : {"methods", "error", "mounted", "unmounted"}, site : MapSites]

Told(s) == {m \in MapMessage : m.site = s /\ m.what # "error"}
Tells(on) == {m \in MapMessage : m.what \in S!Connects <=> on}

MapTypes ==
  /\ smUp \in BOOLEAN /\ smGetSites \in BOOLEAN
  /\ model \in {{}, MapSites} /\ shown \subseteq model
  /\ smAsked \subseteq MapSites /\ smMounts \subseteq MapSites
  /\ smWire \in Seq(MapMessage)
  /\ smSilent \subseteq MapSites /\ shown \cap smSilent = {}

MapStages ==
  /\ ~smUp => ~smGetSites /\ smAsked = {} /\ smWire = <<>>
  /\ smGetSites => smAsked = {} /\ smSilent = {}
  /\ IF smUp /\ ~smGetSites THEN model = MapSites \/ (model = {} /\ smSilent = MapSites)
     ELSE model = {}

MapTold == \A s \in MapSites : LastIn(smWire, Told(s), Told(s), Tells(s \in smMounts))

MapShown ==
  \A s \in MapSites : NoneIn(smWire, Told(s)) /\ s \in model =>
    /\ s \in shown => s \in smMounts
    /\ s \in smMounts /\ s \notin smAsked => s \in shown \/ s \in smSilent

MapInv == MapTypes /\ MapStages /\ MapTold /\ MapShown

LEMMA MapInitially == S!Init => MapInv
<1> SUFFICES ASSUME S!Init PROVE MapInv
  OBVIOUS
<1>1. MapTypes /\ MapStages
  BY EmptySeq DEF S!Init, MapTypes, MapStages
<1>2. MapTold /\ MapShown
  BY QueueEmpty DEF S!Init, MapTold, MapShown
<1> QED BY <1>1, <1>2 DEF MapInv

LEMMA MapCalls ==
  ASSUME MapInv, S!BrokerConnected \/ S!BrokerDisconnected \/ S!LoadSites
  PROVE  MapInv'
<1>1. CASE S!BrokerConnected
  <2>1. MapTypes' /\ MapStages'
    BY <1>1 DEF MapInv, MapTypes, MapStages, S!BrokerConnected
  <2>2. MapTold' /\ MapShown'
    BY <1>1 DEF MapInv, MapTold, MapShown, S!BrokerConnected
  <2> QED BY <2>1, <2>2 DEF MapInv
<1>2. CASE S!BrokerDisconnected
  <2>1. MapTypes' /\ MapStages'
    BY <1>2, EmptySeq DEF MapInv, MapTypes, MapStages, S!BrokerDisconnected
  <2>2. MapTold' /\ MapShown'
    BY <1>2, QueueEmpty DEF MapInv, MapTold, MapShown, S!BrokerDisconnected
  <2> QED BY <2>1, <2>2 DEF MapInv
<1>3. CASE S!LoadSites
  <2>1. MapTypes' /\ MapStages'
    BY <1>3 DEF MapInv, MapTypes, MapStages, S!LoadSites
  <2>2. MapTold'
    BY <1>3 DEF MapInv, MapTold, S!LoadSites
  <2>3. MapShown'
    BY <1>3 DEF MapInv, MapTypes, MapStages, MapShown, S!LoadSites
  <2> QED BY <2>1, <2>2, <2>3 DEF MapInv
<1> QED BY <1>1, <1>2, <1>3

LEMMA MapFaultsStep ==
  ASSUME MapInv, S!GetSitesFails \/ S!DirFails
  PROVE  MapInv'
<1>1. CASE S!GetSitesFails
  <2>1. MapTypes' /\ MapStages'
    BY <1>1 DEF MapInv, MapTypes, MapStages, S!GetSitesFails
  <2>2. MapTold'
    BY <1>1 DEF MapInv, MapTold, S!GetSitesFails
  <2>3. MapShown'
    BY <1>1 DEF MapInv, MapStages, MapShown, S!GetSitesFails
  <2> QED BY <2>1, <2>2, <2>3 DEF MapInv
<1>2. CASE S!DirFails
  <2>1. PICK s0 \in smAsked : smAsked' = smAsked \ {s0} /\ smSilent' = smSilent \cup ({s0} \ shown)
    BY <1>2 DEF S!DirFails
  <2>2. UNCHANGED <<smUp, smGetSites, model, shown, smWire, smMounts>>
    BY <1>2 DEF S!DirFails
  <2>3. MapTypes'
    BY <2>1, <2>2 DEF MapInv, MapTypes
  <2>4. MapStages'
    <3>1. ~smGetSites
      BY <2>1 DEF MapInv, MapStages
    <3> QED BY <2>1, <2>2, <2>3, <3>1 DEF MapInv, MapTypes, MapStages
  <2>5. MapTold'
    BY <2>2 DEF MapInv, MapTold
  <2>6. MapShown'
    BY <2>1, <2>2 DEF MapInv, MapShown
  <2> QED BY <2>3, <2>4, <2>5, <2>6 DEF MapInv
<1> QED BY <1>1, <1>2

LEMMA MapAnswerStep ==
  ASSUME MapInv, S!SiteAnswers
  PROVE  MapInv'
<1>1. PICK s0 \in smAsked :
        /\ smAsked' = smAsked \ {s0}
        /\ S!Send([what |-> IF s0 \in smMounts THEN "methods" ELSE "error", site |-> s0])
  BY DEF S!SiteAnswers
<1>2. PICK m : m = [what |-> IF s0 \in smMounts THEN "methods" ELSE "error", site |-> s0]
  OBVIOUS
<1>3. s0 \in MapSites /\ m \in MapMessage /\ smWire' = Append(smWire, m) /\ smWire \in Seq(MapMessage)
  BY <1>1, <1>2 DEF MapInv, MapTypes, MapMessage, S!Send, S!SiteAnswers
<1>4. MapTypes' /\ MapStages'
  <2>1. smWire' \in Seq(MapMessage)
    BY <1>3, QueueAppend
  <2> QED BY <1>1, <2>1 DEF MapInv, MapTypes, MapStages, S!SiteAnswers
<1>5. ASSUME NEW s \in MapSites
      PROVE  m \in Told(s) => m \in Tells(s \in smMounts) /\ s = s0 /\ s0 \in smMounts
  BY <1>2, <1>3 DEF Told, Tells, S!Connects
<1>6. MapTold'
  <2> SUFFICES ASSUME NEW s \in MapSites PROVE LastIn(smWire', Told(s), Told(s), Tells(s \in smMounts))
    BY DEF MapTold, S!SiteAnswers
  <2>1. LastIn(smWire, Told(s), Told(s), Tells(s \in smMounts))
    BY DEF MapInv, MapTold
  <2> QED BY <1>3, <1>5, <2>1, QueueAppend
<1>7. MapShown'
  <2> SUFFICES ASSUME NEW s \in MapSites, NoneIn(smWire', Told(s)), s \in model
      PROVE  (s \in shown => s \in smMounts) /\ (s \in smMounts /\ s \notin smAsked' => s \in shown \/ s \in smSilent)
    BY DEF MapShown, S!SiteAnswers
  <2>1. NoneIn(smWire, Told(s)) /\ m \notin Told(s)
    BY <1>3, QueueAppend
  <2>2. s = s0 => s \notin smMounts
    BY <1>2, <1>3, <2>1 DEF Told
  <2> QED BY <1>1, <2>1, <2>2 DEF MapInv, MapShown
<1> QED BY <1>4, <1>6, <1>7 DEF MapInv

LEMMA MapMountsStep ==
  ASSUME MapInv, S!MountsChange
  PROVE  MapInv'
<1>1. PICK s0 \in MapSites :
        /\ smMounts' = IF s0 \in smMounts THEN smMounts \ {s0} ELSE smMounts \cup {s0}
        /\ S!Send([what |-> IF s0 \in smMounts THEN "unmounted" ELSE "mounted", site |-> s0])
  BY DEF S!MountsChange
<1>2. PICK m : m = [what |-> IF s0 \in smMounts THEN "unmounted" ELSE "mounted", site |-> s0]
  OBVIOUS
<1>3. m \in MapMessage /\ smWire' = (IF smUp THEN Append(smWire, m) ELSE smWire) /\ smWire \in Seq(MapMessage)
  BY <1>1, <1>2 DEF MapInv, MapTypes, MapMessage, S!Send
<1>4. m \in Told(s0) /\ m \in Tells(s0 \in smMounts') /\ \A s \in MapSites : s # s0 => m \notin Told(s)
  BY <1>1, <1>2, <1>3 DEF Told, Tells, S!Connects
<1>5. \A s \in MapSites : s # s0 => (s \in smMounts' <=> s \in smMounts)
  BY <1>1
<1>6. CASE ~smUp
  <2>1. MapTypes' /\ MapStages'
    BY <1>1, <1>3, <1>6 DEF MapInv, MapTypes, MapStages, S!MountsChange
  <2>2. smWire' = <<>> /\ model' = {}
    BY <1>3, <1>6, <2>1 DEF MapInv, MapStages, S!MountsChange
  <2>3. MapTold' /\ MapShown'
    BY <2>2, QueueEmpty DEF MapTold, MapShown
  <2> QED BY <2>1, <2>3 DEF MapInv
<1>7. CASE smUp
  <2>0. smWire' = Append(smWire, m)
    BY <1>3, <1>7
  <2>1. MapTypes' /\ MapStages'
    <3>1. smWire' \in Seq(MapMessage)
      BY <1>3, <2>0, QueueAppend
    <3> QED BY <1>1, <1>7, <3>1 DEF MapInv, MapTypes, MapStages, S!MountsChange
  <2>2. MapTold'
    <3> SUFFICES ASSUME NEW s \in MapSites PROVE LastIn(smWire', Told(s), Told(s), Tells(s \in smMounts'))
      BY DEF MapTold
    <3>1. CASE s = s0
      BY <1>3, <1>4, <2>0, <3>1, QueueAppend
    <3>2. CASE s # s0
      <4>1. PICK b : b = (s \in smMounts) /\ b = (s \in smMounts')
        BY <1>5, <3>2
      <4>2. LastIn(smWire, Told(s), Told(s), Tells(b))
        BY <4>1 DEF MapInv, MapTold
      <4>3. m \notin Told(s)
        BY <1>4, <3>2
      <4>4. LastIn(smWire', Told(s), Told(s), Tells(b))
        BY <1>3, <2>0, <4>2, <4>3, QueueAppend
      <4> QED BY <4>1, <4>4
    <3> QED BY <3>1, <3>2
  <2>3. MapShown'
    <3> SUFFICES ASSUME NEW s \in MapSites, NoneIn(smWire', Told(s)), s \in model
        PROVE  /\ s \in shown => s \in smMounts'
               /\ s \in smMounts' /\ s \notin smAsked => s \in shown \/ s \in smSilent
      BY DEF MapShown, S!MountsChange
    <3>1. NoneIn(smWire, Told(s)) /\ m \notin Told(s)
      BY <1>3, <2>0, QueueAppend
    <3>2. s # s0
      BY <1>4, <3>1
    <3> QED BY <1>5, <3>1, <3>2 DEF MapInv, MapShown
  <2> QED BY <2>1, <2>2, <2>3 DEF MapInv
<1> QED BY <1>6, <1>7

LEMMA MapReceivedStep ==
  ASSUME MapInv, S!Received
  PROVE  MapInv'
<1>1. PICK m : m = Head(smWire)
  OBVIOUS
<1>2. smWire \in Seq(MapMessage) /\ smWire # <<>> /\ smWire' = Tail(smWire) /\ m \in MapMessage
      /\ smWire' \in Seq(MapMessage)
  BY <1>1, TailFacts DEF MapInv, MapTypes, S!Received
<1>3. m.site \in MapSites /\ m.what \in {"methods", "error", "mounted", "unmounted"}
  BY <1>2 DEF MapMessage
<1>4. shown' = IF m.what = "error" \/ m.site \notin model THEN shown
               ELSE IF m.what \in S!Connects THEN shown \cup {m.site} ELSE shown \ {m.site}
  BY <1>1, <1>3 DEF S!Received, S!SetSiteBrokerConnected, S!Connects
<1>5. MapTypes' /\ MapStages'
  BY <1>2, <1>3, <1>4 DEF MapInv, MapTypes, MapStages, S!Received
<1>6. MapTold'
  <2> SUFFICES ASSUME NEW s \in MapSites PROVE LastIn(smWire', Told(s), Told(s), Tells(s \in smMounts))
    BY DEF MapTold, S!Received
  <2>1. LastIn(smWire, Told(s), Told(s), Tells(s \in smMounts))
    BY DEF MapInv, MapTold
  <2> QED BY <1>2, <2>1, QueueTail
<1>7. MapShown'
  <2> SUFFICES ASSUME NEW s \in MapSites, NoneIn(smWire', Told(s)), s \in model
      PROVE  /\ s \in shown' => s \in smMounts
             /\ s \in smMounts /\ s \notin smAsked => s \in shown' \/ s \in smSilent'
    BY DEF MapShown, S!Received
  <2>1. CASE m \in Told(s)
    <3>1. LastIn(smWire, Told(s), Told(s), Tells(s \in smMounts))
      BY DEF MapInv, MapTold
    <3>2. m \in Tells(s \in smMounts)
      BY <1>1, <1>2, <2>1, <3>1, QueueTail
    <3> QED BY <1>4, <2>1, <3>2 DEF Told, Tells
  <2>2. CASE m \notin Told(s)
    <3>1. NoneIn(smWire, Told(s))
      BY <1>1, <1>2, <2>2, QueueTail
    <3>2. s \in shown' <=> s \in shown
      BY <1>2, <1>3, <1>4, <2>2 DEF Told
    <3>3. smSilent' = smSilent \ shown'
      BY DEF S!Received
    <3> QED BY <3>1, <3>2, <3>3 DEF MapInv, MapShown
  <2> QED BY <2>1, <2>2
<1> QED BY <1>5, <1>6, <1>7 DEF MapInv

LEMMA MapNext == MapInv /\ S!Next => MapInv'
  BY MapCalls, MapFaultsStep, MapAnswerStep, MapMountsStep, MapReceivedStep DEF S!Next

LEMMA MapSame == MapInv /\ UNCHANGED sVars => MapInv'
  BY DEF MapInv, MapTypes, MapStages, MapTold, MapShown, sVars

LEMMA MapResult == MapInv => S!TypeOK /\ S!ShownMounted
<1> SUFFICES ASSUME MapInv PROVE S!TypeOK /\ S!ShownMounted
  OBVIOUS
<1>1. S!TypeOK
  BY DEF MapInv, MapTypes, S!TypeOK
<1>2. ASSUME smUp, ~smGetSites, smAsked = {}, smWire = <<>> PROVE shown = smMounts \ smSilent
  <2>1. \A s \in MapSites : NoneIn(smWire, Told(s))
    BY <1>2, QueueEmpty
  <2>2. shown \subseteq model /\ smMounts \subseteq MapSites /\ shown \cap smSilent = {}
        /\ (model = MapSites \/ (model = {} /\ smSilent = MapSites))
    BY <1>2 DEF MapInv, MapTypes, MapStages
  <2> QED BY <1>2, <2>1, <2>2 DEF MapInv, MapShown
<1> QED BY <1>1, <1>2 DEF S!ShownMounted

-----------------------------------------------------------------------------
(* The values of the converter.  While no signal can have been lost, each  *)
(* value is asked for, or the last message with it tells what it is and    *)
(* without one it is shown.                                                *)

LEMMA QueueConcat ==
  ASSUME NEW dom, NEW w \in Seq(dom), NEW more \in Seq(dom), NEW rel
  PROVE  /\ w \o more \in Seq(dom)
         /\ NoneIn(w \o more, rel) => NoneIn(w, rel) /\ NoneIn(more, rel)
         /\ w # <<>> => w \o more # <<>> /\ Head(w \o more) = Head(w)
<1>1. PICK v : v = w \o more
  OBVIOUS
<1>2. PICK n \in Nat, k \in Nat : n = Len(w) /\ k = Len(more)
  BY LenProperties
<1>3. /\ v \in Seq(dom) /\ Len(v) = n + k
      /\ \A i \in 1 .. n + k : v[i] = IF i <= n THEN w[i] ELSE more[i - n]
  BY <1>1, <1>2, ConcatProperties
<1>4. ASSUME NoneIn(v, rel) PROVE NoneIn(w, rel) /\ NoneIn(more, rel)
  <2>1. ASSUME NEW i \in 1 .. n PROVE w[i] \notin rel
    <3>1. i \in 1 .. n + k /\ i <= n
      OBVIOUS
    <3> QED BY <1>3, <1>4, <3>1 DEF NoneIn
  <2>2. ASSUME NEW i \in 1 .. k PROVE more[i] \notin rel
    <3>1. i + n \in 1 .. n + k /\ ~(i + n <= n) /\ (i + n) - n = i
      OBVIOUS
    <3> QED BY <1>3, <1>4, <3>1 DEF NoneIn
  <2> QED BY <1>2, <2>1, <2>2 DEF NoneIn
<1>5. ASSUME w # <<>> PROVE v # <<>> /\ Head(v) = Head(w)
  <2>1. n # 0 /\ Head(w) = w[1]
    BY <1>2, <1>5, TailFacts
  <2>2. Len(v) # 0 /\ v[1] = w[1]
    BY <1>3, <2>1
  <2>3. v # <<>>
    BY <2>2, EmptySeq
  <2> QED BY <1>3, <2>1, <2>2, <2>3, TailFacts
<1> QED BY <1>1, <1>3, <1>4, <1>5

(* The members of a finite set in some order.                              *)
LEMMA OrderExists ==
  ASSUME NEW set, IsFiniteSet(set)
  PROVE  \E q \in [1 .. Cardinality(set) -> set] : /\ \A x \in set : \E i \in 1 .. Cardinality(set) : q[i] = x
                                                   /\ \A i, j \in 1 .. Cardinality(set) : q[i] = q[j] => i = j
<1>1. Cardinality(set) \in Nat /\ ExistsBijection(1 .. Cardinality(set), set)
  BY FS_CardinalityType
<1>2. PICK q : q \in Bijection(1 .. Cardinality(set), set)
  BY <1>1 DEF ExistsBijection
<1> QED BY <1>2 DEF Bijection, Injection, Surjection, IsInjective

DeviceRequest ==
  {[kind |-> "subscribe"]} \cup [kind : {"status"}, id : Nat \ {0}] \cup [kind : {"get"}, path : ScreenPaths]

DeviceMessage ==
  [kind : {"status"}, id : Nat \ {0}, error : BOOLEAN, val : V!Values] \cup
  [kind : {"get", "chng"}, path : ScreenPaths, error : BOOLEAN, val : V!Values]

GetOf(p) == [kind |-> "get", path |-> p]

ValueOf(p) == {m \in DeviceMessage : m.kind \in {"get", "chng"} /\ m.path = p /\ ~m.error}
ShownAs(p) == ValueOf(p) \cup {m \in DeviceMessage : p = "status" /\ m.kind = "status" /\ ~m.error}
HasValue(val) == {m \in DeviceMessage : m.val = val}

LEMMA ReloadFacts ==
  V!Reload \in Seq(DeviceRequest) /\ \A p \in ScreenPaths : ~NoneIn(V!Reload, {GetOf(p)})
<1>1. PICK gets : gets = {GetOf(p) : p \in ScreenPaths}
  OBVIOUS
<1>2. V!Gets = gets /\ gets \subseteq DeviceRequest
  BY <1>1 DEF V!Gets, GetOf, DeviceRequest
<1>3. IsFiniteSet(gets)
  <2>1. IsFiniteSet(ScreenPaths)
    <3>1. V!IsFiniteSet(ScreenPaths)
      BY ViewsAssumption, Zenon DEF V!DeviceViewAssumption
    <3> QED BY <3>1 DEF V!IsFiniteSet, IsFiniteSet
  <2>2. PICK f : f = [p \in ScreenPaths |-> GetOf(p)]
    OBVIOUS
  <2>3. f \in Surjection(ScreenPaths, gets)
    BY <1>1, <2>2 DEF Surjection
  <2>4. IsFiniteSet(gets) /\ Cardinality(gets) <= Cardinality(ScreenPaths)
    BY <2>1, <2>3, FS_Surjection, Zenon
  <2> QED BY <2>4
<1>4. PICK n \in Nat : n = Cardinality(gets)
  BY <1>3, FS_CardinalityType
<1>5. \E q \in [1 .. n -> gets] : \A x \in gets : \E i \in 1 .. n : q[i] = x
  <2>1. \E q \in [1 .. Cardinality(gets) -> gets] : \A x \in gets : \E i \in 1 .. Cardinality(gets) : q[i] = x
    BY <1>3, OrderExists, Zenon
  <2> QED BY <1>4, <2>1, Zenon
<1>6. PICK w : w = V!Reload
  OBVIOUS
<1>7. w \in [1 .. n -> gets] /\ \A x \in gets : \E i \in DOMAIN w : w[i] = x
  <2>1. \E q \in [1 .. n -> gets] : \A x \in gets : \E i \in DOMAIN q : q[i] = x
    BY <1>5
  <2>2. w = CHOOSE q \in [1 .. n -> gets] : \A x \in gets : \E i \in DOMAIN q : q[i] = x
    <3>1. w = CHOOSE q \in [1 .. V!Cardinality(V!Gets) -> V!Gets] :
                \A g \in V!Gets : \E i \in DOMAIN q : q[i] = g
      BY <1>6, Zenon DEF V!Reload
    <3>2. V!Cardinality(V!Gets) = n
      <4>1. V!Cardinality(gets) = n
        BY <1>4 DEF V!Cardinality, Cardinality
      <4> QED BY <1>2, <4>1, Zenon
    <3>3. V!Gets = gets
      BY <1>2, Zenon
    <3> HIDE DEF V!Gets
    <3> QED BY <3>1, <3>2, <3>3, Zenon
  <2> QED BY <2>1, <2>2
<1>8. w \in Seq(gets) /\ Len(w) = n
  BY <1>7, SeqDef
<1>9. w \in Seq(DeviceRequest)
  BY <1>2, <1>8, SeqMonotonic
<1>10. ASSUME NEW p \in ScreenPaths PROVE ~NoneIn(w, {GetOf(p)})
  <2>1. PICK i \in DOMAIN w : w[i] = GetOf(p)
    BY <1>1, <1>7
  <2> QED BY <1>7, <1>8, <2>1 DEF NoneIn
<1> QED BY <1>6, <1>9, <1>10

DeviceTypes ==
  /\ value \in [ScreenPaths -> V!Values] /\ snapshot \in [ScreenPaths -> V!Values \cup {V!NoVal}]
  /\ devUp \in BOOLEAN /\ dvUp \in BOOLEAN /\ dvSubscribed \in BOOLEAN
  /\ dvConnected \in BOOLEAN /\ missed \in BOOLEAN
  /\ rqId \in -1 .. ScreenIds /\ ids \in 0 .. ScreenIds /\ changes \in 0 .. ScreenChanges
  /\ dvAsked \in Seq(DeviceRequest) /\ dvInbox \in Seq(DeviceMessage)

(* The subscription is the first request of a connection.                  *)
DeviceStages ==
  /\ ~dvUp => ~dvSubscribed /\ dvAsked = <<>> /\ dvInbox = <<>>
  /\ dvUp /\ ~dvSubscribed => dvInbox = <<>> /\ dvAsked # <<>> /\ Head(dvAsked).kind = "subscribe"
  /\ rqId = 0 => dvConnected
  /\ ~missed => dvUp /\ dvSubscribed /\ devUp

DeviceFollows(p) ==
  /\ LastIn(dvInbox, ShownAs(p), ValueOf(p), HasValue(value[p]))
  /\ NoneIn(dvInbox, ValueOf(p)) => snapshot[p] = value[p]

DeviceCurrent ==
  ~missed /\ dvConnected =>
    \A p \in ScreenPaths : ~NoneIn(dvAsked, {GetOf(p)}) \/ DeviceFollows(p)

DeviceInv == DeviceTypes /\ DeviceStages /\ DeviceCurrent

LEMMA DeviceInitially == V!Init => DeviceInv
<1> SUFFICES ASSUME V!Init PROVE DeviceInv
  OBVIOUS
<1>1. DeviceTypes
  <2>1. -1 \in -1 .. ScreenIds /\ 0 \in 0 .. ScreenIds /\ 0 \in 0 .. ScreenChanges
    BY ViewsAssumption DEF V!DeviceViewAssumption
  <2>2. rqId = -1 /\ ids = 0 /\ changes = 0 /\ dvAsked = <<>> /\ dvInbox = <<>>
    BY DEF V!Init
  <2>3. <<>> \in Seq(DeviceRequest) /\ <<>> \in Seq(DeviceMessage)
    BY EmptySeq
  <2>4. /\ value \in [ScreenPaths -> V!Values] /\ snapshot \in [ScreenPaths -> V!Values \cup {V!NoVal}]
        /\ devUp \in BOOLEAN /\ dvUp \in BOOLEAN /\ dvSubscribed \in BOOLEAN
        /\ dvConnected \in BOOLEAN /\ missed \in BOOLEAN
    BY DEF V!Init, V!Values
  <2> QED BY <2>1, <2>2, <2>3, <2>4 DEF DeviceTypes
<1>2. DeviceStages /\ DeviceCurrent
  BY DEF V!Init, DeviceStages, DeviceCurrent
<1> QED BY <1>1, <1>2 DEF DeviceInv

LEMMA RequestSent ==
  ASSUME DeviceInv, V!SendGetStatusRequest
  PROVE  /\ V!StatusRequest \in DeviceRequest
         /\ rqId' \in -1 .. ScreenIds /\ ids' \in 0 .. ScreenIds /\ rqId' # 0
<1>1. ids \in Nat /\ ids < ScreenIds /\ ScreenIds \in Nat /\ ids' = ids + 1 /\ rqId' = ids + 1
  BY ViewsAssumption DEF V!DeviceViewAssumption, V!SendGetStatusRequest, DeviceInv, DeviceTypes
<1>2. ids + 1 \in Nat \ {0}
  BY <1>1
<1> QED BY <1>1, <1>2 DEF V!StatusRequest, DeviceRequest

LEMMA DeviceConnectionSteps ==
  ASSUME DeviceInv, V!BrokerConnected \/ V!BrokerDisconnected \/ V!DeviceConnection
  PROVE  DeviceInv'
<1>1. CASE V!BrokerConnected
  <2>1. V!StatusRequest \in DeviceRequest
        /\ rqId' \in -1 .. ScreenIds /\ ids' \in 0 .. ScreenIds /\ rqId' # 0
    BY <1>1, RequestSent DEF V!BrokerConnected
  <2>2. PICK a, b : a = [kind |-> "subscribe"] /\ b = V!StatusRequest
    OBVIOUS
  <2>3. a \in DeviceRequest /\ b \in DeviceRequest /\ dvAsked' = <<a, b>>
    BY <1>1, <2>1, <2>2 DEF V!BrokerConnected, DeviceRequest
  <2>4. dvAsked' \in Seq(DeviceRequest) /\ dvAsked' # <<>> /\ Head(dvAsked') = a
    <3>1. Len(<<a, b>>) = 2 /\ Head(<<a, b>>) = a
      OBVIOUS
    <3>2. <<a, b>> \in Seq(DeviceRequest) /\ <<a, b>> # <<>>
      BY <2>3
    <3> QED BY <2>3, <3>1, <3>2
  <2>5. DeviceTypes'
    BY <1>1, <2>1, <2>4 DEF DeviceInv, DeviceTypes, V!BrokerConnected
  <2>6. missed /\ dvInbox = <<>>
    BY <1>1 DEF DeviceInv, DeviceStages, DeviceTypes, V!BrokerConnected
  <2>7. DeviceStages' /\ DeviceCurrent'
    BY <1>1, <2>1, <2>2, <2>4, <2>6 DEF DeviceStages, DeviceCurrent, V!BrokerConnected
  <2> QED BY <2>5, <2>7 DEF DeviceInv
<1>2. CASE V!BrokerDisconnected
  <2>1. DeviceTypes'
    BY <1>2, EmptySeq DEF DeviceInv, DeviceTypes, V!BrokerDisconnected
  <2>2. DeviceStages' /\ DeviceCurrent'
    BY <1>2 DEF DeviceInv, DeviceStages, DeviceCurrent, V!BrokerDisconnected
  <2> QED BY <2>1, <2>2 DEF DeviceInv
<1>3. CASE V!DeviceConnection
  <2>1. DeviceTypes'
    BY <1>3 DEF DeviceInv, DeviceTypes, V!DeviceConnection
  <2>2. DeviceStages' /\ DeviceCurrent'
    BY <1>3 DEF DeviceInv, DeviceStages, DeviceCurrent, V!DeviceConnection
  <2> QED BY <2>1, <2>2 DEF DeviceInv
<1> QED BY <1>1, <1>2, <1>3

(* What setShvDeviceConnected does: the requests stay in front, and a      *)
(* device that is found connected is asked for all values.                 *)
LEMMA SetConnected ==
  ASSUME DeviceInv, NEW on \in BOOLEAN, NEW snap \in [ScreenPaths -> V!Values \cup {V!NoVal}],
         NEW more \in Seq(DeviceRequest), V!SetShvDeviceConnected(on, snap, more)
  PROVE  /\ dvConnected' = on /\ snapshot' \in [ScreenPaths -> V!Values \cup {V!NoVal}]
         /\ dvAsked' \in Seq(DeviceRequest)
         /\ dvAsked # <<>> => dvAsked' # <<>> /\ Head(dvAsked') = Head(dvAsked)
         /\ on = dvConnected => snapshot' = snap /\ missed' = missed
         /\ missed' \in BOOLEAN /\ (~missed' => devUp /\ (~missed \/ on))
         /\ \A p \in ScreenPaths :
              ~NoneIn(dvAsked, {GetOf(p)}) \/ (on /\ ~dvConnected) => ~NoneIn(dvAsked', {GetOf(p)})
<1>1. PICK gets : gets = IF on # dvConnected THEN V!Reload ELSE <<>>
  OBVIOUS
<1>2. dvAsked \in Seq(DeviceRequest) /\ dvConnected \in BOOLEAN /\ missed \in BOOLEAN /\ devUp \in BOOLEAN
      /\ (~missed => devUp)
  BY DEF DeviceInv, DeviceTypes, DeviceStages
<1>3. gets \in Seq(DeviceRequest)
  BY <1>1, ReloadFacts, EmptySeq
<1>4. PICK all : all = dvAsked \o gets
  OBVIOUS
<1>5. dvAsked' = all \o more /\ all \in Seq(DeviceRequest)
  BY <1>1, <1>2, <1>3, <1>4, QueueConcat DEF V!SetShvDeviceConnected
<1>6. dvAsked' \in Seq(DeviceRequest)
      /\ (dvAsked # <<>> => dvAsked' # <<>> /\ Head(dvAsked') = Head(dvAsked))
  <2>1. dvAsked # <<>> => all # <<>> /\ Head(all) = Head(dvAsked)
    BY <1>2, <1>3, <1>4, QueueConcat
  <2>2. all # <<>> => all \o more # <<>> /\ Head(all \o more) = Head(all)
    BY <1>5, QueueConcat
  <2>3. all \o more \in Seq(DeviceRequest)
    BY <1>5, QueueConcat
  <2> QED BY <1>5, <2>1, <2>2, <2>3
<1>7. ASSUME NEW p \in ScreenPaths, ~NoneIn(dvAsked, {GetOf(p)}) \/ (on /\ ~dvConnected)
      PROVE  ~NoneIn(dvAsked', {GetOf(p)})
  <2>1. on /\ ~dvConnected => ~NoneIn(gets, {GetOf(p)})
    BY <1>1, ReloadFacts
  <2>2. ~NoneIn(all, {GetOf(p)})
    BY <1>2, <1>3, <1>4, <1>7, <2>1, QueueConcat
  <2> QED BY <1>5, <2>2, QueueConcat
<1>8. dvConnected' = on /\ snapshot' \in [ScreenPaths -> V!Values \cup {V!NoVal}]
      /\ (on = dvConnected => snapshot' = snap)
  BY <1>2 DEF V!SetShvDeviceConnected
<1>9. /\ missed' = (missed /\ ~((on # dvConnected) /\ on /\ devUp))
  BY DEF V!SetShvDeviceConnected
<1>10. /\ on = dvConnected => missed' = missed
       /\ missed' \in BOOLEAN /\ (~missed' => devUp /\ (~missed \/ on))
  BY <1>2, <1>9
<1> QED BY <1>6, <1>7, <1>8, <1>10

LEMMA DeviceCheckStep ==
  ASSUME DeviceInv, V!CheckShvDeviceConnected
  PROVE  DeviceInv'
<1>1. PICK on \in BOOLEAN : on = (rqId = 0)
  OBVIOUS
<1>2. PICK more : more = <<V!StatusRequest>>
  OBVIOUS
<1>3. V!StatusRequest \in DeviceRequest
      /\ rqId' \in -1 .. ScreenIds /\ ids' \in 0 .. ScreenIds /\ rqId' # 0
  BY RequestSent DEF V!CheckShvDeviceConnected
<1>4. more \in Seq(DeviceRequest) /\ V!SetShvDeviceConnected(on, snapshot, more)
      /\ snapshot \in [ScreenPaths -> V!Values \cup {V!NoVal}]
  BY <1>1, <1>2, <1>3 DEF V!CheckShvDeviceConnected, DeviceInv, DeviceTypes
<1>5. /\ dvConnected' = on /\ snapshot' \in [ScreenPaths -> V!Values \cup {V!NoVal}]
      /\ dvAsked' \in Seq(DeviceRequest)
      /\ dvAsked # <<>> => dvAsked' # <<>> /\ Head(dvAsked') = Head(dvAsked)
      /\ on = dvConnected => snapshot' = snapshot /\ missed' = missed
      /\ missed' \in BOOLEAN /\ (~missed' => devUp /\ (~missed \/ on))
      /\ \A p \in ScreenPaths :
           ~NoneIn(dvAsked, {GetOf(p)}) \/ (on /\ ~dvConnected) => ~NoneIn(dvAsked', {GetOf(p)})
  BY <1>1, <1>4, SetConnected
<1>6. on => dvConnected
  BY <1>1 DEF DeviceInv, DeviceStages
<1>7. DeviceTypes'
  BY <1>1, <1>3, <1>5 DEF DeviceInv, DeviceTypes, V!CheckShvDeviceConnected
<1>8. ~missed' => ~missed
  BY <1>5, <1>6 DEF DeviceInv, DeviceTypes
<1>9. DeviceStages'
  BY <1>3, <1>5, <1>8 DEF DeviceInv, DeviceStages, V!CheckShvDeviceConnected
<1>10. DeviceCurrent'
  <2> SUFFICES ASSUME ~missed', on, NEW p \in ScreenPaths
      PROVE  ~NoneIn(dvAsked', {GetOf(p)}) \/ DeviceFollows(p)'
    BY <1>5 DEF DeviceCurrent
  <2>1. dvConnected /\ snapshot' = snapshot
    BY <1>1, <1>5, <1>6 DEF DeviceInv, DeviceTypes
  <2>2. ~NoneIn(dvAsked, {GetOf(p)}) \/ DeviceFollows(p)
    BY <1>8, <2>1 DEF DeviceInv, DeviceCurrent
  <2>3. DeviceFollows(p) => DeviceFollows(p)'
    BY <2>1 DEF DeviceFollows, V!CheckShvDeviceConnected
  <2> QED BY <1>5, <2>2, <2>3
<1> QED BY <1>7, <1>9, <1>10 DEF DeviceInv

LEMMA DeviceReceivedStep ==
  ASSUME DeviceInv, V!OnRpcMessageReceived
  PROVE  DeviceInv'
<1>1. PICK m : m = Head(dvInbox)
  OBVIOUS
<1>2. /\ dvInbox \in Seq(DeviceMessage) /\ dvInbox # <<>> /\ dvInbox' = Tail(dvInbox)
      /\ m \in DeviceMessage /\ dvInbox' \in Seq(DeviceMessage)
      /\ V!Received(m) /\ UNCHANGED <<value, devUp, dvUp, dvSubscribed, ids, changes>>
  BY <1>1, TailFacts DEF DeviceInv, DeviceTypes, V!OnRpcMessageReceived
<1>3. dvUp /\ dvSubscribed /\ DeviceTypes /\ "status" \in ScreenPaths /\ 0 \in -1 .. ScreenIds
  BY <1>2, ViewsAssumption DEF DeviceInv, DeviceStages, DeviceTypes, V!DeviceViewAssumption
<1>4. ASSUME NEW p \in ScreenPaths
      PROVE  /\ DeviceFollows(p) /\ m \notin ShownAs(p) /\ snapshot'[p] = snapshot[p] => DeviceFollows(p)'
             /\ DeviceFollows(p) /\ m \in ShownAs(p) /\ snapshot'[p] = m.val => DeviceFollows(p)'
  <2>1. value' = value
    BY <1>2
  <2>2. ASSUME DeviceFollows(p) PROVE LastIn(dvInbox', ShownAs(p), ValueOf(p), HasValue(value[p]))
    BY <1>2, <2>2, QueueTail DEF DeviceFollows
  <2>3. m \notin ShownAs(p) => m \notin ValueOf(p)
    BY DEF ShownAs
  <2>4. NoneIn(dvInbox', ValueOf(p)) /\ m \notin ValueOf(p) => NoneIn(dvInbox, ValueOf(p))
    BY <1>1, <1>2, QueueTail
  <2>5. ASSUME DeviceFollows(p), m \in ShownAs(p), NoneIn(dvInbox', ValueOf(p)) PROVE m.val = value[p]
    <3>1. LastIn(dvInbox, ShownAs(p), ValueOf(p), HasValue(value[p]))
      BY <2>5 DEF DeviceFollows
    <3>2. m \in HasValue(value[p])
      BY <1>1, <1>2, <2>5, <3>1, QueueTail
    <3> QED BY <3>2 DEF HasValue
  <2> QED BY <2>1, <2>2, <2>3, <2>4, <2>5 DEF DeviceFollows
<1>5. CASE m.kind = "status" /\ m.id # rqId
  <2>1. UNCHANGED <<snapshot, dvConnected, dvAsked, missed, rqId>>
    BY <1>2, <1>5 DEF V!Received
  <2>2. DeviceTypes' /\ DeviceStages'
    BY <1>2, <1>3, <2>1 DEF DeviceInv, DeviceTypes, DeviceStages
  <2>3. DeviceCurrent'
    <3> SUFFICES ASSUME ~missed, dvConnected, NEW p \in ScreenPaths, NoneIn(dvAsked, {GetOf(p)})
        PROVE  DeviceFollows(p)'
      BY <2>1 DEF DeviceCurrent
    <3>1. DeviceFollows(p)
      BY DEF DeviceInv, DeviceCurrent
    <3>2. value' = value /\ snapshot' = snapshot /\ m \notin ValueOf(p)
      BY <1>2, <1>5, <2>1 DEF ValueOf
    <3>3. LastIn(dvInbox', ShownAs(p), ValueOf(p), HasValue(value[p]))
      BY <1>2, <3>1, QueueTail DEF DeviceFollows
    <3>4. NoneIn(dvInbox', ValueOf(p)) => NoneIn(dvInbox, ValueOf(p))
      BY <1>1, <1>2, <3>2, QueueTail
    <3> QED BY <3>1, <3>2, <3>3, <3>4 DEF DeviceFollows
  <2> QED BY <2>2, <2>3 DEF DeviceInv
<1>6. CASE m.kind = "status" /\ m.id = rqId /\ m.error
  <2>1. V!SetShvDeviceConnected(FALSE, snapshot, <<>>) /\ rqId' = rqId /\ rqId # 0
    BY <1>2, <1>6 DEF V!Received, DeviceMessage
  <2>2. PICK more : more = <<>> /\ more \in Seq(DeviceRequest)
    BY EmptySeq
  <2>3. V!SetShvDeviceConnected(FALSE, snapshot, more) /\ snapshot \in [ScreenPaths -> V!Values \cup {V!NoVal}]
    BY <1>3, <2>1, <2>2 DEF DeviceTypes
  <2>4. /\ dvConnected' = FALSE /\ snapshot' \in [ScreenPaths -> V!Values \cup {V!NoVal}]
        /\ dvAsked' \in Seq(DeviceRequest)
        /\ missed' \in BOOLEAN /\ (~missed' => devUp /\ ~missed)
    BY <2>2, <2>3, SetConnected
  <2>5. DeviceTypes'
    BY <1>2, <1>3, <2>1, <2>4 DEF DeviceTypes
  <2>6. DeviceStages' /\ DeviceCurrent'
    BY <1>2, <1>3, <2>1, <2>4 DEF DeviceStages, DeviceCurrent
  <2> QED BY <2>5, <2>6 DEF DeviceInv
<1>7. CASE m.kind = "status" /\ m.id = rqId /\ ~m.error
  <2>1. V!SetShvDeviceConnected(TRUE, [snapshot EXCEPT !["status"] = m.val], <<>>) /\ rqId' = 0
    BY <1>2, <1>7 DEF V!Received
  <2>2. PICK more : more = <<>> /\ more \in Seq(DeviceRequest)
    BY EmptySeq
  <2>3. PICK snap : snap = [snapshot EXCEPT !["status"] = m.val]
    OBVIOUS
  <2>4. m.val \in V!Values
    BY <1>2 DEF DeviceMessage
  <2>5. snap \in [ScreenPaths -> V!Values \cup {V!NoVal}]
        /\ \A p \in ScreenPaths : snap[p] = IF p = "status" THEN m.val ELSE snapshot[p]
    BY <1>3, <2>3, <2>4 DEF DeviceTypes
  <2>6. V!SetShvDeviceConnected(TRUE, snap, more)
    BY <2>1, <2>2, <2>3
  <2>7. /\ dvConnected' = TRUE /\ snapshot' \in [ScreenPaths -> V!Values \cup {V!NoVal}]
        /\ dvAsked' \in Seq(DeviceRequest)
        /\ dvConnected = TRUE => snapshot' = snap /\ missed' = missed
        /\ missed' \in BOOLEAN /\ (~missed' => devUp)
        /\ \A p \in ScreenPaths :
             ~NoneIn(dvAsked, {GetOf(p)}) \/ ~dvConnected => ~NoneIn(dvAsked', {GetOf(p)})
    BY <2>2, <2>5, <2>6, SetConnected
  <2>8. DeviceTypes'
    BY <1>2, <1>3, <2>1, <2>7 DEF DeviceTypes
  <2>9. DeviceStages'
    BY <1>2, <1>3, <2>1, <2>7 DEF DeviceStages
  <2>10. DeviceCurrent'
    <3> SUFFICES ASSUME ~missed', NEW p \in ScreenPaths, NoneIn(dvAsked', {GetOf(p)})
        PROVE  DeviceFollows(p)'
      BY DEF DeviceCurrent
    <3>1. dvConnected /\ NoneIn(dvAsked, {GetOf(p)})
      BY <2>7
    <3>2. snapshot' = snap /\ ~missed
      BY <1>3, <2>7, <3>1 DEF DeviceTypes
    <3>3. DeviceFollows(p)
      BY <3>1, <3>2 DEF DeviceInv, DeviceCurrent
    <3>4. m \in ShownAs(p) <=> p = "status"
      BY <1>2, <1>7 DEF ShownAs, ValueOf
    <3>5. snapshot'[p] = IF p = "status" THEN m.val ELSE snapshot[p]
      BY <2>5, <3>2
    <3> QED BY <1>4, <3>3, <3>4, <3>5
  <2> QED BY <2>8, <2>9, <2>10 DEF DeviceInv
<1>8. CASE m.kind \in {"get", "chng"}
  <2>1. /\ snapshot' = (IF m.error THEN snapshot ELSE [snapshot EXCEPT ![m.path] = m.val])
        /\ UNCHANGED <<dvConnected, dvAsked, missed, rqId>>
    BY <1>2, <1>8 DEF V!Received
  <2>2. m.path \in ScreenPaths /\ m.val \in V!Values /\ m.error \in BOOLEAN
    BY <1>2, <1>8 DEF DeviceMessage
  <2>3. snapshot' \in [ScreenPaths -> V!Values \cup {V!NoVal}]
        /\ \A p \in ScreenPaths : snapshot'[p] = IF p = m.path /\ ~m.error THEN m.val ELSE snapshot[p]
    BY <1>3, <2>1, <2>2 DEF DeviceTypes
  <2>4. DeviceTypes'
    BY <1>2, <1>3, <2>1, <2>3 DEF DeviceTypes
  <2>5. DeviceStages'
    BY <1>2, <1>3, <2>1 DEF DeviceInv, DeviceStages
  <2>6. DeviceCurrent'
    <3> SUFFICES ASSUME ~missed, dvConnected, NEW p \in ScreenPaths, NoneIn(dvAsked, {GetOf(p)})
        PROVE  DeviceFollows(p)'
      BY <2>1 DEF DeviceCurrent
    <3>1. DeviceFollows(p)
      BY DEF DeviceInv, DeviceCurrent
    <3>2. m \in ShownAs(p) <=> p = m.path /\ ~m.error
      BY <1>2, <1>8 DEF ShownAs, ValueOf
    <3>3. snapshot'[p] = IF p = m.path /\ ~m.error THEN m.val ELSE snapshot[p]
      BY <2>3
    <3> QED BY <1>4, <3>1, <3>2, <3>3
  <2> QED BY <2>4, <2>5, <2>6 DEF DeviceInv
<1>9. m.kind \in {"status", "get", "chng"} /\ (m.kind = "status" => m.error \in BOOLEAN)
  BY <1>2 DEF DeviceMessage
<1> QED BY <1>5, <1>6, <1>7, <1>8, <1>9

LEMMA DeviceAnsweredStep ==
  ASSUME DeviceInv, V!Answered
  PROVE  DeviceInv'
<1>1. PICK m : m = Head(dvAsked)
  OBVIOUS
<1>2. /\ dvAsked \in Seq(DeviceRequest) /\ dvAsked # <<>> /\ dvAsked' = Tail(dvAsked)
      /\ m \in DeviceRequest /\ dvAsked' \in Seq(DeviceRequest)
      /\ dvInbox \in Seq(DeviceMessage) /\ DeviceTypes /\ dvUp
  BY <1>1, TailFacts DEF DeviceInv, DeviceTypes, DeviceStages, V!Answered
<1>3. dvSubscribed' = (dvSubscribed \/ m.kind = "subscribe")
      /\ UNCHANGED <<value, devUp, dvUp, ids, rqId, snapshot, dvConnected, changes, missed>>
  BY <1>1 DEF V!Answered
<1>4. PICK r : r = V!Reply(m)
  OBVIOUS
<1>5. dvInbox' = IF m.kind = "subscribe" THEN dvInbox ELSE Append(dvInbox, r)
  BY <1>1, <1>4 DEF V!Answered
<1>6. m.kind \in {"subscribe", "status", "get"}
  BY <1>2 DEF DeviceRequest
<1>7. m.kind = "status" =>
        r = [kind |-> "status", id |-> m.id, error |-> ~devUp, val |-> value["status"]] /\ r \in DeviceMessage
  <2> SUFFICES ASSUME m.kind = "status"
      PROVE  r = [kind |-> "status", id |-> m.id, error |-> ~devUp, val |-> value["status"]] /\ r \in DeviceMessage
    OBVIOUS
  <2>1. r = [kind |-> "status", id |-> m.id, error |-> ~devUp, val |-> value["status"]]
    BY <1>4 DEF V!Reply
  <2>2. m.id \in Nat \ {0}
    BY <1>2 DEF DeviceRequest
  <2>3. value["status"] \in V!Values
    BY <1>2, ViewsAssumption DEF DeviceTypes, V!DeviceViewAssumption
  <2>4. PICK b \in BOOLEAN : b = ~devUp
    OBVIOUS
  <2>5. [kind |-> "status", id |-> m.id, error |-> b, val |-> value["status"]] \in DeviceMessage
    BY <2>2, <2>3 DEF DeviceMessage
  <2> QED BY <2>1, <2>4, <2>5
<1>8. m.kind = "get" =>
        /\ r = [kind |-> "get", path |-> m.path, error |-> ~devUp, val |-> value[m.path]]
        /\ r \in DeviceMessage /\ m.path \in ScreenPaths /\ m = GetOf(m.path)
  <2> SUFFICES ASSUME m.kind = "get"
      PROVE  /\ r = [kind |-> "get", path |-> m.path, error |-> ~devUp, val |-> value[m.path]]
             /\ r \in DeviceMessage /\ m.path \in ScreenPaths /\ m = GetOf(m.path)
    OBVIOUS
  <2>1. r = [kind |-> "get", path |-> m.path, error |-> ~devUp, val |-> value[m.path]]
    BY <1>4 DEF V!Reply
  <2>2. m.path \in ScreenPaths /\ m = GetOf(m.path)
    BY <1>2 DEF DeviceRequest, GetOf
  <2>3. PICK a \in ScreenPaths, b \in BOOLEAN, c \in V!Values : a = m.path /\ b = ~devUp /\ c = value[m.path]
    BY <1>2, <2>2 DEF DeviceTypes
  <2> QED BY <2>1, <2>2, <2>3 DEF DeviceMessage
<1>9. m.kind # "subscribe" => r \in DeviceMessage /\ dvInbox' = Append(dvInbox, r)
  BY <1>5, <1>6, <1>7, <1>8
<1>10. dvInbox' \in Seq(DeviceMessage)
  BY <1>2, <1>5, <1>9, QueueAppend
<1>11. DeviceTypes'
  BY <1>2, <1>3, <1>10 DEF DeviceTypes
<1>12. DeviceStages'
  BY <1>1, <1>2, <1>3 DEF DeviceInv, DeviceStages
<1>13. DeviceCurrent'
  <2> SUFFICES ASSUME ~missed, dvConnected, NEW p \in ScreenPaths, NoneIn(dvAsked', {GetOf(p)})
      PROVE  DeviceFollows(p)'
    BY <1>3 DEF DeviceCurrent
  <2>1. devUp /\ value' = value /\ snapshot' = snapshot
    BY <1>3 DEF DeviceInv, DeviceStages
  <2>2. NoneIn(dvAsked, {GetOf(p)}) <=> m # GetOf(p)
    BY <1>1, <1>2, QueueTail
  <2>3. CASE m = GetOf(p)
    <3>1. m.kind = "get" /\ m.path = p
      BY <2>3 DEF GetOf
    <3>2. r \in DeviceMessage /\ dvInbox' = Append(dvInbox, r)
      BY <1>8, <1>9, <3>1
    <3>3. r.kind = "get" /\ r.path = p /\ ~r.error /\ r.val = value[p]
      <4>1. (~devUp) = FALSE
        BY <2>1
      <4>2. r = [kind |-> "get", path |-> m.path, error |-> FALSE, val |-> value[m.path]]
        BY <1>8, <3>1, <4>1
      <4> QED BY <3>1, <4>2
    <3>4. r \in ValueOf(p) /\ r \in HasValue(value[p])
      BY <3>2, <3>3 DEF ValueOf, HasValue
    <3>5. LastIn(dvInbox', ShownAs(p), ValueOf(p), HasValue(value[p])) /\ ~NoneIn(dvInbox', ValueOf(p))
      BY <1>2, <3>2, <3>4, QueueAppend
    <3> QED BY <2>1, <3>5 DEF DeviceFollows
  <2>4. CASE m # GetOf(p)
    <3>1. DeviceFollows(p)
      BY <2>2, <2>4 DEF DeviceInv, DeviceCurrent
    <3>2. CASE m.kind = "subscribe"
      BY <1>5, <2>1, <3>1, <3>2 DEF DeviceFollows
    <3>3. CASE m.kind # "subscribe"
      <4>1. r \in DeviceMessage /\ dvInbox' = Append(dvInbox, r)
        BY <1>9, <3>3
      <4>2. r \notin ValueOf(p) /\ (r \in ShownAs(p) => r \in HasValue(value[p]))
        <5>1. CASE m.kind = "status"
          BY <1>7, <5>1 DEF ValueOf, ShownAs, HasValue
        <5>2. CASE m.kind = "get"
          BY <1>8, <2>4, <5>2 DEF ValueOf, ShownAs
        <5> QED BY <1>6, <3>3, <5>1, <5>2
      <4>3. LastIn(dvInbox', ShownAs(p), ValueOf(p), HasValue(value[p]))
        BY <1>2, <3>1, <4>1, <4>2, QueueAppend DEF DeviceFollows
      <4>4. NoneIn(dvInbox', ValueOf(p)) => NoneIn(dvInbox, ValueOf(p))
        BY <1>2, <4>1, QueueAppend
      <4> QED BY <2>1, <3>1, <4>3, <4>4 DEF DeviceFollows
    <3> QED BY <3>2, <3>3
  <2> QED BY <2>3, <2>4
<1> QED BY <1>11, <1>12, <1>13 DEF DeviceInv

LEMMA DeviceChangesStep ==
  ASSUME DeviceInv, V!DeviceChanges
  PROVE  DeviceInv'
<1>1. PICK q \in ScreenPaths :
        LET v == IF value[q] = "on" THEN "off" ELSE "on"
        IN  /\ value' = [value EXCEPT ![q] = v]
            /\ dvInbox' = IF devUp /\ dvSubscribed
                            THEN Append(dvInbox, [kind |-> "chng", path |-> q, error |-> FALSE, val |-> v]) ELSE dvInbox
  BY DEF V!DeviceChanges
<1>2. PICK v : v = IF value[q] = "on" THEN "off" ELSE "on"
  OBVIOUS
<1>3. PICK m : m = [kind |-> "chng", path |-> q, error |-> FALSE, val |-> v]
  OBVIOUS
<1>4. value' = [value EXCEPT ![q] = v]
      /\ dvInbox' = (IF devUp /\ dvSubscribed THEN Append(dvInbox, m) ELSE dvInbox)
  BY <1>1, <1>2, <1>3
<1>5. DeviceTypes /\ v \in V!Values /\ m \in DeviceMessage
      /\ UNCHANGED <<devUp, dvUp, dvSubscribed, dvAsked, ids, rqId, snapshot, dvConnected, missed>>
  BY <1>2, <1>3 DEF DeviceInv, V!Values, DeviceMessage, V!DeviceChanges
<1>6. value' \in [ScreenPaths -> V!Values] /\ value'[q] = v
      /\ \A p \in ScreenPaths : p # q => value'[p] = value[p]
  BY <1>4, <1>5 DEF DeviceTypes
<1>7. dvInbox' \in Seq(DeviceMessage)
  BY <1>4, <1>5, QueueAppend DEF DeviceTypes
<1>8. changes' \in 0 .. ScreenChanges
  BY <1>5, ViewsAssumption DEF DeviceTypes, V!DeviceChanges, V!DeviceViewAssumption
<1>9. DeviceTypes'
  BY <1>5, <1>6, <1>7, <1>8 DEF DeviceTypes
<1>10. DeviceStages'
  BY <1>4, <1>5 DEF DeviceInv, DeviceStages
<1>11. DeviceCurrent'
  <2> SUFFICES ASSUME ~missed, dvConnected, NEW p \in ScreenPaths, NoneIn(dvAsked, {GetOf(p)})
      PROVE  DeviceFollows(p)'
    BY <1>5 DEF DeviceCurrent
  <2>1. DeviceFollows(p) /\ snapshot' = snapshot
    BY <1>5 DEF DeviceInv, DeviceCurrent
  <2>2. dvInbox' = Append(dvInbox, m) /\ dvInbox \in Seq(DeviceMessage)
    BY <1>4, <1>5 DEF DeviceInv, DeviceStages, DeviceTypes
  <2>3. PICK u : u = value'[p]
    OBVIOUS
  <2>4. CASE p = q
    <3>1. m \in ValueOf(p) /\ m \in HasValue(u)
      BY <1>3, <1>5, <1>6, <2>3, <2>4 DEF ValueOf, HasValue
    <3>2. LastIn(dvInbox', ShownAs(p), ValueOf(p), HasValue(u)) /\ ~NoneIn(dvInbox', ValueOf(p))
      BY <1>5, <2>2, <3>1, QueueAppend
    <3> QED BY <2>3, <3>2 DEF DeviceFollows
  <2>5. CASE p # q
    <3>1. u = value[p] /\ m \notin ShownAs(p) /\ m \notin ValueOf(p)
      BY <1>3, <1>6, <2>3, <2>5 DEF ShownAs, ValueOf
    <3>2. LastIn(dvInbox, ShownAs(p), ValueOf(p), HasValue(u))
      BY <2>1, <3>1 DEF DeviceFollows
    <3>3. LastIn(dvInbox', ShownAs(p), ValueOf(p), HasValue(u))
          /\ (NoneIn(dvInbox', ValueOf(p)) => NoneIn(dvInbox, ValueOf(p)))
      BY <1>5, <2>2, <3>1, <3>2, QueueAppend
    <3> QED BY <2>1, <2>3, <3>1, <3>3 DEF DeviceFollows
  <2> QED BY <2>4, <2>5
<1> QED BY <1>9, <1>10, <1>11 DEF DeviceInv

LEMMA DeviceNext == DeviceInv /\ V!Next => DeviceInv'
  BY DeviceConnectionSteps, DeviceCheckStep, DeviceReceivedStep, DeviceAnsweredStep, DeviceChangesStep DEF V!Next

LEMMA DeviceSame == DeviceInv /\ UNCHANGED vVars => DeviceInv'
  BY DEF DeviceInv, DeviceTypes, DeviceStages, DeviceCurrent, DeviceFollows, vVars

LEMMA DeviceResult == DeviceInv => V!TypeOK /\ V!ShownIsCurrent
<1> SUFFICES ASSUME DeviceInv PROVE V!TypeOK /\ V!ShownIsCurrent
  OBVIOUS
<1>1. V!TypeOK
  BY DEF DeviceInv, DeviceTypes, V!TypeOK
<1>2. ASSUME dvConnected, ~missed, dvAsked = <<>>, dvInbox = <<>> PROVE snapshot = value
  <2>1. \A p \in ScreenPaths : NoneIn(dvAsked, {GetOf(p)}) /\ NoneIn(dvInbox, ValueOf(p))
    BY <1>2, QueueEmpty
  <2>2. \A p \in ScreenPaths : snapshot[p] = value[p]
    BY <1>2, <2>1 DEF DeviceInv, DeviceCurrent, DeviceFollows
  <2> QED BY <2>2 DEF DeviceInv, DeviceTypes
<1> QED BY <1>1, <1>2 DEF V!ShownIsCurrent

-----------------------------------------------------------------------------
(* The switches of the PLC.  From the answer to the last request on, what  *)
(* is on its way is what the PLC had in this period; once it has come, so  *)
(* is what is shown.                                                       *)

LEMMA AllWider ==
  ASSUME NEW w, NEW src, NEW good, NEW wider, good \subseteq wider
  PROVE  (AllIn(w, good) => AllIn(w, wider)) /\ (FromOn(w, src, good) => FromOn(w, src, wider))
BY DEF AllIn, FromOn

LEMMA AllConcat ==
  ASSUME NEW dom, NEW w \in Seq(dom), NEW more \in Seq(dom), NEW good, AllIn(w, good), AllIn(more, good)
  PROVE  w \o more \in Seq(dom) /\ AllIn(w \o more, good)
<1>1. PICK v : v = w \o more
  OBVIOUS
<1>2. PICK n \in Nat, k \in Nat : n = Len(w) /\ k = Len(more)
  BY LenProperties
<1>3. /\ v \in Seq(dom) /\ Len(v) = n + k
      /\ \A i \in 1 .. n + k : v[i] = IF i <= n THEN w[i] ELSE more[i - n]
  BY <1>1, <1>2, ConcatProperties
<1>4. ASSUME NEW i \in 1 .. n + k PROVE v[i] \in good
  <2>1. CASE i <= n
    <3>1. i \in 1 .. n
      BY <2>1
    <3> QED BY <1>2, <1>3, <2>1, <3>1 DEF AllIn
  <2>2. CASE ~(i <= n)
    <3>1. i - n \in 1 .. k
      BY <2>2
    <3> QED BY <1>2, <1>3, <2>2, <3>1 DEF AllIn
  <2> QED BY <2>1, <2>2
<1> QED BY <1>1, <1>3, <1>4 DEF AllIn

PlcRequest ==
  {[kind |-> "subscribe"]} \cup [kind : {"get"}, id : Nat \ {0}] \cup
  [kind : {"set"}, switch : PlcSwitches, val : {"On", "Off"}]

PlcMessage ==
  [kind : {"rsp"}, id : Nat \ {0}, error : BOOLEAN, val : P!All] \cup [kind : {"chng"}, val : P!All]

NoGet == {m \in PlcRequest : m.kind # "get"}
RequestsUpTo(n) == {m \in PlcRequest : m.kind = "get" => m.id <= n}
AnswersUpTo(n) == {m \in PlcMessage : m.kind = "rsp" => m.id <= n}
AnswerTo(n) == {m \in PlcMessage : m.kind = "rsp" /\ m.id = n}
ValueIn(set) == {m \in PlcMessage : m.val \in set}

PlcTypes ==
  /\ plc \in P!All
  /\ bfsStatus \in [PlcSwitches -> P!SwitchStatus] /\ required \in [PlcSwitches -> P!SwitchStatus]
  /\ plcUp \in BOOLEAN /\ pvUp \in BOOLEAN /\ pvSubscribed \in BOOLEAN /\ plcConnected \in BOOLEAN
  /\ blink \in [PlcSwitches -> BOOLEAN]
  /\ pvRqId \in -1 .. PlcIds /\ pvIds \in 0 .. PlcIds
  /\ pvAsked \in Seq(PlcRequest) /\ pvInbox \in Seq(PlcMessage)
  /\ recent \in [now : SUBSET P!All, before : SUBSET P!All]

PlcStages ==
  /\ ~pvUp => ~pvSubscribed /\ pvAsked = <<>> /\ pvInbox = <<>>
  /\ AllIn(pvAsked, RequestsUpTo(pvIds)) /\ AllIn(pvInbox, AnswersUpTo(pvIds))

PlcKnown ==
  /\ FromOn(pvInbox, AnswerTo(pvRqId), ValueIn(recent.now))
  /\ pvRqId = 0 => AllIn(pvInbox, ValueIn(recent.now)) /\ bfsStatus \in recent.now
  /\ plcConnected => bfsStatus \in P!All
  /\ pvUp /\ plcConnected =>
       AllIn(pvInbox, ValueIn(recent.now \cup recent.before)) /\ bfsStatus \in recent.now \cup recent.before

PlcInv == PlcTypes /\ PlcStages /\ PlcKnown

LEMMA PlcInitially == P!Init => PlcInv
<1> SUFFICES ASSUME P!Init PROVE PlcInv
  OBVIOUS
<1>1. PlcTypes
  <2>1. -1 \in -1 .. PlcIds /\ 0 \in 0 .. PlcIds
    BY ViewsAssumption DEF P!PlcViewAssumption
  <2>2. pvRqId = -1 /\ pvIds = 0 /\ pvAsked = <<>> /\ pvInbox = <<>>
    BY DEF P!Init
  <2>3. <<>> \in Seq(PlcRequest) /\ <<>> \in Seq(PlcMessage)
    BY EmptySeq
  <2>4. plc \in P!All /\ recent \in [now : SUBSET P!All, before : SUBSET P!All]
    BY DEF P!Init, P!All
  <2>5. /\ bfsStatus \in [PlcSwitches -> P!SwitchStatus] /\ required \in [PlcSwitches -> P!SwitchStatus]
        /\ plcUp \in BOOLEAN /\ pvUp \in BOOLEAN /\ pvSubscribed \in BOOLEAN /\ plcConnected \in BOOLEAN
        /\ blink \in [PlcSwitches -> BOOLEAN]
    BY DEF P!Init, P!SwitchStatus
  <2> QED BY <2>1, <2>2, <2>3, <2>4, <2>5 DEF PlcTypes
<1>2. PlcStages /\ PlcKnown
  <2>1. ~pvUp /\ ~pvSubscribed /\ pvAsked = <<>> /\ pvInbox = <<>> /\ pvRqId # 0 /\ ~plcConnected
    BY DEF P!Init
  <2>2. AllIn(pvAsked, RequestsUpTo(pvIds)) /\ AllIn(pvInbox, AnswersUpTo(pvIds))
        /\ FromOn(pvInbox, AnswerTo(pvRqId), ValueIn(recent.now))
    BY <2>1, QueueEmpty
  <2> QED BY <2>1, <2>2 DEF PlcStages, PlcKnown
<1> QED BY <1>1, <1>2 DEF PlcInv

(* A request that is sent has an id that no answer on its way has.         *)
LEMMA PlcRequestSent ==
  ASSUME PlcInv, NEW ahead \in Seq(PlcRequest), AllIn(ahead, NoGet),
         P!SendGetStatusRequest(ahead), NEW set
  PROVE  /\ pvRqId' \in -1 .. PlcIds /\ pvRqId' # 0 /\ pvIds' \in 0 .. PlcIds
         /\ pvAsked' \in Seq(PlcRequest) /\ AllIn(pvAsked', RequestsUpTo(pvIds'))
         /\ AllIn(pvInbox, AnswersUpTo(pvIds')) /\ FromOn(pvInbox, AnswerTo(pvRqId'), ValueIn(set))
<1>1. /\ pvIds \in Nat /\ pvIds < PlcIds /\ PlcIds \in Nat /\ pvIds' = pvIds + 1 /\ pvRqId' = pvIds + 1
      /\ pvAsked' = pvAsked \o ahead \o <<[kind |-> "get", id |-> pvIds + 1]>>
  BY ViewsAssumption DEF P!PlcViewAssumption, P!SendGetStatusRequest, PlcInv, PlcTypes
<1>2. PICK n \in Nat : n = pvIds + 1 /\ pvIds <= n /\ n # 0 /\ pvIds < n
  BY <1>1
<1>3. /\ AllIn(pvAsked, RequestsUpTo(pvIds)) /\ AllIn(pvInbox, AnswersUpTo(pvIds))
      /\ pvAsked \in Seq(PlcRequest) /\ pvInbox \in Seq(PlcMessage)
  BY DEF PlcInv, PlcStages, PlcTypes
<1>4. RequestsUpTo(pvIds) \subseteq RequestsUpTo(n)
  <2>1. ASSUME NEW m \in PlcRequest, m.kind = "get" PROVE m.id \in Nat
    BY <2>1 DEF PlcRequest
  <2> QED BY <1>1, <1>2, <2>1 DEF RequestsUpTo
<1>5. AnswersUpTo(pvIds) \subseteq AnswersUpTo(n)
  <2> SUFFICES ASSUME NEW m \in PlcMessage, m.kind = "rsp" => m.id <= pvIds
      PROVE  m.kind = "rsp" => m.id <= n
    BY DEF AnswersUpTo
  <2>1. m.kind = "rsp" => m.id \in Nat
    BY DEF PlcMessage
  <2> QED BY <1>1, <1>2, <2>1
<1>6. PICK r : r = [kind |-> "get", id |-> n]
  OBVIOUS
<1>7. r \in PlcRequest /\ r \in RequestsUpTo(n)
  BY <1>2, <1>6 DEF PlcRequest, RequestsUpTo
<1>8. PICK more : more = <<r>>
  OBVIOUS
<1>9. more \in Seq(PlcRequest) /\ AllIn(more, RequestsUpTo(n))
  <2>1. Len(more) = 1 /\ more[1] = r /\ more \in Seq(PlcRequest)
    BY <1>7, <1>8
  <2> QED BY <1>7, <2>1 DEF AllIn
<1>10. PICK all : all = pvAsked \o ahead
  OBVIOUS
<1>11. all \in Seq(PlcRequest) /\ AllIn(all, RequestsUpTo(n))
  <2>1. AllIn(pvAsked, RequestsUpTo(n))
    BY <1>3, <1>4, AllWider
  <2>2. NoGet \subseteq RequestsUpTo(n)
    BY DEF NoGet, RequestsUpTo
  <2>3. AllIn(ahead, RequestsUpTo(n))
    BY <2>2, AllWider
  <2> QED BY <1>3, <1>10, <2>1, <2>3, AllConcat
<1>12. pvAsked' = all \o more
  BY <1>1, <1>2, <1>6, <1>8, <1>10
<1>13. pvAsked' \in Seq(PlcRequest) /\ AllIn(pvAsked', RequestsUpTo(n))
  BY <1>9, <1>11, <1>12, AllConcat
<1>14. AllIn(pvInbox, AnswersUpTo(n))
  BY <1>3, <1>5, AllWider
<1>15. FromOn(pvInbox, AnswerTo(n), ValueIn(set))
  <2>1. ASSUME NEW m \in AnswersUpTo(pvIds) PROVE m \notin AnswerTo(n)
    BY <1>1, <1>2 DEF AnswersUpTo, AnswerTo
  <2> QED BY <1>3, <2>1 DEF AllIn, FromOn
<1>16. pvIds' = n /\ pvRqId' = n /\ n \in -1 .. PlcIds /\ n \in 0 .. PlcIds
  BY <1>1, <1>2
<1> QED BY <1>2, <1>13, <1>14, <1>15, <1>16

LEMMA PlcConnectedStep ==
  ASSUME PlcInv, P!BrokerConnected
  PROVE  PlcInv'
<1>1. PICK r : r = [kind |-> "subscribe"]
  OBVIOUS
<1>2. PICK ahead : ahead = <<r>>
  OBVIOUS
<1>3. r \in PlcRequest /\ r \in NoGet
  BY <1>1 DEF PlcRequest, NoGet
<1>4. ahead \in Seq(PlcRequest) /\ AllIn(ahead, NoGet)
  <2>1. Len(ahead) = 1 /\ ahead[1] = r /\ ahead \in Seq(PlcRequest)
    BY <1>2, <1>3
  <2> QED BY <1>3, <2>1 DEF AllIn
<1>5. P!SendGetStatusRequest(ahead)
  BY <1>1, <1>2 DEF P!BrokerConnected
<1>6. PICK before \in SUBSET P!All, old \in SUBSET P!All :
        before = P!All /\ old = {plc} /\ recent' = [now |-> old, before |-> before]
  BY DEF PlcInv, PlcTypes, P!BrokerConnected
<1>7. recent'.now = old /\ recent'.before = before /\ recent' \in [now : SUBSET P!All, before : SUBSET P!All]
  BY <1>6
<1>8. /\ pvRqId' \in -1 .. PlcIds /\ pvRqId' # 0 /\ pvIds' \in 0 .. PlcIds
      /\ pvAsked' \in Seq(PlcRequest) /\ AllIn(pvAsked', RequestsUpTo(pvIds'))
      /\ AllIn(pvInbox, AnswersUpTo(pvIds')) /\ FromOn(pvInbox, AnswerTo(pvRqId'), ValueIn(old))
  BY <1>4, <1>5, PlcRequestSent
<1>9. ~pvUp /\ pvUp' /\ UNCHANGED <<plc, plcUp, pvSubscribed, pvInbox, bfsStatus, plcConnected, required, blink>>
  BY DEF P!BrokerConnected
<1>10. PlcTypes'
  BY <1>7, <1>8, <1>9 DEF PlcInv, PlcTypes, P!BrokerConnected
<1>11. PlcStages'
  BY <1>8, <1>9 DEF PlcStages
<1>12. PlcKnown'
  <2>1. pvInbox = <<>> /\ (plcConnected => bfsStatus \in P!All)
    BY <1>9 DEF PlcInv, PlcStages, PlcKnown
  <2>2. AllIn(pvInbox, ValueIn(recent'.now \cup recent'.before))
    BY <2>1, QueueEmpty
  <2>3. plcConnected => bfsStatus \in recent'.now \cup recent'.before
    BY <1>6, <1>7, <2>1
  <2> QED BY <1>7, <1>8, <1>9, <2>1, <2>2, <2>3 DEF PlcKnown
<1> QED BY <1>10, <1>11, <1>12 DEF PlcInv

LEMMA PlcCheckStep ==
  ASSUME PlcInv, P!CheckPlcConnected
  PROVE  PlcInv'
<1>1. PICK ahead : ahead = <<>>
  OBVIOUS
<1>2. ahead \in Seq(PlcRequest) /\ AllIn(ahead, NoGet) /\ P!SendGetStatusRequest(ahead)
  BY <1>1, EmptySeq, QueueEmpty DEF P!CheckPlcConnected
<1>3. PICK old \in SUBSET P!All, before \in SUBSET P!All :
        old = {plc} /\ before = recent.now /\ recent' = [now |-> old, before |-> before]
  BY DEF PlcInv, PlcTypes, P!CheckPlcConnected
<1>4. recent'.now = old /\ recent'.before = before /\ recent' \in [now : SUBSET P!All, before : SUBSET P!All]
  BY <1>3
<1>5. /\ pvRqId' \in -1 .. PlcIds /\ pvRqId' # 0 /\ pvIds' \in 0 .. PlcIds
      /\ pvAsked' \in Seq(PlcRequest) /\ AllIn(pvAsked', RequestsUpTo(pvIds'))
      /\ AllIn(pvInbox, AnswersUpTo(pvIds')) /\ FromOn(pvInbox, AnswerTo(pvRqId'), ValueIn(old))
  BY <1>2, PlcRequestSent
<1>6. pvUp /\ plcConnected' = (pvRqId = 0)
      /\ UNCHANGED <<plc, plcUp, pvUp, pvSubscribed, pvInbox, bfsStatus, required, blink>>
  BY DEF P!CheckPlcConnected
<1>7. PlcTypes'
  BY <1>4, <1>5, <1>6 DEF PlcInv, PlcTypes
<1>8. PlcStages'
  BY <1>5, <1>6 DEF PlcInv, PlcStages
<1>9. PlcKnown'
  <2> SUFFICES ASSUME pvRqId = 0
      PROVE  /\ bfsStatus \in P!All /\ bfsStatus \in recent'.now \cup recent'.before
             /\ AllIn(pvInbox, ValueIn(recent'.now \cup recent'.before))
    BY <1>4, <1>5, <1>6 DEF PlcKnown
  <2>1. AllIn(pvInbox, ValueIn(before)) /\ bfsStatus \in before
    BY <1>3 DEF PlcInv, PlcKnown
  <2>2. ValueIn(before) \subseteq ValueIn(old \cup before)
    BY DEF ValueIn
  <2>3. AllIn(pvInbox, ValueIn(old \cup before))
    BY <2>1, <2>2, AllWider
  <2> QED BY <1>4, <2>1, <2>3
<1> QED BY <1>7, <1>8, <1>9 DEF PlcInv

LEMMA PlcLostStep ==
  ASSUME PlcInv, P!BrokerDisconnected
  PROVE  PlcInv'
<1>1. PlcTypes'
  BY EmptySeq DEF PlcInv, PlcTypes, P!BrokerDisconnected
<1>2. PlcStages'
  BY QueueEmpty DEF PlcStages, P!BrokerDisconnected
<1>3. PlcKnown'
  <2>1. FromOn(pvInbox', AnswerTo(pvRqId), ValueIn(recent.now)) /\ AllIn(pvInbox', ValueIn(recent.now))
    BY QueueEmpty DEF P!BrokerDisconnected
  <2> QED BY <2>1 DEF PlcInv, PlcKnown, P!BrokerDisconnected
<1> QED BY <1>1, <1>2, <1>3 DEF PlcInv

(* The switches that blink are not what a status of the PLC depends on.    *)
LEMMA StatusSet ==
  ASSUME PlcInv, NEW val \in P!All, P!SetBfsStatus(val)
  PROVE  /\ bfsStatus' = val /\ bfsStatus' \in [PlcSwitches -> P!SwitchStatus]
         /\ required' \in [PlcSwitches -> P!SwitchStatus] /\ blink' \in [PlcSwitches -> BOOLEAN]
<1>1. bfsStatus' = val /\ bfsStatus' \in [PlcSwitches -> P!SwitchStatus]
  BY DEF P!SetBfsStatus, P!All, P!SwitchStatus
<1>2. required \in [PlcSwitches -> P!SwitchStatus] /\ blink \in [PlcSwitches -> BOOLEAN]
  BY DEF PlcInv, PlcTypes
<1>3. PICK reached : reached =
        {s \in PlcSwitches : val # bfsStatus /\ required[s] # "Unknown" /\ required[s] = val[s]}
  OBVIOUS
<1>4. /\ required' = [s \in PlcSwitches |-> IF s \in reached THEN "Unknown" ELSE required[s]]
      /\ blink' = [s \in PlcSwitches |-> IF s \in reached
                     THEN P!OnRequiredSwitchStatusChanged(s, "Unknown", val) ELSE blink[s]]
  BY <1>3 DEF P!SetBfsStatus
<1>5. required' \in [PlcSwitches -> P!SwitchStatus]
  BY <1>2, <1>4 DEF P!SwitchStatus
<1>6. blink' \in [PlcSwitches -> BOOLEAN]
  BY <1>2, <1>4 DEF P!OnRequiredSwitchStatusChanged
<1> QED BY <1>1, <1>5, <1>6

LEMMA PlcReceiveStep ==
  ASSUME PlcInv, P!Receive
  PROVE  PlcInv'
<1>1. PICK m : m = Head(pvInbox)
  OBVIOUS
<1>2. /\ pvInbox \in Seq(PlcMessage) /\ pvInbox # <<>> /\ pvInbox' = Tail(pvInbox)
      /\ m \in PlcMessage /\ pvInbox' \in Seq(PlcMessage)
      /\ P!OnRpcMessageReceived(m) /\ UNCHANGED <<plc, plcUp, pvUp, pvSubscribed, pvAsked, pvIds, recent>>
  BY <1>1, TailFacts DEF PlcInv, PlcTypes, P!Receive
<1>3. pvUp /\ PlcTypes /\ 0 \in -1 .. PlcIds
  BY <1>2, ViewsAssumption DEF PlcInv, PlcStages, PlcTypes, P!PlcViewAssumption
<1>4. /\ m.kind \in {"rsp", "chng"} /\ m.val \in P!All
      /\ m.kind = "rsp" => m.id \in Nat \ {0} /\ m.error \in BOOLEAN
  BY <1>2 DEF PlcMessage
<1>5. PlcStages'
  <2>1. AllIn(pvInbox', AnswersUpTo(pvIds))
    BY <1>2, QueueTail DEF PlcInv, PlcStages
  <2> QED BY <1>2, <1>3, <2>1 DEF PlcInv, PlcStages
<1>6. PICK old, all : old = recent.now /\ all = recent.now \cup recent.before
  OBVIOUS
<1>7. /\ FromOn(pvInbox, AnswerTo(pvRqId), ValueIn(old))
      /\ pvRqId = 0 => AllIn(pvInbox, ValueIn(old)) /\ bfsStatus \in old
      /\ plcConnected => bfsStatus \in P!All
      /\ plcConnected => AllIn(pvInbox, ValueIn(all)) /\ bfsStatus \in all
  BY <1>3, <1>6 DEF PlcInv, PlcKnown
<1>8. ValueIn(old) \subseteq ValueIn(all) /\ old \subseteq all
  BY <1>6 DEF ValueIn
<1>9. \A set : /\ AllIn(pvInbox, ValueIn(set)) => AllIn(pvInbox', ValueIn(set)) /\ m.val \in set
  <2> TAKE set
  <2>1. AllIn(pvInbox, ValueIn(set)) => AllIn(pvInbox', ValueIn(set)) /\ m \in ValueIn(set)
    BY <1>1, <1>2, QueueTail
  <2> QED BY <2>1 DEF ValueIn
<1>10. FromOn(pvInbox', AnswerTo(pvRqId), ValueIn(old))
  BY <1>2, <1>7, QueueTail
<1>11. CASE m.kind = "rsp" /\ m.id = pvRqId /\ ~m.error
  <2>1. P!SetBfsStatus(m.val) /\ plcConnected' = TRUE /\ pvRqId' = 0
    BY <1>2, <1>11 DEF P!OnRpcMessageReceived
  <2>2. /\ bfsStatus' = m.val /\ bfsStatus' \in [PlcSwitches -> P!SwitchStatus]
        /\ required' \in [PlcSwitches -> P!SwitchStatus] /\ blink' \in [PlcSwitches -> BOOLEAN]
    BY <1>4, <2>1, StatusSet
  <2>3. m \in AnswerTo(pvRqId)
    BY <1>2, <1>11 DEF AnswerTo
  <2>4. AllIn(pvInbox, ValueIn(old))
    BY <1>1, <1>2, <1>7, <2>3, QueueTail
  <2>5. AllIn(pvInbox', ValueIn(old)) /\ m.val \in old
    BY <1>9, <2>4
  <2>6. AllIn(pvInbox', ValueIn(all)) /\ m.val \in all
    BY <1>8, <2>5, AllWider
  <2>7. FromOn(pvInbox', AnswerTo(0), ValueIn(old))
    BY <2>5 DEF FromOn, AllIn
  <2>8. PlcTypes'
    BY <1>2, <1>3, <2>1, <2>2 DEF PlcTypes
  <2>9. PlcKnown'
    BY <1>2, <1>4, <1>6, <2>1, <2>2, <2>5, <2>6, <2>7 DEF PlcKnown
  <2> QED BY <1>5, <2>8, <2>9 DEF PlcInv
<1>12. CASE m.kind = "rsp" /\ ~(m.id = pvRqId /\ ~m.error)
  <2>1. /\ UNCHANGED <<bfsStatus, required, blink, pvRqId>>
        /\ plcConnected' \in BOOLEAN /\ (plcConnected' => plcConnected)
    BY <1>2, <1>3, <1>4, <1>12 DEF P!OnRpcMessageReceived, PlcTypes
  <2>2. PlcTypes'
    BY <1>2, <1>3, <2>1 DEF PlcTypes
  <2>3. PlcKnown'
    BY <1>2, <1>6, <1>7, <1>9, <1>10, <2>1 DEF PlcKnown
  <2> QED BY <1>5, <2>2, <2>3 DEF PlcInv
<1>13. CASE m.kind = "chng"
  <2>1. P!SetBfsStatus(m.val) /\ UNCHANGED <<plcConnected, pvRqId>>
    BY <1>2, <1>13 DEF P!OnRpcMessageReceived
  <2>2. /\ bfsStatus' = m.val /\ bfsStatus' \in [PlcSwitches -> P!SwitchStatus]
        /\ required' \in [PlcSwitches -> P!SwitchStatus] /\ blink' \in [PlcSwitches -> BOOLEAN]
    BY <1>4, <2>1, StatusSet
  <2>3. PlcTypes'
    BY <1>2, <1>3, <2>1, <2>2 DEF PlcTypes
  <2>4. PlcKnown'
    BY <1>2, <1>4, <1>6, <1>7, <1>9, <1>10, <2>1, <2>2 DEF PlcKnown
  <2> QED BY <1>5, <2>3, <2>4 DEF PlcInv
<1> QED BY <1>4, <1>11, <1>12, <1>13

LEMMA PlcMenuStep ==
  ASSUME PlcInv, P!Menu
  PROVE  PlcInv'
<1>1. PICK s \in PlcSwitches, val \in P!SwitchStatus : val \in P!Offered(s) /\ P!SetSwitch(s, val)
  BY DEF P!Menu
<1>2. PICK r : r = [kind |-> "set", switch |-> s, val |-> val]
  OBVIOUS
<1>3. val \in {"On", "Off"} /\ r \in PlcRequest /\ (\A n \in Nat : r \in RequestsUpTo(n))
  <2>1. val \in {"On", "Off"}
    BY <1>1 DEF P!Offered
  <2>2. r \in PlcRequest /\ r.kind # "get"
    BY <1>2, <2>1 DEF PlcRequest
  <2> QED BY <2>1, <2>2 DEF RequestsUpTo
<1>4. /\ PlcTypes /\ pvUp /\ pvAsked' = Append(pvAsked, r) /\ pvAsked \in Seq(PlcRequest)
      /\ UNCHANGED <<plc, plcUp, pvUp, pvSubscribed, pvInbox, pvIds, pvRqId, bfsStatus, plcConnected, recent>>
  BY <1>1, <1>2 DEF PlcInv, PlcTypes, P!SetSwitch
<1>5. required' \in [PlcSwitches -> P!SwitchStatus]
  BY <1>1, <1>4 DEF PlcTypes, P!SetSwitch
<1>6. blink' \in [PlcSwitches -> BOOLEAN]
  <2>1. P!OnRequiredSwitchStatusChanged(s, val, bfsStatus) \in BOOLEAN
    BY DEF P!OnRequiredSwitchStatusChanged
  <2> QED BY <1>1, <1>4, <2>1 DEF PlcTypes, P!SetSwitch
<1>7. PlcTypes'
  <2>1. pvAsked' \in Seq(PlcRequest)
    BY <1>3, <1>4, QueueAppend
  <2> QED BY <1>4, <1>5, <1>6, <2>1 DEF PlcTypes
<1>8. PlcStages'
  <2>1. AllIn(pvAsked, RequestsUpTo(pvIds)) /\ pvIds \in Nat
    BY <1>4 DEF PlcInv, PlcStages, PlcTypes
  <2>2. r \in RequestsUpTo(pvIds)
    BY <1>3, <2>1
  <2>3. AllIn(pvAsked', RequestsUpTo(pvIds))
    BY <1>3, <1>4, <2>1, <2>2, QueueAppend
  <2> QED BY <1>4, <2>3 DEF PlcInv, PlcStages
<1>9. PlcKnown'
  BY <1>4 DEF PlcInv, PlcKnown
<1> QED BY <1>7, <1>8, <1>9 DEF PlcInv

(* What the PLC sends is what it has.                                      *)
LEMMA PlcSends ==
  ASSUME PlcInv, plc' \in P!All, recent' = [recent EXCEPT !.now = @ \cup {plc'}], NEW m,
         \/ pvInbox' = pvInbox
         \/ pvInbox' = Append(pvInbox, m) /\ m \in AnswersUpTo(pvIds) /\ m.val = plc',
         UNCHANGED <<plcUp, pvUp, pvIds, pvRqId, bfsStatus, plcConnected, required, blink>>
  PROVE  /\ pvInbox' \in Seq(PlcMessage) /\ recent' \in [now : SUBSET P!All, before : SUBSET P!All]
         /\ AllIn(pvInbox', AnswersUpTo(pvIds)) /\ PlcKnown'
<1>1. PICK old, grown, before, all, wide :
        /\ old = recent.now /\ before = recent.before /\ grown = old \cup {plc'}
        /\ all = old \cup before /\ wide = grown \cup before
  OBVIOUS
<1>2. PICK now0 \in SUBSET P!All, before0 \in SUBSET P!All : recent = [now |-> now0, before |-> before0]
  BY DEF PlcInv, PlcTypes
<1>3. recent' = [now |-> now0 \cup {plc'}, before |-> before0]
  BY <1>2
<1>4. recent'.now = grown /\ recent'.before = before /\ recent' \in [now : SUBSET P!All, before : SUBSET P!All]
  BY <1>1, <1>2, <1>3
<1>5. pvInbox \in Seq(PlcMessage) /\ AllIn(pvInbox, AnswersUpTo(pvIds))
      /\ (m \in AnswersUpTo(pvIds) => m \in PlcMessage)
  BY DEF PlcInv, PlcTypes, PlcStages, AnswersUpTo
<1>6. pvInbox' \in Seq(PlcMessage) /\ AllIn(pvInbox', AnswersUpTo(pvIds))
  <2>1. CASE pvInbox' = pvInbox
    BY <1>5, <2>1
  <2>2. CASE pvInbox' = Append(pvInbox, m) /\ m \in AnswersUpTo(pvIds)
    BY <1>5, <2>2, QueueAppend
  <2> QED BY <2>1, <2>2
<1>7. ASSUME NEW small, NEW large, small \subseteq large, plc' \in large
      PROVE  /\ AllIn(pvInbox, ValueIn(small)) => AllIn(pvInbox', ValueIn(large))
             /\ \A src : FromOn(pvInbox, src, ValueIn(small)) => FromOn(pvInbox', src, ValueIn(large))
  <2>1. ValueIn(small) \subseteq ValueIn(large)
    BY <1>7 DEF ValueIn
  <2>2. m \in AnswersUpTo(pvIds) /\ m.val = plc' => m \in ValueIn(large)
    BY <1>5, <1>7 DEF ValueIn
  <2>3. AllIn(pvInbox, ValueIn(small)) => AllIn(pvInbox, ValueIn(large))
    BY <2>1, AllWider
  <2>4. AllIn(pvInbox, ValueIn(large)) => AllIn(pvInbox', ValueIn(large))
    <3>1. CASE pvInbox' = pvInbox
      BY <3>1
    <3>2. CASE pvInbox' = Append(pvInbox, m) /\ m \in AnswersUpTo(pvIds) /\ m.val = plc'
      BY <1>5, <2>2, <3>2, QueueAppend
    <3> QED BY <3>1, <3>2
  <2>5. ASSUME NEW src, FromOn(pvInbox, src, ValueIn(small)) PROVE FromOn(pvInbox', src, ValueIn(large))
    <3>1. FromOn(pvInbox, src, ValueIn(large))
      BY <2>1, <2>5, AllWider
    <3>2. CASE pvInbox' = pvInbox
      BY <3>1, <3>2
    <3>3. CASE pvInbox' = Append(pvInbox, m) /\ m \in AnswersUpTo(pvIds) /\ m.val = plc'
      BY <1>5, <2>2, <3>1, <3>3, QueueAppend
    <3> QED BY <3>2, <3>3
  <2> QED BY <2>3, <2>4, <2>5
<1>8. old \subseteq grown /\ plc' \in grown /\ all \subseteq wide /\ plc' \in wide
  BY <1>1
<1>9. /\ FromOn(pvInbox, AnswerTo(pvRqId), ValueIn(old))
      /\ pvRqId = 0 => AllIn(pvInbox, ValueIn(old)) /\ bfsStatus \in old
      /\ plcConnected => bfsStatus \in P!All
      /\ pvUp /\ plcConnected => AllIn(pvInbox, ValueIn(all)) /\ bfsStatus \in all
  BY <1>1 DEF PlcInv, PlcKnown
<1>10. /\ FromOn(pvInbox', AnswerTo(pvRqId), ValueIn(grown))
       /\ pvRqId = 0 => AllIn(pvInbox', ValueIn(grown)) /\ bfsStatus \in grown
       /\ pvUp /\ plcConnected => AllIn(pvInbox', ValueIn(wide)) /\ bfsStatus \in wide
  BY <1>7, <1>8, <1>9
<1>11. PlcKnown'
  BY <1>1, <1>4, <1>9, <1>10 DEF PlcKnown
<1> QED BY <1>4, <1>6, <1>11

LEMMA SignalSent ==
  ASSUME PlcInv, NEW val \in P!All
  PROVE  \E m : /\ P!Signal(val) = pvInbox \/ (pvSubscribed /\ P!Signal(val) = Append(pvInbox, m))
                /\ m \in AnswersUpTo(pvIds) /\ m.val = val
<1>1. PICK m : m = [kind |-> "chng", val |-> val]
  OBVIOUS
<1>2. m \in AnswersUpTo(pvIds) /\ m.val = val
  BY <1>1 DEF AnswersUpTo, PlcMessage
<1>3. P!Signal(val) = pvInbox \/ (pvSubscribed /\ P!Signal(val) = Append(pvInbox, m))
  BY <1>1 DEF P!Signal
<1> QED BY <1>2, <1>3

LEMMA PlcChangesStep ==
  ASSUME PlcInv, P!PlcChanges \/ P!PlcConnection
  PROVE  PlcInv'
<1>1. CASE P!PlcChanges
  <2>1. plc' \in P!All
    BY <1>1 DEF PlcInv, PlcTypes, P!PlcChanges, P!All
  <2>2. PICK val : val = plc'
    OBVIOUS
  <2>3. pvInbox' = P!Signal(val) /\ recent' = [recent EXCEPT !.now = @ \cup {plc'}]
        /\ UNCHANGED <<plcUp, pvUp, pvSubscribed, pvAsked, pvIds, pvRqId, bfsStatus, plcConnected, required, blink>>
    BY <1>1, <2>2 DEF P!PlcChanges
  <2>4. PICK m : /\ pvInbox' = pvInbox \/ (pvSubscribed /\ pvInbox' = Append(pvInbox, m))
                 /\ m \in AnswersUpTo(pvIds) /\ m.val = plc'
    BY <2>1, <2>2, <2>3, SignalSent
  <2>5. /\ pvInbox' \in Seq(PlcMessage) /\ recent' \in [now : SUBSET P!All, before : SUBSET P!All]
        /\ AllIn(pvInbox', AnswersUpTo(pvIds)) /\ PlcKnown'
    BY <2>1, <2>3, <2>4, PlcSends
  <2>6. PlcTypes'
    BY <2>1, <2>3, <2>5 DEF PlcInv, PlcTypes
  <2>7. PlcStages'
    BY <2>3, <2>4, <2>5 DEF PlcInv, PlcStages
  <2> QED BY <2>5, <2>6, <2>7 DEF PlcInv
<1>2. CASE P!PlcConnection
  <2>1. PlcTypes'
    BY <1>2 DEF PlcInv, PlcTypes, P!PlcConnection
  <2>2. PlcStages' /\ PlcKnown'
    BY <1>2 DEF PlcInv, PlcStages, PlcKnown, P!PlcConnection
  <2> QED BY <2>1, <2>2 DEF PlcInv
<1> QED BY <1>1, <1>2

LEMMA PlcAnsweredStep ==
  ASSUME PlcInv, P!Answered
  PROVE  PlcInv'
<1>1. PICK r : r = Head(pvAsked)
  OBVIOUS
<1>2. /\ pvAsked \in Seq(PlcRequest) /\ pvAsked # <<>> /\ pvAsked' = Tail(pvAsked)
      /\ r \in PlcRequest /\ pvAsked' \in Seq(PlcRequest) /\ PlcTypes /\ pvUp
  BY <1>1, TailFacts DEF PlcInv, PlcTypes, PlcStages, P!Answered
<1>3. /\ pvSubscribed' = (pvSubscribed \/ r.kind = "subscribe")
      /\ plc' = IF r.kind = "set" /\ plcUp THEN [plc EXCEPT ![r.switch] = r.val] ELSE plc
      /\ pvInbox' = CASE r.kind = "get" ->
                           Append(pvInbox, [kind |-> "rsp", id |-> r.id, error |-> ~plcUp, val |-> plc])
                      [] r.kind = "set" /\ plcUp /\ plc[r.switch] # r.val -> P!Signal(plc')
                      [] OTHER -> pvInbox
      /\ recent' = [recent EXCEPT !.now = @ \cup {plc'}]
      /\ UNCHANGED <<plcUp, pvUp, pvIds, pvRqId, bfsStatus, plcConnected, required, blink>>
  BY <1>1 DEF P!Answered
<1>4. AllIn(pvAsked', RequestsUpTo(pvIds)) /\ r \in RequestsUpTo(pvIds)
  BY <1>1, <1>2, QueueTail DEF PlcInv, PlcStages
<1>5. plc' \in P!All
  <2>1. r.kind = "set" => r.switch \in PlcSwitches /\ r.val \in {"On", "Off"}
    BY <1>2 DEF PlcRequest
  <2>2. plc \in P!All
    BY <1>2 DEF PlcTypes
  <2> QED BY <1>3, <2>1, <2>2 DEF P!All
<1>6. \E m : \/ pvInbox' = pvInbox
             \/ pvInbox' = Append(pvInbox, m) /\ m \in AnswersUpTo(pvIds) /\ m.val = plc'
  <2>1. CASE r.kind = "get"
    <3>1. r.id \in Nat \ {0} /\ r.id <= pvIds
      BY <1>2, <1>4, <2>1 DEF PlcRequest, RequestsUpTo
    <3>2. PICK b \in BOOLEAN : b = ~plcUp
      OBVIOUS
    <3>3. PICK m : m = [kind |-> "rsp", id |-> r.id, error |-> b, val |-> plc]
      OBVIOUS
    <3>4. plc \in P!All /\ plc' = plc
      BY <1>2, <1>3, <2>1 DEF PlcTypes
    <3>5. m \in PlcMessage
      BY <3>1, <3>3, <3>4 DEF PlcMessage
    <3>6. m \in AnswersUpTo(pvIds) /\ m.val = plc'
      BY <3>1, <3>3, <3>4, <3>5 DEF AnswersUpTo
    <3>7. pvInbox' = Append(pvInbox, m)
      BY <1>3, <2>1, <3>2, <3>3
    <3> QED BY <3>6, <3>7
  <2>2. CASE r.kind = "set" /\ plcUp /\ plc[r.switch] # r.val
    <3>1. PICK val \in P!All : val = plc'
      BY <1>5
    <3>2. pvInbox' = P!Signal(val)
      BY <1>3, <2>2, <3>1
    <3> QED BY <3>1, <3>2, SignalSent
  <2>3. CASE r.kind # "get" /\ ~(r.kind = "set" /\ plcUp /\ plc[r.switch] # r.val)
    BY <1>3, <2>3
  <2> QED BY <2>1, <2>2, <2>3
<1>7. PICK m : \/ pvInbox' = pvInbox
               \/ pvInbox' = Append(pvInbox, m) /\ m \in AnswersUpTo(pvIds) /\ m.val = plc'
  BY <1>6
<1>8. /\ pvInbox' \in Seq(PlcMessage) /\ recent' \in [now : SUBSET P!All, before : SUBSET P!All]
      /\ AllIn(pvInbox', AnswersUpTo(pvIds)) /\ PlcKnown'
  BY <1>3, <1>5, <1>7, PlcSends
<1>9. PlcTypes'
  BY <1>2, <1>3, <1>5, <1>8 DEF PlcTypes
<1>10. PlcStages'
  BY <1>2, <1>3, <1>4, <1>8 DEF PlcStages
<1> QED BY <1>8, <1>9, <1>10 DEF PlcInv

LEMMA PlcNext == PlcInv /\ P!Next => PlcInv'
  BY PlcConnectedStep, PlcCheckStep, PlcLostStep, PlcReceiveStep, PlcMenuStep, PlcChangesStep, PlcAnsweredStep
  DEF P!Next

LEMMA PlcSame == PlcInv /\ UNCHANGED pVars => PlcInv'
  BY DEF PlcInv, PlcTypes, PlcStages, PlcKnown, pVars

LEMMA PlcResult == PlcInv => P!TypeOK /\ P!ShownIsRecent
<1> SUFFICES ASSUME PlcInv PROVE P!TypeOK /\ P!ShownIsRecent
  OBVIOUS
<1>1. P!TypeOK
  BY DEF PlcInv, PlcTypes, P!TypeOK
<1>2. ASSUME pvUp, plcConnected
      PROVE  \E p \in recent.now \cup recent.before :
               \A s \in PlcSwitches : P!Drawn.switches[s] \in {p[s], "blinks"}
  <2>1. bfsStatus \in recent.now \cup recent.before
    BY <1>2 DEF PlcInv, PlcKnown
  <2>2. ASSUME NEW s \in PlcSwitches PROVE P!Shown(s) \in {bfsStatus[s], "blinks"}
    BY <1>2 DEF P!Shown
  <2>3. \A s \in PlcSwitches : P!Drawn.switches[s] \in {bfsStatus[s], "blinks"}
    BY <2>2 DEF P!Drawn
  <2> QED BY <2>1, <2>3
<1>3. P!Drawn.banner = "none" => pvUp
  BY DEF P!Drawn
<1>4. ~P!Drawn.disconnected => plcConnected
  BY DEF P!Drawn, PlcInv, PlcTypes
<1> QED BY <1>1, <1>2, <1>3, <1>4 DEF P!ShownIsRecent

-----------------------------------------------------------------------------
(* The views.                                                              *)

ViewsInv == MapInv /\ DeviceInv /\ PlcInv

LEMMA ViewsInitially == MCInit => ViewsInv
  BY MapInitially, DeviceInitially, PlcInitially DEF MCInit, ViewsInv

LEMMA ViewsNext == ViewsInv /\ [MCNext]_allVars => ViewsInv'
<1> SUFFICES ASSUME ViewsInv, [MCNext]_allVars PROVE ViewsInv'
  OBVIOUS
<1>1. S!Next \/ UNCHANGED sVars
  BY DEF MCNext, allVars
<1>2. V!Next \/ UNCHANGED vVars
  BY DEF MCNext, allVars
<1>3. P!Next \/ UNCHANGED pVars
  BY DEF MCNext, allVars
<1>4. MapInv'
  BY <1>1, MapNext, MapSame DEF ViewsInv
<1>5. DeviceInv'
  BY <1>2, DeviceNext, DeviceSame DEF ViewsInv
<1>6. PlcInv'
  BY <1>3, PlcNext, PlcSame DEF ViewsInv
<1> QED BY <1>4, <1>5, <1>6 DEF ViewsInv

\* The views show what the device has or had a moment ago: the map shows the sites
\* that are mounted once all answers have come, but those of which a call failed and
\* no mount was signalled since (shvsitesapp.cpp), the converter's values are those of
\* the device unless a signal may have been lost, and a position of the PLC's
\* switches is one they had in this period or in the one before (sitesmodel.cpp,
\* jn50viewapp.cpp, bfsviewapp.cpp).
THEOREM ViewsHold == MCSpec => []ViewsTrue
<1>1. ViewsInv => ViewsTrue
  BY MapResult, DeviceResult, PlcResult DEF ViewsInv, ViewsTrue
<1> QED BY ViewsInitially, ViewsNext, <1>1, PTL DEF MCSpec

-----------------------------------------------------------------------------
(* Flatline's times: what was recorded, and what is restored of it.        *)
(* What the window has added up belongs to a moment up to now, and is less *)
(* than one wrap after it.                                                 *)

TimesAnchored ==
  \E t \in 0 .. now : t % ShortWrap = shortTimePrev /\ msecTime + shortTimePrev < t + ShortWrap

TimesInv ==
  /\ now \in Nat /\ now <= LastTime /\ msecTime \in Nat /\ xmax \in Nat
  /\ shortTimePrev \in 0 .. ShortWrap - 1 /\ raw \in BOOLEAN
  /\ sample.short => sample.time \in Nat /\ sample.time <= msecTime + shortTimePrev
  /\ TimesAnchored

LEMMA TimesConstants ==
  /\ ShortWrap \in Nat \ {0} /\ StampGrain \in Nat \ {0} /\ LastTime \in Nat
  /\ 0 \in 0 .. ShortWrap - 1 /\ 0 % ShortWrap = 0
<1>1. ShortWrap \in Nat \ {0} /\ StampGrain \in Nat \ {0} /\ LastTime \in Nat
  BY DevicesAssumption DEF X!ShortTimesAssumption
<1> QED BY <1>1

LEMMA StampBefore ==
  ASSUME NEW t \in Nat
  PROVE  X!Stamp(t) \in Nat /\ X!Stamp(t) <= t
<1>1. PICK q \in Int, r \in Int : q = t \div StampGrain /\ r = t % StampGrain
  BY TimesConstants
<1>2. t = StampGrain * q + r /\ 0 <= r /\ r < StampGrain
  BY <1>1, TimesConstants
<1>3. q >= 0
  BY <1>1, TimesConstants
<1>4. q * StampGrain \in Nat /\ q * StampGrain <= t
  BY <1>2, <1>3, TimesConstants
<1> QED BY <1>1, <1>4 DEF X!Stamp

(* Later moments: the short time grows with the time, or it has wrapped.   *)
LEMMA ShortTimesGrow ==
  ASSUME NEW s \in Nat, NEW t \in Nat, s <= t
  PROVE  /\ t % ShortWrap \in 0 .. ShortWrap - 1
         /\ s % ShortWrap <= t % ShortWrap => t - s >= (t % ShortWrap) - (s % ShortWrap)
         /\ t % ShortWrap < s % ShortWrap => t - s >= (t % ShortWrap) - (s % ShortWrap) + ShortWrap
<1>1. PICK a \in Int, b \in Int : a = s \div ShortWrap /\ b = s % ShortWrap
  BY TimesConstants
<1>2. PICK c \in Int, e \in Int : c = t \div ShortWrap /\ e = t % ShortWrap
  BY TimesConstants
<1>3. s = ShortWrap * a + b /\ 0 <= b /\ b < ShortWrap
  BY <1>1, TimesConstants
<1>4. t = ShortWrap * c + e /\ 0 <= e /\ e < ShortWrap
  BY <1>2, TimesConstants
<1>5. PICK k \in Int : k = c - a
  OBVIOUS
<1>6. t - s = ShortWrap * k + (e - b)
  BY <1>3, <1>4, <1>5, TimesConstants
<1>7. k >= 0
  <2>1. CASE k <= -1
    <3>1. ShortWrap * k <= -ShortWrap
      BY <2>1, TimesConstants
    <3> QED BY <1>3, <1>4, <1>6, <3>1, TimesConstants
  <2> QED BY <2>1
<1>8. ShortWrap * k >= 0 /\ (k >= 1 => ShortWrap * k >= ShortWrap)
  BY <1>7, TimesConstants
<1>9. e < b => k >= 1
  <2>1. k = 0 => ShortWrap * k = 0
    BY TimesConstants
  <2> QED BY <1>6, <1>7, <2>1
<1> QED BY <1>1, <1>2, <1>4, <1>6, <1>8, <1>9, TimesConstants

LEMMA TimesInitially == X!Init => TimesInv
<1> SUFFICES ASSUME X!Init PROVE TimesInv
  OBVIOUS
<1>1. /\ now \in Nat /\ now <= LastTime /\ msecTime = 0 /\ xmax = 0
      /\ shortTimePrev = 0 /\ raw \in BOOLEAN /\ sample.short = FALSE
  BY TimesConstants DEF X!Init, X!NoSample
<1>2. TimesAnchored
  <2>1. 0 \in 0 .. now /\ 0 + 0 < 0 + ShortWrap
    BY <1>1, TimesConstants
  <2> QED BY <1>1, <2>1, TimesConstants DEF TimesAnchored
<1> QED BY <1>1, <1>2, TimesConstants DEF TimesInv

(* What a step draws.                                                      *)
Drawn(s, t) ==
  /\ t.time >= t.stamp /\ t.time < t.at + ShortWrap
  /\ s.short /\ t.short => s.time <= t.time

LEMMA ShortTimeStep ==
  ASSUME TimesInv, NEW t \in now .. LastTime, now' = t, UNCHANGED raw,
         X!ShortTimeEntry(t, X!Stamp(t), t % ShortWrap)
  PROVE  TimesInv' /\ Drawn(sample, sample')
<1>1. PICK short \in Int, stamp \in Nat : short = t % ShortWrap /\ stamp = X!Stamp(t) /\ stamp <= t
  BY StampBefore, TimesConstants DEF TimesInv
<1>2. PICK s \in 0 .. now : s % ShortWrap = shortTimePrev /\ msecTime + shortTimePrev < s + ShortWrap
  BY DEF TimesInv, TimesAnchored
<1>3. /\ now \in Nat /\ now <= LastTime /\ msecTime \in Nat /\ xmax \in Nat
      /\ shortTimePrev \in 0 .. ShortWrap - 1 /\ raw \in BOOLEAN
      /\ sample.short => sample.time \in Nat /\ sample.time <= msecTime + shortTimePrev
  BY DEF TimesInv
<1>4. /\ short \in 0 .. ShortWrap - 1
      /\ shortTimePrev <= short => t - s >= short - shortTimePrev
      /\ short < shortTimePrev => t - s >= short - shortTimePrev + ShortWrap
  <2>1. s \in Nat /\ t \in Nat /\ s <= t
    BY <1>2, <1>3
  <2> QED BY <1>1, <1>2, <2>1, ShortTimesGrow
<1>5. PICK base \in Nat : base = X!Wrapped(short)
  BY <1>3, TimesConstants DEF X!Wrapped
<1>6. /\ base + short >= msecTime + shortTimePrev /\ base + short < t + ShortWrap
  BY <1>2, <1>3, <1>4, <1>5, TimesConstants DEF X!Wrapped
<1>7. X!Converted(short) = base + short /\ X!ShortTimeEntry(t, stamp, short)
  BY <1>1, <1>5 DEF X!Converted
<1>8. t \in 0 .. t /\ t \in Nat /\ t <= LastTime /\ t % ShortWrap = short
  BY <1>1, <1>3
<1>9. CASE base + short < stamp
  <2>1. /\ shortTimePrev' = short /\ msecTime' = stamp
        /\ X!AppendModelValue(t, stamp, stamp, TRUE)
    <3>1. ~(X!Converted(short) >= stamp)
      BY <1>4, <1>7, <1>9
    <3> QED BY <1>7, <3>1, Zenon DEF X!ShortTimeEntry
  <2>2. sample' = [at |-> t, stamp |-> stamp, time |-> stamp, short |-> TRUE] /\ xmax' \in Nat
    BY <1>3, <2>1 DEF X!AppendModelValue, X!Larger
  <2>3. sample'.at = t /\ sample'.stamp = stamp /\ sample'.time = stamp /\ sample'.short = TRUE
    BY <2>2
  <2>4. stamp + short < t + ShortWrap /\ stamp < t + ShortWrap /\ stamp <= stamp + short
    BY <1>1, <1>4, <1>8, TimesConstants
  <2>5. TimesAnchored'
    BY <1>8, <2>1, <2>4 DEF TimesAnchored
  <2>6. TimesInv'
    BY <1>3, <1>4, <1>8, <2>1, <2>2, <2>3, <2>4, <2>5 DEF TimesInv
  <2>7. sample.short => sample.time <= stamp
    BY <1>3, <1>6, <1>9, TimesConstants
  <2>8. Drawn(sample, sample')
    BY <2>3, <2>4, <2>7 DEF Drawn
  <2> QED BY <2>6, <2>8
<1>10. CASE base + short >= stamp
  <2>1. /\ shortTimePrev' = short /\ msecTime' = base
        /\ X!AppendModelValue(t, stamp, base + short, TRUE)
    <3>1. ~(X!Converted(short) < stamp)
      BY <1>4, <1>7, <1>10
    <3>2. shortTimePrev' = short /\ msecTime' = X!Wrapped(short)
          /\ X!AppendModelValue(t, stamp, X!Converted(short), TRUE)
      BY <1>7, <3>1, Zenon DEF X!ShortTimeEntry
    <3> QED BY <1>5, <1>7, <3>2, Zenon
  <2>2. sample' = [at |-> t, stamp |-> stamp, time |-> base + short, short |-> TRUE] /\ xmax' \in Nat
    BY <1>3, <1>4, <2>1 DEF X!AppendModelValue, X!Larger
  <2>3. sample'.at = t /\ sample'.stamp = stamp /\ sample'.time = base + short /\ sample'.short = TRUE
    BY <2>2
  <2>4. base + short \in Nat /\ base + short <= base + short
    BY <1>4
  <2>5. TimesAnchored'
    BY <1>6, <1>8, <2>1 DEF TimesAnchored
  <2>6. TimesInv'
    BY <1>3, <1>4, <1>8, <2>1, <2>2, <2>3, <2>4, <2>5 DEF TimesInv
  <2>7. sample.short => sample.time <= base + short
    BY <1>3, <1>4, <1>6, TimesConstants
  <2>8. Drawn(sample, sample')
    BY <1>6, <1>10, <2>3, <2>7 DEF Drawn
  <2> QED BY <2>6, <2>8
<1> QED BY <1>1, <1>4, <1>9, <1>10

LEMMA PlainStep ==
  ASSUME TimesInv, NEW t \in Nat, NEW stamp \in Nat, stamp <= t,
         X!AppendModelValue(t, stamp, stamp, FALSE), UNCHANGED <<msecTime, shortTimePrev, raw>>,
         now' \in now .. LastTime
  PROVE  TimesInv' /\ Drawn(sample, sample')
<1>1. sample' = [at |-> t, stamp |-> stamp, time |-> stamp, short |-> FALSE] /\ xmax' \in Nat
  BY DEF TimesInv, X!AppendModelValue, X!Larger
<1>2. sample'.at = t /\ sample'.stamp = stamp /\ sample'.time = stamp /\ sample'.short = FALSE
  BY <1>1
<1>3. now' \in Nat /\ now' <= LastTime /\ \A s \in 0 .. now : s \in 0 .. now'
  BY TimesConstants DEF TimesInv
<1>4. TimesAnchored'
  BY <1>3 DEF TimesInv, TimesAnchored
<1>5. TimesInv'
  BY <1>1, <1>2, <1>3, <1>4 DEF TimesInv
<1>6. stamp < t + ShortWrap
  BY TimesConstants
<1> QED BY <1>2, <1>5, <1>6 DEF Drawn

LEMMA TimesNext == TimesInv /\ X!Next => TimesInv' /\ Drawn(sample, sample')
<1> SUFFICES ASSUME TimesInv, X!Next PROVE TimesInv' /\ Drawn(sample, sample')
  OBVIOUS
<1>1. CASE X!SetLogData
  <2>1. /\ now' \in Nat /\ now' <= LastTime /\ msecTime' = 0 /\ xmax' = 0 /\ shortTimePrev' = 0 /\ raw' \in BOOLEAN
        /\ sample' = [at |-> 0, stamp |-> 0, time |-> 0, short |-> FALSE]
    BY <1>1, TimesConstants DEF X!SetLogData, X!NoSample
  <2>2. sample'.at = 0 /\ sample'.stamp = 0 /\ sample'.time = 0 /\ sample'.short = FALSE
    BY <2>1
  <2>3. TimesAnchored'
    <3>1. 0 \in 0 .. now' /\ 0 + 0 < 0 + ShortWrap
      BY <2>1, TimesConstants
    <3> QED BY <2>1, <3>1, TimesConstants DEF TimesAnchored
  <2>4. TimesInv'
    BY <2>1, <2>2, <2>3, TimesConstants DEF TimesInv
  <2> QED BY <2>2, <2>4, TimesConstants DEF Drawn
<1>2. CASE X!AddLogEntry
  <2>1. PICK t \in now .. LastTime :
          /\ now' = t
          /\ IF raw THEN X!AppendModelValue(t, X!Stamp(t), X!Stamp(t), FALSE) /\ UNCHANGED <<msecTime, shortTimePrev>>
                    ELSE X!ShortTimeEntry(t, X!Stamp(t), t % ShortWrap)
          /\ UNCHANGED raw
    BY <1>2 DEF X!AddLogEntry
  <2>2. t \in Nat
    BY DEF TimesInv
  <2>3. CASE raw
    BY <2>1, <2>2, <2>3, StampBefore, PlainStep
  <2>4. CASE ~raw
    BY <2>1, <2>4, ShortTimeStep
  <2> QED BY <2>3, <2>4
<1>3. CASE X!PlainEntry
  <2>1. PICK t \in now .. LastTime :
          now' = t /\ X!AppendModelValue(t, X!Stamp(t), X!Stamp(t), FALSE)
          /\ UNCHANGED <<msecTime, shortTimePrev, raw>>
    BY <1>3 DEF X!PlainEntry
  <2>2. t \in Nat
    BY DEF TimesInv
  <2> QED BY <2>1, <2>2, StampBefore, PlainStep
<1>4. CASE X!LiveSample
  <2>1. PICK t \in xmax .. LastTime : X!AppendModelValue(t, t, t, FALSE)
    BY <1>4 DEF X!LiveSample
  <2>2. t \in Nat /\ t <= t /\ UNCHANGED <<now, msecTime, shortTimePrev, raw>> /\ now \in now .. LastTime
    BY <1>4, TimesConstants DEF TimesInv, X!LiveSample
  <2> QED BY <2>1, <2>2, PlainStep
<1> QED BY <1>1, <1>2, <1>3, <1>4 DEF X!Next

-----------------------------------------------------------------------------
(* The simulated lublicator: its bits were right when the battery was last *)
(* checked, and the commands leave those of the battery alone.             *)

BatteryBits ==
  /\ ("BatteryHigh" \in lubStatus) = (voltage >= high)
  /\ ("BatteryLow" \in lubStatus) = (voltage <= low)

LubInv == B!TypeOK /\ (~lubSimulated => BatteryBits)

(* What a step keeps.                                                      *)
LubStep ==
  /\ ~lubSimulated' => BatteryBits'
  /\ lubSimulated' \/ ~B!Jumps(lubStatus, lubStatus') \/ "PosMiddle" \in lubSent'[1]

LEMMA LubInitially == B!Init => LubInv
<1> SUFFICES ASSUME B!Init PROVE LubInv
  OBVIOUS
<1>1. /\ LubMin \in Nat /\ LubMax \in Nat /\ LubVoltage \in LubMin .. LubMax
      /\ LubLow \in LubMin .. LubMax /\ LubHigh \in LubMin .. LubMax
      /\ LubLow < LubVoltage /\ LubVoltage < LubHigh
  BY DevicesAssumption DEF B!LublicatorAssumption
<1>2. /\ lubStatus = {} /\ voltage = LubVoltage /\ low = LubLow /\ high = LubHigh /\ lubSimulated = FALSE
  BY DEF B!Init
<1>3. ~(voltage >= high) /\ ~(voltage <= low)
  BY <1>1, <1>2
<1>4. BatteryBits
  BY <1>2, <1>3 DEF BatteryBits
<1>5. B!TypeOK
  BY <1>1, <1>2 DEF B!TypeOK, B!Voltages
<1> QED BY <1>4, <1>5 DEF LubInv

LEMMA BatteryChecked ==
  ASSUME B!TypeOK, voltage' \in B!Voltages, low' \in B!Voltages, high' \in B!Voltages,
         B!CheckBatteryTresholds(voltage', low', high')
  PROVE  LubInv' /\ LubStep
<1>1. /\ lubStatus' = (lubStatus \ {"BatteryHigh", "BatteryLow"})
                        \cup (IF voltage' >= high' THEN {"BatteryHigh"} ELSE {})
                        \cup (IF voltage' <= low' THEN {"BatteryLow"} ELSE {})
      /\ lubSimulated' = FALSE
  BY DEF B!CheckBatteryTresholds, B!SetStatus
<1>2. BatteryBits'
  BY <1>1 DEF BatteryBits
<1>3. lubStatus' \subseteq B!Bits /\ lubStatus' \cap B!Positions = lubStatus \cap B!Positions
  BY <1>1 DEF B!TypeOK, B!Bits, B!Positions
<1>4. ~B!Jumps(lubStatus, lubStatus')
  <2>1. {"PosOff"} # {"PosOn"}
    OBVIOUS
  <2> QED BY <1>3, <2>1 DEF B!Jumps
<1> QED BY <1>1, <1>2, <1>3, <1>4 DEF LubInv, LubStep, B!TypeOK

(* A command leaves the battery's bits alone and passes the middle.        *)
LEMMA Commanded ==
  ASSUME LubInv, NEW gone \in SUBSET B!Bits, NEW mid, NEW reached \in SUBSET B!Bits,
         mid = (lubStatus \ gone) \cup {"PosMiddle"},
         B!Moved(mid, reached), UNCHANGED <<voltage, low, high, lubSimulated>>,
         \A b \in {"BatteryHigh", "BatteryLow"} : b \in reached <=> b \in lubStatus
  PROVE  LubInv' /\ LubStep
<1>1. lubStatus' = reached /\ lubSent' = B!Change(lubStatus, mid) \o B!Change(mid, reached)
  BY DEF B!Moved
<1>2. LubInv' /\ (~lubSimulated' => BatteryBits')
  BY <1>1 DEF LubInv, B!TypeOK, BatteryBits
<1>3. ASSUME B!Jumps(lubStatus, lubStatus') PROVE "PosMiddle" \in lubSent'[1]
  <2>1. "PosMiddle" \notin lubStatus
    <3>1. lubStatus \cap B!Positions \in {{"PosOff"}, {"PosOn"}}
      BY <1>3, Zenon DEF B!Jumps
    <3>2. "PosMiddle" \in B!Positions /\ "PosMiddle" \notin {"PosOff"} /\ "PosMiddle" \notin {"PosOn"}
      BY DEF B!Positions
    <3> QED BY <3>1, <3>2
  <2>2. B!Change(lubStatus, mid) = <<mid>>
    BY <2>1 DEF B!Change
  <2>3. B!Change(mid, reached) = <<>> \/ B!Change(mid, reached) = <<reached>>
    BY DEF B!Change
  <2>4. lubSent'[1] = mid
    <3>1. (<<mid>> \o <<>>)[1] = mid /\ (<<mid>> \o <<reached>>)[1] = mid
      OBVIOUS
    <3> QED BY <1>1, <2>2, <2>3, <3>1
  <2> QED BY <2>4
<1> QED BY <1>2, <1>3 DEF LubStep

LEMMA LubNext == LubInv /\ B!Next => LubInv' /\ LubStep
<1> SUFFICES ASSUME LubInv, B!Next PROVE LubInv' /\ LubStep
  OBVIOUS
<1>1. /\ LubMin \in Nat /\ LubMax \in Nat /\ LubMin < LubMax /\ voltage \in LubMin .. LubMax
      /\ B!Voltages = LubMin .. LubMax /\ B!TypeOK
  BY DevicesAssumption DEF B!LublicatorAssumption, LubInv, B!TypeOK, B!Voltages
<1>2. ~B!Jumps(lubStatus, lubStatus)
  <2>1. {"PosOff"} # {"PosOn"}
    OBVIOUS
  <2> QED BY <2>1 DEF B!Jumps
<1>3. ASSUME UNCHANGED <<lubStatus, voltage, low, high, lubSimulated>> PROVE LubInv' /\ LubStep
  BY <1>2, <1>3 DEF LubInv, LubStep, B!TypeOK, BatteryBits
<1>4. CASE B!CmdOn
  <2>1. PICK mid : mid = (lubStatus \ {"PosInternalOff", "PosOff"}) \cup {"PosMiddle"}
    OBVIOUS
  <2>2. PICK reached : reached = (mid \ {"PosMiddle"}) \cup {"PosInternalOn", "PosOn"}
    OBVIOUS
  <2>3. reached \in SUBSET B!Bits /\ {"PosInternalOff", "PosOff"} \in SUBSET B!Bits
    BY <1>1, <2>1, <2>2 DEF B!TypeOK, B!Bits, B!Positions
  <2>4. \A b \in {"BatteryHigh", "BatteryLow"} : b \in reached <=> b \in lubStatus
    BY <2>1, <2>2
  <2>5. lubStatus' = lubStatus \/ B!Moved(mid, reached)
    BY <1>4, <2>1, <2>2 DEF B!CmdOn
  <2>6. UNCHANGED <<voltage, low, high, lubSimulated>>
    BY <1>4 DEF B!CmdOn
  <2> QED BY <1>3, <2>1, <2>3, <2>4, <2>5, <2>6, Commanded
<1>5. CASE B!CmdOff
  <2>1. PICK mid : mid = (lubStatus \ {"PosInternalOn", "PosOn"}) \cup {"PosMiddle"}
    OBVIOUS
  <2>2. PICK reached : reached = (mid \ {"PosMiddle", "PosInternalOff"}) \cup {"PosOff"}
    OBVIOUS
  <2>3. reached \in SUBSET B!Bits /\ {"PosInternalOn", "PosOn"} \in SUBSET B!Bits
    BY <1>1, <2>1, <2>2 DEF B!TypeOK, B!Bits, B!Positions
  <2>4. \A b \in {"BatteryHigh", "BatteryLow"} : b \in reached <=> b \in lubStatus
    BY <2>1, <2>2
  <2>5. lubStatus' = lubStatus \/ B!Moved(mid, reached)
    BY <1>5, <2>1, <2>2 DEF B!CmdOff
  <2>6. UNCHANGED <<voltage, low, high, lubSimulated>>
    BY <1>5 DEF B!CmdOff
  <2> QED BY <1>3, <2>1, <2>3, <2>4, <2>5, <2>6, Commanded
<1>6. ASSUME NEW v \in B!Voltages, B!SetBatteryVoltage(v) PROVE LubInv' /\ LubStep
  <2>1. CASE v = voltage
    BY <1>3, <1>6, <2>1 DEF B!SetBatteryVoltage
  <2>2. CASE v # voltage
    <3>1. voltage' = v /\ low' = low /\ high' = high /\ B!CheckBatteryTresholds(voltage', low', high')
      BY <1>6, <2>2 DEF B!SetBatteryVoltage
    <3> QED BY <1>1, <1>6, <3>1, BatteryChecked DEF B!TypeOK
  <2> QED BY <2>1, <2>2
<1>7. CASE B!SimSetBatteryVoltage
  BY <1>6, <1>7 DEF B!SimSetBatteryVoltage
<1>8. CASE B!Drift
  <2>1. (IF voltage + 1 > LubMax THEN LubMin ELSE voltage + 1) \in B!Voltages
    BY <1>1
  <2> QED BY <1>6, <1>8, <2>1 DEF B!Drift
<1>9. CASE B!SetTreshold
  <2>1. /\ low' \in B!Voltages /\ high' \in B!Voltages /\ voltage' = voltage
        /\ B!CheckBatteryTresholds(voltage', low', high')
    BY <1>1, <1>9 DEF B!SetTreshold, B!TypeOK
  <2> QED BY <1>1, <2>1, BatteryChecked DEF B!TypeOK
<1>10. CASE B!SimSet
  BY <1>10 DEF B!SimSet, B!SetStatus, LubInv, LubStep, B!TypeOK
<1> QED BY <1>4, <1>5, <1>7, <1>8, <1>9, <1>10 DEF B!Next

-----------------------------------------------------------------------------
(* bfsview's file.  What is read of it line by line is what the lines say  *)
(* together, or Unknown at an old line.                                    *)

Ages == [W!Names -> [stamp : 0 .. BfsWrites, age : 0 .. BfsLimit]]
Acc == [overall : W!Statuses, end : BOOLEAN, seen : Ages]
Lines == [name : W!Names, val : {"On", "Off", "X"}, stamp : 0 .. BfsWrites, whole : BOOLEAN]

(* A line that counts and is too old.                                      *)
OldLine(ages, x) == x.val # "X" /\ ages[x.name] = [stamp |-> x.stamp, age |-> BfsLimit]

LEMMA PwrConstants ==
  /\ BfsSwitches \in Seq(STRING) /\ BfsLimit \in Nat \ {0} /\ BfsWrites \in Nat /\ BfsFaults \in Nat
  BY DevicesAssumption DEF W!PowerStatusAssumption

LEMMA LineRead ==
  ASSUME NEW a \in Acc, NEW x \in Lines
  PROVE  /\ W!ReadLine(a, x) \in Acc
         /\ a.end \/ (x.whole /\ x.val = "X") => W!ReadLine(a, x) = a
         /\ ~a.end /\ x.whole /\ x.val # "X" =>
              \/ W!ReadLine(a, x).end /\ W!ReadLine(a, x).overall = "Unknown"
                 /\ OldLine(W!ReadLine(a, x).seen, x)
              \/ ~W!ReadLine(a, x).end
                 /\ W!ReadLine(a, x).overall =
                      IF x.val = "On" \/ a.overall = "Unknown" THEN x.val ELSE a.overall
<1>1. PICK old : old = a.seen[x.name]
  OBVIOUS
<1>2. old \in [stamp : 0 .. BfsWrites, age : 0 .. BfsLimit]
  BY <1>1 DEF Acc, Ages, Lines
<1>3. PICK ts : ts = IF old.stamp = x.stamp THEN old ELSE [stamp |-> x.stamp, age |-> 0]
  OBVIOUS
<1>4. ts \in [stamp : 0 .. BfsWrites, age : 0 .. BfsLimit] /\ ts.stamp = x.stamp
  BY <1>2, <1>3, PwrConstants DEF Lines
<1>5. PICK ages : ages = [a.seen EXCEPT ![x.name] = ts]
  OBVIOUS
<1>6. ages \in Ages /\ ages[x.name] = ts
  BY <1>4, <1>5 DEF Acc, Ages, Lines
<1>7. CASE a.end
  <2>1. W!ReadLine(a, x) = a
    BY <1>7 DEF W!ReadLine
  <2> QED BY <1>7, <2>1
<1>8. CASE ~a.end /\ ~x.whole
  <2>1. W!ReadLine(a, x) = [a EXCEPT !.overall = "Unknown", !.end = TRUE]
    BY <1>8 DEF W!ReadLine
  <2>2. W!ReadLine(a, x) \in Acc
    BY <2>1 DEF Acc, W!Statuses
  <2> QED BY <1>8, <2>2
<1>9. CASE ~a.end /\ x.whole /\ x.val = "X"
  <2>1. W!ReadLine(a, x) = a
    BY <1>9 DEF W!ReadLine
  <2> QED BY <1>9, <2>1
<1>10. CASE ~a.end /\ x.whole /\ x.val # "X"
  <2>1. W!ReadLine(a, x) =
          IF ts.age >= BfsLimit
            THEN [overall |-> "Unknown", end |-> TRUE, seen |-> ages]
            ELSE [overall |-> IF x.val = "On" \/ a.overall = "Unknown" THEN x.val ELSE a.overall,
                  end |-> FALSE, seen |-> ages]
    BY <1>1, <1>3, <1>5, <1>10 DEF W!ReadLine
  <2>2. CASE ts.age >= BfsLimit
    <3>1. W!ReadLine(a, x) = [overall |-> "Unknown", end |-> TRUE, seen |-> ages]
      BY <2>1, <2>2
    <3>2. ts = [stamp |-> x.stamp, age |-> BfsLimit]
      BY <1>4, <2>2, PwrConstants
    <3>3. OldLine(ages, x)
      BY <1>6, <1>10, <3>2 DEF OldLine
    <3>4. W!ReadLine(a, x) \in Acc
      BY <1>6, <3>1 DEF Acc, W!Statuses
    <3> QED BY <1>10, <3>1, <3>3, <3>4
  <2>3. CASE ~(ts.age >= BfsLimit)
    <3>1. PICK ov : ov = IF x.val = "On" \/ a.overall = "Unknown" THEN x.val ELSE a.overall
      OBVIOUS
    <3>2. W!ReadLine(a, x) = [overall |-> ov, end |-> FALSE, seen |-> ages]
      BY <2>1, <2>3, <3>1
    <3>3. ov \in W!Statuses
      BY <1>10, <3>1 DEF Acc, Lines, W!Statuses
    <3>4. W!ReadLine(a, x) \in Acc
      BY <1>6, <3>2, <3>3 DEF Acc
    <3> QED BY <1>10, <3>1, <3>2, <3>4
  <2> QED BY <2>2, <2>3
<1> QED BY <1>7, <1>8, <1>9, <1>10

(* The fold of checkPowerSwitchStatusFile, one line after the other.       *)
LEMMA ReadsSteps ==
  ASSUME NEW a \in Acc, NEW w \in Seq(Lines)
  PROVE  \E r : /\ r[0] = a
                /\ \A k \in 1 .. Len(w) : r[k] = W!ReadLine(r[k - 1], w[k])
                /\ W!FoldLeft(W!ReadLine, a, w) = r[Len(w)]
<1>1. PICK n \in Nat : n = Len(w) /\ DOMAIN w = 1 .. n
  OBVIOUS
<1> DEFINE Iter(g) == [s \in SUBSET (1 .. n) |->
                         IF s = {} THEN a ELSE W!ReadLine(g[s \ {W!Max(s)}], w[W!Max(s)])]
<1>2. \A s \in SUBSET (1 .. n) : s # {} => W!Max(s) \in s /\ \A j \in s : j <= W!Max(s)
  <2> SUFFICES ASSUME NEW s \in SUBSET (1 .. n), s # {}
               PROVE  W!Max(s) \in s /\ \A j \in s : j <= W!Max(s)
    OBVIOUS
  <2>1. PICK m \in s : \A j \in s : j <= m
    <3>1. \A j \in s : j \in 0 .. n
      OBVIOUS
    <3> QED BY <3>1, NatGreatest
  <2>2. \A j \in s : m >= j
    BY <2>1
  <2>3. W!Max(s) \in s /\ \A j \in s : W!Max(s) >= j
    BY <2>2, Zenon DEF W!Max
  <2> QED BY <2>3
<1>3. \E g : g = Iter(g)
  <2>1. PICK step : step = [i \in 1 .. n |-> [b \in Acc |-> W!ReadLine(b, w[i])]]
    OBVIOUS
  <2>2. \A i \in 1 .. n : step[i] \in [Acc -> Acc]
    <3> SUFFICES ASSUME NEW i \in 1 .. n PROVE step[i] \in [Acc -> Acc]
      OBVIOUS
    <3>1. w[i] \in Lines
      BY <1>1
    <3>2. \A b \in Acc : W!ReadLine(b, w[i]) \in Acc
      BY <3>1, LineRead
    <3> QED BY <2>1, <3>2
  <2>3. PICK g : IsFold(g, Acc, a, n, step)
    BY <2>2, FoldExists
  <2>4. ASSUME NEW s \in SUBSET (1 .. n)
        PROVE  g[s] = IF s = {} THEN a ELSE W!ReadLine(g[s \ {W!Max(s)}], w[W!Max(s)])
    <3>1. CASE s = {}
      BY <2>3, <3>1 DEF IsFold
    <3>2. CASE s # {}
      <4>1. g[s] = step[W!Max(s)][g[s \ {W!Max(s)}]]
        BY <1>2, <2>3, <3>2 DEF IsFold
      <4>2. g[s \ {W!Max(s)}] \in Acc /\ W!Max(s) \in 1 .. n
        BY <1>2, <2>3, <3>2 DEF IsFold
      <4> QED BY <2>1, <3>2, <4>1, <4>2
    <3> QED BY <3>1, <3>2
  <2>5. g = Iter(g)
    BY <2>3, <2>4 DEF IsFold
  <2> QED BY <2>5
<1>4. PICK f : f = Iter(f) /\ W!FoldLeft(W!ReadLine, a, w) = f[1 .. n]
  <2>1. W!FoldLeft(W!ReadLine, a, w) = (CHOOSE g : g = [s \in SUBSET DOMAIN w |->
                         IF s = {} THEN a ELSE W!ReadLine(g[s \ {W!Max(s)}], w[W!Max(s)])])[DOMAIN w]
    BY Zenon DEF W!FoldLeft, W!MapThenFoldSet
  <2>2. W!FoldLeft(W!ReadLine, a, w) = (CHOOSE g : g = Iter(g))[1 .. n]
    BY <1>1, <2>1, Zenon
  <2> QED BY <1>3, <2>2, Zenon
<1>5. PICK r : r = [k \in 0 .. n |-> f[1 .. k]]
  OBVIOUS
<1>6. r[0] = a
  <2>1. 1 .. 0 = {} /\ {} \in SUBSET (1 .. n)
    OBVIOUS
  <2>2. f[{}] = a
    BY <1>4, <2>1
  <2> QED BY <1>5, <2>1, <2>2
<1>7. ASSUME NEW k \in 1 .. n PROVE r[k] = W!ReadLine(r[k - 1], w[k])
  <2>1. 1 .. k \in SUBSET (1 .. n) /\ 1 .. k # {} /\ k \in 1 .. k
    <3>1. k \in 1 .. k
      OBVIOUS
    <3>2. \A j \in 1 .. k : j \in 1 .. n
      OBVIOUS
    <3> QED BY <3>1, <3>2
  <2>2. W!Max(1 .. k) = k
    BY <1>2, <2>1
  <2>3. (1 .. k) \ {k} = 1 .. (k - 1) /\ k - 1 \in 0 .. n /\ k \in 0 .. n
    OBVIOUS
  <2>4. f[1 .. k] = W!ReadLine(f[(1 .. k) \ {W!Max(1 .. k)}], w[W!Max(1 .. k)])
    BY <1>4, <2>1
  <2> QED BY <1>5, <2>2, <2>3, <2>4
<1>8. r[n] = f[1 .. n]
  BY <1>5
<1> QED BY <1>1, <1>4, <1>6, <1>7, <1>8

(* Of whole lines: On if one is on, Off if none is and one is off.         *)
SaidTo(w, k, ov) ==
  /\ ov = "On" <=> \E i \in 1 .. k : w[i].val = "On"
  /\ ov = "Unknown" <=> \A i \in 1 .. k : w[i].val = "X"

LEMMA WholeRead ==
  ASSUME NEW a \in Acc, ~a.end, a.overall = "Unknown", NEW w \in Seq(Lines),
         \A i \in 1 .. Len(w) : w[i].whole
  PROVE  LET res == W!FoldLeft(W!ReadLine, a, w)
         IN  /\ res \in Acc
             /\ \/ SaidTo(w, Len(w), res.overall)
                \/ res.overall = "Unknown" /\ \E i \in 1 .. Len(w) : OldLine(res.seen, w[i])
<1>1. PICK n \in Nat : n = Len(w)
  OBVIOUS
<1>2. PICK r : /\ r[0] = a
               /\ \A k \in 1 .. Len(w) : r[k] = W!ReadLine(r[k - 1], w[k])
               /\ W!FoldLeft(W!ReadLine, a, w) = r[Len(w)]
  BY ReadsSteps
<1> DEFINE Good(k) == /\ r[k] \in Acc
                      /\ ~r[k].end => SaidTo(w, k, r[k].overall)
                      /\ r[k].end => /\ r[k].overall = "Unknown"
                                     /\ \E i \in 1 .. k : OldLine(r[k].seen, w[i])
           Z == {k \in Nat : k <= n => Good(k)}
<1>3. 0 \in Z
  BY <1>2 DEF SaidTo
<1>4. ASSUME NEW k \in Nat, k \in Z PROVE k + 1 \in Z
  <2> SUFFICES ASSUME k + 1 <= n PROVE Good(k + 1)
    OBVIOUS
  <2>1. Good(k)
    BY <1>4
  <2>2. k + 1 \in 1 .. n /\ (k + 1) - 1 = k /\ 1 .. k + 1 = (1 .. k) \cup {k + 1}
    OBVIOUS
  <2>3. PICK b \in Acc : b = r[k]
    BY <2>1
  <2>4. PICK x \in Lines : x = w[k + 1] /\ x.whole
    BY <1>1, <2>2
  <2>5. r[k + 1] = W!ReadLine(b, x)
    BY <1>1, <1>2, <2>2, <2>3, <2>4
  <2>6. r[k + 1] \in Acc
    BY <2>5, LineRead
  <2>7. x.val \in {"On", "Off", "X"}
    BY DEF Lines
  <2>8. CASE b.end
    <3>1. r[k + 1] = r[k]
      BY <2>3, <2>4, <2>5, <2>8, LineRead
    <3> QED BY <2>1, <2>2, <2>3, <2>8, <3>1
  <2>9. CASE ~b.end /\ x.val = "X"
    <3>1. r[k + 1] = r[k]
      BY <2>3, <2>4, <2>5, <2>9, LineRead
    <3>2. SaidTo(w, k, b.overall)
      BY <2>1, <2>3, <2>9
    <3>3. SaidTo(w, k + 1, b.overall)
      BY <2>2, <2>4, <2>9, <3>2 DEF SaidTo
    <3> QED BY <2>1, <2>3, <2>9, <3>1, <3>3
  <2>10. CASE ~b.end /\ x.val # "X"
    <3>1. \/ /\ r[k + 1].end /\ r[k + 1].overall = "Unknown"
             /\ OldLine(r[k + 1].seen, x)
          \/ /\ ~r[k + 1].end
             /\ r[k + 1].overall = IF x.val = "On" \/ b.overall = "Unknown" THEN x.val ELSE b.overall
      BY <2>4, <2>5, <2>10, LineRead
    <3>2. SaidTo(w, k, b.overall)
      BY <2>1, <2>3, <2>10
    <3>3. CASE /\ r[k + 1].end /\ r[k + 1].overall = "Unknown"
               /\ OldLine(r[k + 1].seen, x)
      BY <2>2, <2>4, <2>6, <3>3
    <3>4. CASE /\ ~r[k + 1].end
               /\ r[k + 1].overall = IF x.val = "On" \/ b.overall = "Unknown" THEN x.val ELSE b.overall
      <4>1. PICK ov : ov = r[k + 1].overall
        OBVIOUS
      <4>2. SaidTo(w, k + 1, ov)
        BY <2>2, <2>4, <2>7, <2>10, <3>2, <3>4, <4>1 DEF SaidTo
      <4> QED BY <2>6, <3>4, <4>1, <4>2
    <3> QED BY <3>1, <3>3, <3>4
  <2> QED BY <2>8, <2>9, <2>10
<1>5. n \in Z
  <2> HIDE DEF Z
  <2> QED BY <1>3, <1>4, NatInSet
<1>6. Good(n)
  BY <1>5
<1> QED BY <1>1, <1>2, <1>6

LEMMA AnyRead ==
  ASSUME NEW a \in Acc, NEW w \in Seq(Lines)
  PROVE  W!FoldLeft(W!ReadLine, a, w) \in Acc
<1>1. PICK r : /\ r[0] = a
               /\ \A k \in 1 .. Len(w) : r[k] = W!ReadLine(r[k - 1], w[k])
               /\ W!FoldLeft(W!ReadLine, a, w) = r[Len(w)]
  BY ReadsSteps
<1> DEFINE Z == {k \in Nat : k <= Len(w) => r[k] \in Acc}
<1>2. 0 \in Z
  BY <1>1
<1>3. ASSUME NEW k \in Nat, k \in Z PROVE k + 1 \in Z
  <2> SUFFICES ASSUME k + 1 <= Len(w) PROVE r[k + 1] \in Acc
    OBVIOUS
  <2>1. k + 1 \in 1 .. Len(w) /\ (k + 1) - 1 = k /\ r[k] \in Acc
    BY <1>3
  <2>2. w[k + 1] \in Lines
    BY <2>1
  <2>3. r[k + 1] = W!ReadLine(r[k], w[k + 1])
    BY <1>1, <2>1
  <2> QED BY <2>1, <2>2, <2>3, LineRead
<1>4. Len(w) \in Z
  <2>1. Len(w) \in Nat
    OBVIOUS
  <2> HIDE DEF Z
  <2> QED BY <1>2, <1>3, <2>1, NatInSet
<1> QED BY <1>1, <1>4

(* What the writer has written, and what the last reading left.            *)
FileBegins ==
  /\ file \in Seq(Lines) /\ target \in Seq(Lines) /\ Len(file) <= Len(target)
  /\ \A i \in 1 .. Len(target) : target[i].whole
  /\ \A i \in 1 .. Len(file) : file[i].whole => file[i] = target[i]
  /\ \A i \in 1 .. Len(file) - 1 : file[i].whole

PwrTypes ==
  /\ FileBegins
  /\ psSeen \in Ages
  /\ pwrStatus \in W!Statuses /\ published \in W!Statuses
  /\ writes \in 0 .. BfsWrites /\ psFaults \in 0 .. BfsFaults
  /\ watched \in BOOLEAN /\ changed \in BOOLEAN /\ simulated \in BOOLEAN
  /\ psTimer \in BOOLEAN /\ psUp \in BOOLEAN

(* What may be said of the file now.                                       *)
Justified(s) == s = W!Said \/ (s = "Unknown" /\ W!Stale)

PwrInv ==
  /\ PwrTypes /\ deferred = pwrStatus
  /\ W!Quiet /\ watched /\ ~simulated => Justified(pwrStatus)

PwrStep == published' # published /\ watched /\ ~simulated => Justified(published')

LEMMA SaidAll ==
  ASSUME file \in Seq(Lines), NEW ov \in W!Statuses, SaidTo(file, Len(file), ov)
  PROVE  ov = W!Said
<1>1. DOMAIN file = 1 .. Len(file) /\ \A i \in 1 .. Len(file) : file[i].val \in {"On", "Off", "X"}
  <2>1. \A x \in Lines : x.val \in {"On", "Off", "X"}
    BY DEF Lines
  <2> QED BY <2>1
<1>2. \A v : v \in W!Values <=> \E i \in 1 .. Len(file) : file[i].val = v
  BY <1>1 DEF W!Values
<1>3. CASE ov = "On"
  BY <1>2, <1>3 DEF SaidTo, W!Said
<1>4. CASE ov = "Unknown"
  <2>1. "On" \notin W!Values /\ "Off" \notin W!Values
    BY <1>2, <1>4 DEF SaidTo
  <2> QED BY <1>4, <2>1 DEF W!Said
<1>5. CASE ov = "Off"
  <2>1. "On" \notin W!Values
    BY <1>2, <1>5 DEF SaidTo
  <2>2. "Off" \in W!Values
    BY <1>1, <1>2, <1>5, <2>1 DEF SaidTo
  <2> QED BY <1>5, <2>1, <2>2 DEF W!Said
<1> QED BY <1>3, <1>4, <1>5 DEF W!Statuses

LEMMA PwrInitially == W!Init => PwrInv
<1> SUFFICES ASSUME W!Init PROVE PwrInv
  OBVIOUS
<1>1. file = <<>> /\ target = <<>> /\ pwrStatus = "Unknown" /\ published = "Unknown" /\ deferred = "Unknown"
  BY DEF W!Init
<1>2. FileBegins
  BY <1>1 DEF FileBegins
<1>3. psSeen \in Ages
  BY PwrConstants DEF W!Init, Ages
<1>4. PwrTypes
  <2>1. /\ writes = 0 /\ psFaults = 0 /\ watched = TRUE /\ changed = FALSE /\ simulated \in BOOLEAN
        /\ psTimer = FALSE /\ psUp = FALSE
    BY DEF W!Init
  <2>2. writes \in 0 .. BfsWrites /\ psFaults \in 0 .. BfsFaults
    BY <2>1, PwrConstants
  <2> QED BY <1>1, <1>2, <1>3, <2>1, <2>2 DEF PwrTypes, W!Statuses
<1>5. SaidTo(file, Len(file), pwrStatus)
  BY <1>1 DEF SaidTo
<1>6. pwrStatus = W!Said
  BY <1>4, <1>5, SaidAll DEF PwrTypes, FileBegins
<1> QED BY <1>1, <1>4, <1>6 DEF PwrInv, Justified

(* A reading of the whole file leaves what may be said of it.              *)
LEMMA Checked ==
  ASSUME PwrInv, W!CheckFile, UNCHANGED <<file, target, writes, simulated, psUp, psFaults>>,
         watched' \in BOOLEAN, changed' \in BOOLEAN
  PROVE  PwrInv' /\ PwrStep
<1>1. published' = published
  BY DEF W!CheckFile, W!SetPwrStatus, W!SendChanged
<1>2. CASE simulated
  <2>1. UNCHANGED <<psSeen, pwrStatus, deferred, psTimer, published>>
    BY <1>2 DEF W!CheckFile
  <2>2. PwrTypes'
    BY <2>1 DEF PwrInv, PwrTypes, FileBegins
  <2> QED BY <1>1, <1>2, <2>1, <2>2 DEF PwrInv, PwrStep
<1>3. CASE ~simulated
  <2>1. PICK a : a = [overall |-> "Unknown", end |-> FALSE, seen |-> psSeen]
    OBVIOUS
  <2>2. a \in Acc /\ ~a.end /\ a.overall = "Unknown"
    <3>1. psSeen \in Ages
      BY DEF PwrInv, PwrTypes
    <3> QED BY <2>1, <3>1 DEF Acc, W!Statuses
  <2>3. PICK res : res = W!FoldLeft(W!ReadLine, a, file)
    OBVIOUS
  <2>4. W!FileRead = res
    BY <2>1, <2>3 DEF W!FileRead
  <2>5. psSeen' = res.seen /\ pwrStatus' = res.overall
    BY <1>3, <2>4 DEF W!CheckFile, W!SetPwrStatus
  <2>6. deferred' = pwrStatus' /\ psTimer' \in BOOLEAN
    BY <1>3 DEF W!CheckFile, W!SetPwrStatus, W!SendChanged, PwrInv, PwrTypes
  <2>7. file \in Seq(Lines)
    BY DEF PwrInv, PwrTypes, FileBegins
  <2>8. res \in Acc
    BY <2>2, <2>3, <2>7, AnyRead
  <2>9. psSeen' \in Ages /\ pwrStatus' \in W!Statuses
    BY <2>5, <2>8 DEF Acc
  <2>10. PwrTypes'
    BY <1>1, <2>6, <2>9 DEF PwrInv, PwrTypes, FileBegins
  <2>11. ASSUME file = target PROVE Justified(pwrStatus)'
    <3>1. \A i \in 1 .. Len(file) : file[i].whole
      BY <2>11 DEF PwrInv, PwrTypes, FileBegins
    <3>2. \/ SaidTo(file, Len(file), res.overall)
          \/ res.overall = "Unknown" /\ \E i \in 1 .. Len(file) : OldLine(res.seen, file[i])
      BY <2>2, <2>3, <2>7, <3>1, WholeRead
    <3>3. CASE SaidTo(file, Len(file), res.overall)
      <4>1. pwrStatus' = W!Said
        BY <2>5, <2>7, <2>9, <3>3, SaidAll
      <4>2. W!Said' = W!Said
        BY DEF W!Said, W!Values
      <4> QED BY <4>1, <4>2 DEF Justified
    <3>4. CASE res.overall = "Unknown" /\ \E i \in 1 .. Len(file) : OldLine(res.seen, file[i])
      <4>1. PICK i \in DOMAIN file : OldLine(psSeen', file[i])
        BY <2>5, <2>7, <3>4
      <4>2. file[i].val # "X" /\ psSeen'[file[i].name] = [stamp |-> file[i].stamp, age |-> BfsLimit]
        BY <4>1 DEF OldLine
      <4>3. W!Stale'
        BY <4>2 DEF W!Stale
      <4> QED BY <2>5, <3>4, <4>3 DEF Justified
    <3> QED BY <3>2, <3>3, <3>4
  <2>12. W!Quiet' => file = target
    BY DEF W!Quiet
  <2> QED BY <1>1, <2>6, <2>10, <2>11, <2>12 DEF PwrInv, PwrStep
<1> QED BY <1>2, <1>3

(* Steps that leave the file and the reading alone.                        *)
LEMMA Unread ==
  ASSUME PwrInv, UNCHANGED <<file, target, writes, watched, changed, psSeen, simulated>>,
         \/ UNCHANGED pwrStatus /\ deferred' = pwrStatus
         \/ simulated /\ pwrStatus' \in W!Statuses /\ deferred' = pwrStatus',
         published' \in {published, deferred}, published' # published => W!Quiet,
         psTimer' \in BOOLEAN, psUp' \in BOOLEAN, psFaults' \in 0 .. BfsFaults
  PROVE  PwrInv' /\ PwrStep
<1>1. pwrStatus' \in W!Statuses /\ published' \in W!Statuses /\ deferred' = pwrStatus'
  BY DEF PwrInv, PwrTypes
<1>2. PwrTypes'
  BY <1>1 DEF PwrInv, PwrTypes, FileBegins
<1>3. ASSUME W!Quiet', watched', ~simulated' PROVE Justified(pwrStatus)'
  <2>1. pwrStatus' = pwrStatus /\ Justified(pwrStatus)
    BY <1>3 DEF PwrInv, W!Quiet
  <2>2. (W!Said)' = W!Said /\ (W!Stale)' = W!Stale
    BY DEF W!Said, W!Values, W!Stale
  <2> QED BY <2>1, <2>2 DEF Justified
<1>4. ASSUME published' # published, watched, ~simulated PROVE Justified(published')
  BY <1>4 DEF PwrInv
<1> QED BY <1>1, <1>2, <1>3, <1>4 DEF PwrInv, PwrStep

(* Steps of the program that writes the file.                              *)
LEMMA Rewritten ==
  ASSUME PwrInv, FileBegins', writes' \in 0 .. BfsWrites, watched' \in BOOLEAN,
         watched' => changed', changed' \in BOOLEAN,
         UNCHANGED <<psSeen, simulated, pwrStatus, deferred, psTimer, psUp, published, psFaults>>
  PROVE  PwrInv' /\ PwrStep
<1>1. PwrTypes'
  BY DEF PwrInv, PwrTypes
<1>2. ~(W!Quiet' /\ watched')
  BY DEF W!Quiet
<1> QED BY <1>1, <1>2 DEF PwrInv, PwrStep

LEMMA NewLinesGood ==
  ASSUME NEW vals \in [DOMAIN BfsSwitches -> {"On", "Off", "X"}], writes \in 0 .. BfsWrites, writes < BfsWrites
  PROVE  /\ W!NewLines(vals) \in Seq(Lines)
         /\ \A i \in 1 .. Len(W!NewLines(vals)) : W!NewLines(vals)[i].whole
<1>1. PICK n \in Nat : n = Len(BfsSwitches) /\ DOMAIN BfsSwitches = 1 .. n
  BY PwrConstants
<1>2. PICK new2 : new2 = W!NewLines(vals)
  OBVIOUS
<1>3. new2 = [i \in 1 .. n |-> [name |-> BfsSwitches[i], val |-> vals[i], stamp |-> writes + 1, whole |-> TRUE]]
  BY <1>1, <1>2 DEF W!NewLines, W!Line
<1>4. ASSUME NEW i \in 1 .. n PROVE new2[i] \in Lines /\ new2[i].whole
  <2>1. BfsSwitches[i] \in W!Names
    BY <1>1 DEF W!Names, W!Range
  <2>2. vals[i] \in {"On", "Off", "X"} /\ writes + 1 \in 0 .. BfsWrites
    BY <1>1, PwrConstants
  <2>3. new2[i] = [name |-> BfsSwitches[i], val |-> vals[i], stamp |-> writes + 1, whole |-> TRUE]
    BY <1>3
  <2> QED BY <2>1, <2>2, <2>3 DEF Lines
<1>5. DOMAIN new2 = 1 .. n
  BY <1>3
<1>6. new2 \in [1 .. n -> Lines]
  BY <1>3, <1>4, <1>5
<1>7. new2 \in Seq(Lines) /\ Len(new2) = n
  BY <1>5, <1>6
<1> QED BY <1>2, <1>4, <1>7

LEMMA WrittenBegins == PwrTypes /\ W!Written => FileBegins'
<1> SUFFICES ASSUME PwrTypes, W!Written PROVE FileBegins'
  OBVIOUS
<1>1. FileBegins /\ target' = target /\ file # target
  BY DEF PwrTypes, W!Written
<1>2. PICK n \in Nat, m \in Nat : n = Len(file) /\ m = Len(target) /\ n <= m
  BY <1>1 DEF FileBegins
<1>3. PICK part2 : part2 = IF file # <<>> /\ ~file[Len(file)].whole THEN W!Front(file) ELSE file
  OBVIOUS
<1>4. file \in Seq(Lines) /\ target \in Seq(Lines)
  BY <1>1 DEF FileBegins
<1>5. /\ part2 \in Seq(Lines) /\ Len(part2) < m
      /\ \A i \in 1 .. Len(part2) : part2[i] = target[i]
  <2>1. CASE file # <<>> /\ ~file[Len(file)].whole
    <3>1. part2 = SubSeq(file, 1, n - 1) /\ n > 0
      BY <1>2, <1>3, <1>4, <2>1 DEF W!Front
    <3>2. /\ part2 \in Seq(Lines) /\ Len(part2) = n - 1
          /\ \A i \in 1 .. n - 1 : part2[i] = file[i]
      BY <1>2, <1>4, <3>1
    <3>3. \A i \in 1 .. n - 1 : file[i].whole /\ file[i] = target[i]
      BY <1>1, <1>2 DEF FileBegins
    <3> QED BY <1>2, <3>2, <3>3
  <2>2. CASE ~(file # <<>> /\ ~file[Len(file)].whole)
    <3>1. part2 = file
      BY <1>3, <2>2
    <3>2. \A i \in 1 .. n : file[i].whole
      <4>1. n # 0 => file # <<>>
        BY <1>2
      <4>2. n # 0 => file[n].whole
        BY <1>2, <2>2, <4>1
      <4>3. \A i \in 1 .. n - 1 : file[i].whole
        BY <1>1, <1>2 DEF FileBegins
      <4>4. \A i \in 1 .. n : i = n \/ i \in 1 .. n - 1
        OBVIOUS
      <4> QED BY <4>2, <4>3, <4>4
    <3>3. \A i \in 1 .. n : file[i] = target[i]
      BY <1>1, <1>2, <3>2 DEF FileBegins
    <3>4. n # m
      <4>1. n = m => file = target
        BY <1>2, <1>4, <3>3, SeqEqual
      <4> QED BY <1>1, <4>1
    <3> QED BY <1>2, <1>4, <3>1, <3>3, <3>4
  <2> QED BY <2>1, <2>2
<1>6. PICK k \in Nat : k = Len(part2) /\ k + 1 \in 1 .. m
  BY <1>5
<1>7. PICK x \in Lines : x = target[k + 1]
  BY <1>2, <1>4, <1>6
<1>8. \/ file' = Append(part2, x)
      \/ file' = Append(part2, W!Torn(x))
  BY <1>3, <1>6, <1>7 DEF W!Written
<1>9. PICK y : file' = Append(part2, y) /\ y \in {x, W!Torn(x)}
  BY <1>8
<1>10. y \in Lines /\ (y.whole => y = x)
  BY <1>9 DEF W!Torn, Lines
<1>11. /\ file' \in Seq(Lines) /\ Len(file') = k + 1
       /\ \A i \in 1 .. k : file'[i] = part2[i]
       /\ file'[k + 1] = y
  BY <1>5, <1>6, <1>9, <1>10
<1>12. ASSUME NEW i \in 1 .. k + 1 PROVE (file'[i].whole => file'[i] = target[i]) /\ (i \in 1 .. k => file'[i].whole)
  <2>1. CASE i \in 1 .. k
    <3>1. file'[i] = target[i] /\ i \in 1 .. m
      BY <1>5, <1>6, <1>11, <2>1
    <3>2. target[i].whole
      BY <1>1, <1>2, <3>1 DEF FileBegins
    <3> QED BY <3>1, <3>2
  <2>2. CASE i = k + 1
    BY <1>7, <1>10, <1>11, <2>2
  <2> QED BY <2>1, <2>2
<1>13. (k + 1) - 1 = k /\ k + 1 <= m
  BY <1>6
<1> QED BY <1>1, <1>2, <1>4, <1>11, <1>12, <1>13 DEF FileBegins

LEMMA PwrNext == PwrInv /\ W!Next => PwrInv' /\ PwrStep
<1> SUFFICES ASSUME PwrInv, W!Next PROVE PwrInv' /\ PwrStep
  OBVIOUS
<1>1. /\ watched \in BOOLEAN /\ changed \in BOOLEAN /\ psTimer \in BOOLEAN /\ psUp \in BOOLEAN
      /\ psFaults \in 0 .. BfsFaults /\ writes \in 0 .. BfsWrites /\ deferred = pwrStatus
      /\ psFaults \in Nat /\ BfsFaults \in Nat /\ BfsWrites \in Nat
  BY PwrConstants DEF PwrInv, PwrTypes
<1>2. CASE W!FileChanged
  <2>1. /\ watched' \in BOOLEAN /\ changed' \in BOOLEAN /\ W!CheckFile
        /\ UNCHANGED <<file, target, writes, simulated, psUp, psFaults>>
    BY <1>1, <1>2 DEF W!FileChanged
  <2> QED BY <2>1, Checked
<1>3. CASE W!CheckTimer
  <2>1. /\ watched' \in BOOLEAN /\ changed' \in BOOLEAN /\ W!CheckFile
        /\ UNCHANGED <<file, target, writes, simulated, psUp, psFaults>>
    BY <1>1, <1>3 DEF W!CheckTimer
  <2> QED BY <2>1, Checked
<1>4. CASE W!LoadSettings
  <2>1. /\ watched' \in BOOLEAN /\ changed' \in BOOLEAN /\ W!CheckFile
        /\ UNCHANGED <<file, target, writes, simulated, psUp, psFaults>>
    BY <1>1, <1>4 DEF W!LoadSettings
  <2> QED BY <2>1, Checked
<1>5. CASE W!SimSet
  <2>1. PICK s \in W!Statuses : s # pwrStatus /\ W!SetPwrStatus(s)
    BY <1>5 DEF W!SimSet
  <2>2. pwrStatus' = s /\ deferred' = s /\ psTimer' = TRUE /\ published' = published
    BY <2>1 DEF W!SetPwrStatus, W!SendChanged
  <2>3. simulated /\ UNCHANGED <<file, target, writes, watched, changed, psSeen, simulated, psUp, psFaults>>
    BY <1>5 DEF W!SimSet
  <2> QED BY <1>1, <2>2, <2>3, Unread
<1>6. CASE W!SendDeferred
  <2>1. /\ W!Quiet /\ psTimer' = FALSE /\ published' \in {published, deferred}
        /\ UNCHANGED <<file, target, writes, watched, changed, psSeen, simulated, pwrStatus, deferred, psUp, psFaults>>
    BY <1>6 DEF W!SendDeferred
  <2> QED BY <1>1, <2>1, Unread
<1>7. CASE W!PublishTimer
  <2>1. /\ deferred' = pwrStatus /\ psTimer' = TRUE /\ published' = published
        /\ UNCHANGED <<file, target, writes, watched, changed, psSeen, simulated, pwrStatus, psUp, psFaults>>
    BY <1>7 DEF W!PublishTimer, W!SendChanged
  <2> QED BY <1>1, <2>1, Unread
<1>8. CASE W!BrokerConnected
  <2>1. /\ deferred' = pwrStatus /\ psTimer' = TRUE /\ published' = published /\ psUp' = TRUE
        /\ UNCHANGED <<file, target, writes, watched, changed, psSeen, simulated, pwrStatus, psFaults>>
    BY <1>8 DEF W!BrokerConnected, W!SendChanged
  <2> QED BY <1>1, <2>1, Unread
<1>9. CASE W!BrokerDisconnected
  <2>1. /\ psUp' = FALSE /\ psFaults' = psFaults + 1 /\ psFaults < BfsFaults
        /\ UNCHANGED <<file, target, writes, watched, changed, psSeen, simulated, pwrStatus, deferred, psTimer, published>>
    BY <1>9 DEF W!BrokerDisconnected
  <2>2. psFaults' \in 0 .. BfsFaults
    BY <1>1, <2>1
  <2> QED BY <1>1, <2>1, <2>2, Unread
<1>10. CASE W!Tick
  <2>1. UNCHANGED <<file, target, writes, watched, changed, simulated, pwrStatus, deferred, psTimer, psUp, published, psFaults>>
    BY <1>10 DEF W!Tick
  <2>2. psSeen \in Ages
    BY DEF PwrInv, PwrTypes
  <2>3. psSeen' \in Ages /\ \A n \in W!Names : psSeen[n].age = BfsLimit => psSeen'[n] = psSeen[n]
    <3>1. PICK older : older = psSeen'
      OBVIOUS
    <3>2. older = [n \in W!Names |-> [psSeen[n] EXCEPT !.age = IF @ < BfsLimit THEN @ + 1 ELSE @]]
      BY <1>10, <3>1 DEF W!Tick
    <3>3. ASSUME NEW n \in W!Names
          PROVE  /\ older[n] \in [stamp : 0 .. BfsWrites, age : 0 .. BfsLimit]
                 /\ psSeen[n].age = BfsLimit => older[n] = psSeen[n]
      <4>1. PICK x \in [stamp : 0 .. BfsWrites, age : 0 .. BfsLimit] : x = psSeen[n]
        BY <2>2 DEF Ages
      <4>2. older[n] = [x EXCEPT !.age = IF @ < BfsLimit THEN @ + 1 ELSE @]
        BY <3>2, <4>1
      <4>3. older[n] = [stamp |-> x.stamp, age |-> IF x.age < BfsLimit THEN x.age + 1 ELSE x.age]
        BY <4>2
      <4>4. (IF x.age < BfsLimit THEN x.age + 1 ELSE x.age) \in 0 .. BfsLimit
        BY PwrConstants
      <4> QED BY <4>1, <4>2, <4>3, <4>4, PwrConstants
    <3>4. older \in Ages
      BY <3>2, <3>3 DEF Ages
    <3> QED BY <3>1, <3>3, <3>4
  <2>4. PwrTypes'
    BY <2>1, <2>3 DEF PwrInv, PwrTypes, FileBegins
  <2>5. Justified(pwrStatus) => Justified(pwrStatus)'
    <3>1. (W!Said)' = W!Said
      BY <2>1 DEF W!Said, W!Values
    <3>2. ASSUME W!Stale PROVE (W!Stale)'
      <4>1. PICK i \in DOMAIN file : file[i].val # "X" /\ psSeen[file[i].name] = [stamp |-> file[i].stamp, age |-> BfsLimit]
        BY <3>2 DEF W!Stale
      <4>2. file[i] \in Lines
        BY DEF PwrInv, PwrTypes, FileBegins
      <4>3. file[i].name \in W!Names
        BY <4>2 DEF Lines
      <4>4. psSeen'[file[i].name] = psSeen[file[i].name]
        BY <2>3, <4>1, <4>3
      <4> QED BY <2>1, <4>1, <4>4 DEF W!Stale
    <3> QED BY <2>1, <3>1, <3>2 DEF Justified
  <2>6. W!Quiet' = W!Quiet
    BY <2>1 DEF W!Quiet
  <2> QED BY <2>1, <2>4, <2>5, <2>6 DEF PwrInv, PwrStep
<1>11. ASSUME W!Truncated \/ W!Renamed PROVE PwrInv' /\ PwrStep
  <2>1. PICK vals \in [DOMAIN BfsSwitches -> {"On", "Off", "X"}] : target' = W!NewLines(vals)
    BY <1>11 DEF W!Truncated, W!Renamed
  <2>2. /\ writes < BfsWrites /\ writes' = writes + 1 /\ file' \in {<<>>, target'}
        /\ changed' = watched /\ watched' \in {watched, FALSE}
        /\ UNCHANGED <<psSeen, simulated, pwrStatus, deferred, psTimer, psUp, published, psFaults>>
    BY <1>11 DEF W!Truncated, W!Renamed
  <2>3. target' \in Seq(Lines) /\ \A i \in 1 .. Len(target') : target'[i].whole
    BY <1>1, <2>1, <2>2, NewLinesGood
  <2>4. file' \in Seq(Lines) /\ Len(file') <= Len(target')
        /\ \A i \in 1 .. Len(file') : file'[i].whole /\ file'[i] = target'[i]
    <3>1. CASE file' = <<>>
      BY <2>3, <3>1
    <3>2. CASE file' = target'
      BY <2>3, <3>2
    <3> QED BY <2>2, <3>1, <3>2
  <2>5. FileBegins'
    <3>1. \A i \in 1 .. Len(file') - 1 : i \in 1 .. Len(file')
      BY <2>4
    <3> QED BY <2>3, <2>4, <3>1 DEF FileBegins
  <2>6. /\ writes' \in 0 .. BfsWrites /\ changed' \in BOOLEAN /\ watched' \in BOOLEAN
        /\ watched' => changed'
    <3>1. writes' \in 0 .. BfsWrites
      BY <1>1, <2>2
    <3>2. CASE watched' = watched
      BY <1>1, <2>2, <3>1, <3>2, Zenon
    <3>3. CASE watched' = FALSE
      BY <1>1, <2>2, <3>1, <3>3, Zenon
    <3> QED BY <2>2, <3>2, <3>3
  <2>7. UNCHANGED <<psSeen, simulated, pwrStatus, deferred, psTimer, psUp, published, psFaults>>
    BY <2>2
  <2> QED BY <2>5, <2>6, <2>7, Rewritten
<1>12. CASE W!Written
  <2>1. /\ changed' = watched
        /\ UNCHANGED <<target, writes, watched, psSeen, simulated, pwrStatus, deferred, psTimer, psUp, published, psFaults>>
    BY <1>12 DEF W!Written
  <2>2. FileBegins'
    BY <1>12, WrittenBegins DEF PwrInv
  <2> QED BY <1>1, <2>1, <2>2, Rewritten
<1> QED BY <1>2, <1>3, <1>4, <1>5, <1>6, <1>7, <1>8, <1>9, <1>10, <1>11, <1>12 DEF W!Next

-----------------------------------------------------------------------------
(* The simulators and the times.                                           *)

DevicesInv == PwrInv /\ TimesInv /\ LubInv

DevicesStep ==
  /\ (W!Next /\ PwrStep) \/ UNCHANGED wVars
  /\ (X!Next /\ Drawn(sample, sample')) \/ UNCHANGED xVars
  /\ (B!Next /\ LubStep) \/ UNCHANGED bVars

LEMMA DevicesInitially == MCInit => DevicesInv
  BY PwrInitially, TimesInitially, LubInitially DEF MCInit, DevicesInv

LEMMA DevicesNext == DevicesInv /\ [MCNext]_allVars => DevicesInv' /\ DevicesStep
<1> SUFFICES ASSUME DevicesInv, [MCNext]_allVars PROVE DevicesInv' /\ DevicesStep
  OBVIOUS
<1>1. W!Next \/ UNCHANGED wVars
  BY DEF MCNext, allVars
<1>2. X!Next \/ UNCHANGED xVars
  BY DEF MCNext, allVars
<1>3. B!Next \/ UNCHANGED bVars
  BY DEF MCNext, allVars
<1>4. PwrInv' /\ ((W!Next /\ PwrStep) \/ UNCHANGED wVars)
  <2>1. ASSUME UNCHANGED wVars PROVE PwrInv'
    BY <2>1 DEF DevicesInv, wVars, PwrInv, PwrTypes, FileBegins, W!Quiet, Justified, W!Said, W!Values, W!Stale
  <2> QED BY <1>1, <2>1, PwrNext DEF DevicesInv
<1>5. TimesInv' /\ ((X!Next /\ Drawn(sample, sample')) \/ UNCHANGED xVars)
  <2>1. ASSUME UNCHANGED xVars PROVE TimesInv'
    BY <2>1 DEF DevicesInv, xVars, TimesInv, TimesAnchored
  <2> QED BY <1>2, <2>1, TimesNext DEF DevicesInv
<1>6. LubInv' /\ ((B!Next /\ LubStep) \/ UNCHANGED bVars)
  <2>1. ASSUME UNCHANGED bVars PROVE LubInv'
    <3>1. B!TypeOK' = B!TypeOK
      BY <2>1 DEF bVars, B!TypeOK
    <3>2. BatteryBits' = BatteryBits
      BY <2>1 DEF bVars, BatteryBits
    <3> QED BY <2>1, <3>1, <3>2, Zenon DEF DevicesInv, bVars, LubInv
  <2> QED BY <1>3, <2>1, LubNext DEF DevicesInv
<1> QED BY <1>4, <1>5, <1>6 DEF DevicesInv, DevicesStep

LEMMA DevicesTypes == DevicesInv => W!TypeOK /\ X!TypeOK /\ B!TypeOK
<1> SUFFICES ASSUME DevicesInv PROVE W!TypeOK /\ X!TypeOK /\ B!TypeOK
  OBVIOUS
<1>1. W!TypeOK
  <2>1. \A i \in DOMAIN file : file[i].name \in W!Names
    <3>1. \A i \in DOMAIN file : file[i] \in Lines
      BY DEF DevicesInv, PwrInv, PwrTypes, FileBegins
    <3>2. \A x \in Lines : x.name \in W!Names
      BY DEF Lines
    <3> QED BY <3>1, <3>2
  <2>2. psSeen \in [W!Names -> [stamp : 0 .. BfsWrites, age : 0 .. BfsLimit]]
    BY DEF DevicesInv, PwrInv, PwrTypes, Ages
  <2>3. /\ pwrStatus \in W!Statuses /\ deferred \in W!Statuses /\ published \in W!Statuses
        /\ writes \in 0 .. BfsWrites /\ psFaults \in 0 .. BfsFaults
        /\ {watched, changed, simulated, psTimer, psUp} \subseteq BOOLEAN
    BY DEF DevicesInv, PwrInv, PwrTypes
  <2>4. {file[i].name : i \in DOMAIN file} \subseteq W!Names
    BY <2>1
  <2> QED BY <2>2, <2>3, <2>4, Zenon DEF W!TypeOK
<1>2. X!TypeOK
  BY TimesConstants DEF DevicesInv, TimesInv, X!TypeOK
<1> QED BY <1>1, <1>2 DEF DevicesInv, LubInv

\* What the simulators and readers of devices publish is true: a status of the
\* power that is sent is what the whole file says or an Unknown for an old line
\* (bfsviewapp.cpp: checkPowerSwitchStatusFile, sendPwrStatusChanged), a sample is
\* drawn within one wrap of its moment and in order (flatline: convertShortTime), and
\* the lublicator's bits agree with the battery, and it passes the middle (lublicator.cpp).
THEOREM DevicesHold == MCSpec => DevicesTrue
<1>1. DevicesStep => [published' # published /\ watched /\ ~simulated
                        => published' = W!Said \/ (published' = "Unknown" /\ W!Stale)]_(W!psVars)
  BY DEF DevicesStep, PwrStep, Justified, wVars, W!psVars
<1>2. DevicesStep => [/\ sample'.time >= sample'.stamp /\ sample'.time < sample'.at + ShortWrap
                      /\ sample.short /\ sample'.short => sample.time <= sample'.time]_(X!stVars)
  BY DEF DevicesStep, Drawn, xVars, X!stVars
<1>3. DevicesStep => [/\ ~lubSimulated' => /\ ("BatteryHigh" \in lubStatus') = (voltage' >= high')
                                           /\ ("BatteryLow" \in lubStatus') = (voltage' <= low')
                      /\ lubSimulated' \/ ~B!Jumps(lubStatus, lubStatus') \/ "PosMiddle" \in lubSent'[1]]_(B!lubVars)
  BY DEF DevicesStep, LubStep, BatteryBits, bVars, B!lubVars
<1> QED BY DevicesInitially, DevicesNext, DevicesTypes, <1>1, <1>2, <1>3, PTL
        DEF MCSpec, DevicesTrue, W!PublishedIsWhole, X!TimesClose, B!BitsAgree

-----------------------------------------------------------------------------
(* The bot of hscope-old.  What a poll has its offset after was processed, *)
(* and of the updates up to the last one of an answer, each is in the      *)
(* answer or was processed.                                                *)

Polls == [offset : Nat, state : {"sent", "held", "answer", "error"}, ids : SUBSET Nat]

Heard(id) == id \in processed /\ (G!MakesPeer(id) => BotSender[id] \in peers)

GoodPoll(c) ==
  /\ c \in Polls /\ c.offset >= 1 /\ c.offset - 1 <= arrived
  /\ \A id \in 1 .. c.offset - 1 : Heard(id)
  /\ c.ids \subseteq 1 .. arrived
  /\ \A x \in c.ids : \A id \in 1 .. x : id \in c.ids \/ Heard(id)

BotInv ==
  /\ G!TelegramTypeOK
  /\ tgCalls \in Seq(Polls) /\ \A i \in 1 .. Len(tgCalls) : GoodPoll(tgCalls[i])
  /\ \A id \in 1 .. updateId : Heard(id)
  /\ \A id \in 1 .. forgotten : Heard(id)

LEMMA BotConstants ==
  /\ Len(BotSender) \in Nat /\ DOMAIN BotSender = 1 .. Len(BotSender)
  /\ \A id \in 1 .. Len(BotSender) : BotSender[id] \in G!Range(BotSender)
  /\ BotCalls \in Nat /\ BotFaults \in Nat
<1>1. BotSender \in Seq(G!Range(BotSender)) /\ BotCalls \in Nat /\ BotFaults \in Nat
  BY ScopesAssumption DEF G!TelegramAssumption
<1> QED BY <1>1

LEMMA BotInitially == G!Init => BotInv
<1> SUFFICES ASSUME G!Init PROVE BotInv
  OBVIOUS
<1>1. /\ arrived = 0 /\ forgotten = 0 /\ tgCalls = <<>> /\ updateId = 0 /\ tgTimer = FALSE
      /\ due = 1 /\ quitting = FALSE /\ peers = {} /\ processed = {} /\ tgFaults = 0
  BY DEF G!Init
<1>2. 0 \in 0 .. Len(BotSender) /\ 0 \in 0 .. BotFaults
  BY BotConstants
<1>3. G!TelegramTypeOK
  <2>1. arrived \in 0 .. Len(BotSender) /\ forgotten \in 0 .. arrived /\ updateId \in 0 .. arrived
    BY <1>1, <1>2
  <2>2. tgTimer \in BOOLEAN /\ quitting \in BOOLEAN /\ due \in Nat /\ tgFaults \in 0 .. BotFaults
    BY <1>1, <1>2
  <2>3. peers \subseteq G!Range(BotSender) /\ processed \subseteq 1 .. arrived
    BY <1>1
  <2> QED BY <2>1, <2>2, <2>3 DEF G!TelegramTypeOK
<1>4. tgCalls \in Seq(Polls) /\ Len(tgCalls) = 0
  BY <1>1
<1> QED BY <1>1, <1>3, <1>4 DEF BotInv

LEMMA GreatestOf ==
  ASSUME NEW n \in Nat, NEW s \in SUBSET (0 .. n), s # {}
  PROVE  G!Max(s) \in s /\ \A j \in s : j <= G!Max(s)
<1>1. PICK m \in s : \A j \in s : j <= m
  BY NatGreatest, Zenon
<1>2. \A j \in s : m >= j
  BY <1>1
<1>3. G!Max(s) \in s /\ \A j \in s : G!Max(s) >= j
  BY <1>2, Zenon DEF G!Max
<1> QED BY <1>3

(* Nothing that was heard or has arrived is taken back.                    *)
LEMMA PollStaysGood ==
  ASSUME arrived \in Nat, arrived' \in Nat, arrived <= arrived', processed \subseteq processed', peers \subseteq peers',
         NEW c, GoodPoll(c)
  PROVE  GoodPoll(c)'
<1>1. c \in Polls /\ c.offset \in Nat /\ c.ids \in SUBSET Nat
  BY DEF GoodPoll, Polls
<1>2. \A id : Heard(id) => Heard(id)'
  BY DEF Heard
<1>3. c.offset >= 1 /\ c.offset - 1 <= arrived' /\ c.ids \subseteq 1 .. arrived'
  BY <1>1 DEF GoodPoll
<1>4. /\ \A id \in 1 .. c.offset - 1 : Heard(id)'
      /\ \A x \in c.ids : \A id \in 1 .. x : id \in c.ids \/ Heard(id)'
  BY <1>2 DEF GoodPoll
<1> QED BY <1>1, <1>3, <1>4 DEF GoodPoll

(* An answer changes only the state of a poll, or its ids.                 *)
LEMMA PollState ==
  ASSUME NEW c, GoodPoll(c), NEW st \in {"sent", "held", "answer", "error"}
  PROVE  GoodPoll([c EXCEPT !.state = st])
<1>1. PICK o, s, ids2 : c = [offset |-> o, state |-> s, ids |-> ids2] /\ o \in Nat /\ ids2 \in SUBSET Nat
  BY DEF GoodPoll, Polls
<1>2. PICK d : d = [offset |-> o, state |-> st, ids |-> ids2]
  OBVIOUS
<1>3. [c EXCEPT !.state = st] = d
  BY <1>1, <1>2
<1>4. d \in Polls /\ d.offset = c.offset /\ d.ids = c.ids
  BY <1>1, <1>2 DEF Polls
<1>5. GoodPoll(d)
  BY <1>4 DEF GoodPoll
<1> QED BY <1>3, <1>5

LEMMA Removed ==
  ASSUME NEW w \in Seq(Polls), NEW i \in 1 .. Len(w)
  PROVE  /\ G!Without(w, i) \in Seq(Polls)
         /\ \A k \in 1 .. Len(G!Without(w, i)) : \E j \in 1 .. Len(w) : G!Without(w, i)[k] = w[j]
<1>1. PICK n \in Nat : n = Len(w)
  OBVIOUS
<1>2. PICK a : a = SubSeq(w, 1, i - 1)
  BY Zenon
<1>3. PICK b : b = SubSeq(w, i + 1, Len(w))
  BY Zenon
<1>4. /\ a \in Seq(Polls) /\ Len(a) = i - 1 /\ \A k \in 1 .. i - 1 : a[k] = w[k]
      /\ b \in Seq(Polls) /\ Len(b) = n - i /\ \A k \in 1 .. n - i : b[k] = w[i + k]
  <2>1. a \in Seq(Polls) /\ Len(a) = i - 1 /\ \A k \in 1 .. i - 1 : a[k] = w[k]
    BY <1>1, <1>2
  <2>2. b \in Seq(Polls) /\ Len(b) = n - i /\ \A k \in 1 .. n - i : b[k] = w[(i + 1) + k - 1]
    BY <1>1, <1>3
  <2>3. \A k \in 1 .. n - i : (i + 1) + k - 1 = i + k
    BY <1>1
  <2> QED BY <2>1, <2>2, <2>3
<1>5. G!Without(w, i) = a \o b
  BY <1>2, <1>3 DEF G!Without
<1>6. ASSUME NEW k \in 1 .. Len(a \o b) PROVE \E j \in 1 .. n : (a \o b)[k] = w[j]
  <2>1. Len(a \o b) = (i - 1) + (n - i) /\ k \in 1 .. (i - 1) + (n - i)
    BY <1>4
  <2>2. CASE k <= i - 1
    <3>1. (a \o b)[k] = w[k] /\ k \in 1 .. n
      BY <1>1, <1>4, <2>1, <2>2
    <3> QED BY <3>1
  <2>3. CASE ~(k <= i - 1)
    <3>1. k - (i - 1) \in 1 .. n - i /\ i + (k - (i - 1)) \in 1 .. n
      BY <1>1, <2>1, <2>3
    <3>2. (a \o b)[k] = b[k - (i - 1)]
      BY <1>4, <2>1, <2>3
    <3>3. b[k - (i - 1)] = w[i + (k - (i - 1))]
      BY <1>4, <3>1
    <3> QED BY <3>1, <3>2, <3>3
  <2> QED BY <2>2, <2>3
<1>7. a \o b \in Seq(Polls)
  BY <1>4
<1> QED BY <1>1, <1>5, <1>6, <1>7

(* What a step adds is added for good, and what was sent stays good.       *)
BotGrows ==
  arrived \in Nat /\ arrived' \in Nat /\ arrived <= arrived' /\ processed \subseteq processed' /\ peers \subseteq peers'

LEMMA CallsStayGood ==
  ASSUME BotGrows, NEW w \in Seq(Polls), tgCalls' = w, \A k \in 1 .. Len(w) : GoodPoll(w[k])
  PROVE  (tgCalls \in Seq(Polls) /\ \A k \in 1 .. Len(tgCalls) : GoodPoll(tgCalls[k]))'
<1>1. \A c : GoodPoll(c) => GoodPoll(c)'
  BY PollStaysGood DEF BotGrows
<1>2. \A k \in 1 .. Len(w) : GoodPoll(w[k])'
  BY <1>1
<1> QED BY <1>2

(* A new poll asks for what comes after the updates that were processed.   *)
LEMMA PollSent ==
  ASSUME BotInv
  PROVE  GoodPoll([offset |-> updateId + 1, state |-> "sent", ids |-> {}])
<1>1. updateId \in Nat /\ updateId <= arrived /\ arrived \in Nat
  BY BotConstants DEF BotInv, G!TelegramTypeOK
<1>2. PICK c : c = [offset |-> updateId + 1, state |-> "sent", ids |-> {}]
  BY Zenon
<1>3. c \in Polls /\ c.offset = updateId + 1 /\ c.ids = {}
  BY <1>1, <1>2 DEF Polls
<1>4. c.offset - 1 = updateId
  BY <1>1, <1>3
<1>5. \A id \in 1 .. c.offset - 1 : Heard(id)
  BY <1>4 DEF BotInv
<1>6. GoodPoll(c)
  BY <1>1, <1>3, <1>4, <1>5 DEF GoodPoll
<1> QED BY <1>2, <1>6, Zenon

(* The server answers with all it has not forgotten from the offset on.    *)
LEMMA AnswerGood ==
  ASSUME BotInv, NEW c, GoodPoll(c)
  PROVE  GoodPoll([c EXCEPT !.state = "answer", !.ids = G!Max({forgotten + 1, c.offset}) .. arrived])
<1>1. arrived \in Nat /\ forgotten \in Nat /\ c \in Polls /\ c.offset \in Nat
  BY BotConstants DEF BotInv, G!TelegramTypeOK, GoodPoll, Polls
<1>2. PICK lo : lo = G!Max({forgotten + 1, c.offset})
  BY Zenon
<1>3. lo \in Nat /\ lo >= 1 /\ (lo = forgotten + 1 \/ lo = c.offset)
  <2>1. forgotten + 1 \in 0 .. forgotten + 1 + c.offset /\ c.offset \in 0 .. forgotten + 1 + c.offset
    BY <1>1
  <2>2. PICK n \in Nat : n = forgotten + 1 + c.offset
    BY <1>1
  <2>3. PICK s : s = {forgotten + 1, c.offset}
    BY Zenon
  <2>4. s \in SUBSET (0 .. n) /\ s # {}
    BY <2>1, <2>2, <2>3
  <2>5. G!Max(s) \in s
    BY <2>4, GreatestOf
  <2>6. lo \in {forgotten + 1, c.offset}
    BY <1>2, <2>3, <2>5
  <2>7. c.offset >= 1
    BY DEF GoodPoll
  <2> QED BY <1>1, <2>6, <2>7
<1>4. \A id \in 1 .. lo - 1 : Heard(id)
  <2>1. CASE lo = forgotten + 1
    <3>1. lo - 1 = forgotten
      BY <1>1, <2>1
    <3> QED BY <3>1 DEF BotInv
  <2>2. CASE lo = c.offset
    BY <2>2 DEF GoodPoll
  <2> QED BY <1>3, <2>1, <2>2
<1>5. PICK d : d = [offset |-> c.offset, state |-> "answer", ids |-> lo .. arrived]
  BY Zenon
<1>6. [c EXCEPT !.state = "answer", !.ids = lo .. arrived] = d
  <2>1. PICK o, s, ids2 : c = [offset |-> o, state |-> s, ids |-> ids2]
    BY <1>1 DEF Polls
  <2>2. PICK e : e = [c EXCEPT !.state = "answer"]
    BY Zenon
  <2>3. e = [offset |-> o, state |-> "answer", ids |-> ids2]
    BY <2>1, <2>2
  <2>4. c.offset = o
    BY <2>1
  <2>5. [e EXCEPT !.ids = lo .. arrived] = [offset |-> o, state |-> "answer", ids |-> lo .. arrived]
    BY <2>3
  <2> QED BY <1>5, <2>2, <2>4, <2>5, Zenon
<1>7. d \in Polls /\ d.offset = c.offset /\ d.ids = lo .. arrived
  BY <1>1, <1>3, <1>5 DEF Polls
<1>8. \A x \in d.ids : \A id \in 1 .. x : id \in d.ids \/ Heard(id)
  <2> SUFFICES ASSUME NEW x \in lo .. arrived, NEW id \in 1 .. x PROVE id \in lo .. arrived \/ Heard(id)
    BY <1>7
  <2>1. CASE id >= lo
    BY <1>1, <1>3, <2>1
  <2>2. CASE ~(id >= lo)
    <3>1. id \in 1 .. lo - 1
      BY <1>1, <1>3, <2>2
    <3> QED BY <1>4, <3>1
  <2> QED BY <2>1, <2>2
<1>9. d.ids \subseteq 1 .. arrived
  BY <1>1, <1>3, <1>7
<1>10. GoodPoll(d)
  BY <1>7, <1>8, <1>9 DEF GoodPoll
<1> QED BY <1>2, <1>6, <1>10, Zenon

LEMMA BotNext == BotInv /\ G!Next => BotInv'
<1> SUFFICES ASSUME BotInv, G!Next PROVE BotInv'
  OBVIOUS
<1> DEFINE Sound == /\ \A id \in 1 .. updateId : Heard(id)
                    /\ \A id \in 1 .. forgotten : Heard(id)
<1>types. /\ arrived \in Nat /\ forgotten \in Nat /\ updateId \in Nat
          /\ arrived <= Len(BotSender) /\ forgotten <= arrived /\ updateId <= arrived
          /\ tgTimer \in BOOLEAN /\ quitting \in BOOLEAN /\ due \in Nat /\ tgFaults \in 0 .. BotFaults
          /\ peers \subseteq G!Range(BotSender) /\ processed \subseteq 1 .. arrived
          /\ Len(BotSender) \in Nat /\ BotFaults \in Nat
          /\ tgCalls \in Seq(Polls) /\ \A k \in 1 .. Len(tgCalls) : GoodPoll(tgCalls[k])
  BY BotConstants DEF BotInv, G!TelegramTypeOK
<1>good. \A k \in DOMAIN tgCalls : GoodPoll(tgCalls[k]) /\ tgCalls[k] \in Polls
  BY <1>types
(* From the parts of a step to the invariant after it.                     *)
<1>whole. ASSUME BotGrows, G!TelegramTypeOK', NEW w \in Seq(Polls), tgCalls' = w,
                 \A k \in 1 .. Len(w) : GoodPoll(w[k]), Sound'
          PROVE  BotInv'
  <2>1. (tgCalls \in Seq(Polls) /\ \A k \in 1 .. Len(tgCalls) : GoodPoll(tgCalls[k]))'
    BY <1>whole, CallsStayGood
  <2> QED BY <1>whole, <2>1 DEF BotInv
<1>typed. ASSUME arrived' = arrived, forgotten' \in 0 .. arrived, updateId' \in 0 .. arrived, tgTimer' \in BOOLEAN,
                 quitting' \in BOOLEAN, due' \in Nat, tgFaults' \in 0 .. BotFaults,
                 peers' \subseteq G!Range(BotSender), processed' \subseteq 1 .. arrived
          PROVE  G!TelegramTypeOK'
  <2>1. arrived' \in 0 .. Len(BotSender)
    BY <1>types, <1>typed
  <2> QED BY <1>typed, <2>1 DEF G!TelegramTypeOK
<1>kept. forgotten \in 0 .. arrived /\ updateId \in 0 .. arrived
  BY <1>types
<1>same. ASSUME UNCHANGED <<arrived, forgotten, updateId, peers, processed>>
         PROVE  BotGrows /\ Sound'
  BY <1>same, <1>types DEF BotGrows, Heard, BotInv
<1>1. ASSUME G!GetUpdates PROVE BotInv'
  <2>1. UNCHANGED <<arrived, forgotten, updateId, peers, quitting, processed, tgFaults>>
        /\ due' = due - 1 /\ due > 0 /\ tgTimer' = TRUE
    BY <1>1 DEF G!GetUpdates
  <2>2. G!TelegramTypeOK'
    BY <1>types, <1>typed, <1>kept, <2>1
  <2>3. CASE tgCalls' = tgCalls
    BY <1>types, <1>same, <1>whole, <2>1, <2>2, <2>3
  <2>4. CASE tgCalls' = Append(tgCalls, [offset |-> updateId + 1, state |-> "sent", ids |-> {}])
    <3>1. PICK c : c = [offset |-> updateId + 1, state |-> "sent", ids |-> {}]
      BY Zenon
    <3>2. GoodPoll(c) /\ c \in Polls
      BY <3>1, PollSent DEF GoodPoll
    <3>3. PICK w : w = Append(tgCalls, c)
      BY Zenon
    <3>4. w \in Seq(Polls) /\ \A k \in 1 .. Len(w) : GoodPoll(w[k])
      BY <1>types, <3>2, <3>3
    <3>5. tgCalls' = w
      BY <2>4, <3>1, <3>3
    <3> QED BY <1>same, <1>whole, <2>1, <2>2, <3>4, <3>5
  <2>5. tgCalls' = tgCalls \/ tgCalls' = Append(tgCalls, [offset |-> updateId + 1, state |-> "sent", ids |-> {}])
    BY <1>1 DEF G!GetUpdates, G!Offset
  <2> QED BY <2>3, <2>4, <2>5
<1>2. ASSUME G!TimerExpires PROVE BotInv'
  <2>1. UNCHANGED <<arrived, forgotten, tgCalls, updateId, peers, quitting, processed>>
        /\ due' = due + 1 /\ tgTimer' = FALSE /\ tgFaults' \in 0 .. BotFaults
    BY <1>2, <1>types DEF G!TimerExpires
  <2>2. G!TelegramTypeOK'
    <3>1. arrived' = arrived /\ forgotten' \in 0 .. arrived /\ updateId' \in 0 .. arrived /\ due' \in Nat
      BY <1>types, <1>kept, <2>1
    <3>3. quitting' = quitting /\ quitting \in BOOLEAN /\ tgTimer' = FALSE
      BY <1>types, <2>1
    <3>4. tgTimer' \in BOOLEAN /\ quitting' \in BOOLEAN
      BY <3>3, Zenon
    <3>2. peers' \subseteq G!Range(BotSender) /\ processed' \subseteq 1 .. arrived
      BY <1>types, <2>1
    <3> QED BY <1>typed, <2>1, <3>1, <3>2, <3>4
  <2> QED BY <1>types, <1>same, <1>whole, <2>1, <2>2
<1>3. ASSUME G!Arrive PROVE BotInv'
  <2>1. UNCHANGED <<forgotten, tgCalls, updateId, tgTimer, due, peers, quitting, processed, tgFaults>>
        /\ arrived' = arrived + 1 /\ arrived < Len(BotSender)
    BY <1>3 DEF G!Arrive
  <2>2. G!TelegramTypeOK'
    <3>1. arrived' \in 0 .. Len(BotSender) /\ forgotten' \in 0 .. arrived' /\ updateId' \in 0 .. arrived'
      BY <1>types, <2>1
    <3>2. processed' \subseteq 1 .. arrived'
      BY <1>types, <2>1
    <3> QED BY <1>types, <2>1, <3>1, <3>2 DEF G!TelegramTypeOK
  <2>3. BotGrows
    BY <1>types, <2>1 DEF BotGrows
  <2>4. Sound'
    BY <2>1 DEF BotInv, Heard
  <2> QED BY <1>types, <1>whole, <2>1, <2>2, <2>3, <2>4
<1>4. ASSUME G!Quit \/ G!Die PROVE BotInv'
  <2>1. PICK gone \in SUBSET DOMAIN tgCalls :
          forgotten' = G!Max({forgotten} \cup {tgCalls[i].offset - 1 : i \in gone})
    BY <1>4 DEF G!Quit, G!Die, G!Ended
  <2>2. UNCHANGED <<arrived, peers, processed>> /\ tgCalls' = <<>> /\ updateId' = 0 /\ tgTimer' = FALSE
        /\ due' = 1 /\ quitting' = FALSE
    BY <1>4 DEF G!Quit, G!Die, G!Ended, G!Started
  <2>3. tgFaults' \in 0 .. BotFaults
    BY <1>4, <1>types DEF G!Quit, G!Die
  <2>4. PICK s : s = {forgotten} \cup {tgCalls[i].offset - 1 : i \in gone}
    BY Zenon
  <2>5. \A j \in s : j \in 0 .. arrived /\ \A id \in 1 .. j : Heard(id)
    <3>1. \A i \in gone : /\ tgCalls[i].offset - 1 \in 0 .. arrived
                           /\ \A id \in 1 .. tgCalls[i].offset - 1 : Heard(id)
      BY <1>good, <1>types DEF GoodPoll, Polls
    <3> QED BY <1>types, <2>4, <3>1 DEF BotInv
  <2>6. s \in SUBSET (0 .. arrived) /\ s # {} /\ forgotten \in s
    BY <2>4, <2>5
  <2>7. forgotten' \in s
    <3>1. G!Max(s) \in s
      BY <1>types, <2>6, GreatestOf
    <3> QED BY <2>1, <2>4, <3>1
  <2>8. forgotten' \in 0 .. arrived /\ \A id \in 1 .. forgotten' : Heard(id)
    BY <2>5, <2>7
  <2>9. G!TelegramTypeOK'
    <3>1. updateId' \in 0 .. arrived
      BY <1>types, <2>2
    <3> QED BY <1>types, <1>typed, <2>2, <2>3, <2>8, <3>1
  <2>10. BotGrows
    BY <1>types, <2>2 DEF BotGrows
  <2>11. Sound'
    BY <2>2, <2>8 DEF Heard
  <2>12. <<>> \in Seq(Polls) /\ \A k \in 1 .. Len(<<>>) : GoodPoll(<<>>[k])
    OBVIOUS
  <2> QED BY <1>whole, <2>2, <2>9, <2>10, <2>11, <2>12
<1>5. ASSUME NEW i \in DOMAIN tgCalls, G!ServerTakes(i) PROVE BotInv'
  <2>1. PICK w : w = [j \in DOMAIN tgCalls |->
                        IF j = i THEN [tgCalls[j] EXCEPT !.state = "held"]
                        ELSE IF tgCalls[j].state = "held" THEN [tgCalls[j] EXCEPT !.state = "error"]
                        ELSE tgCalls[j]]
    BY Zenon
  <2>2. \A k \in DOMAIN tgCalls : GoodPoll(w[k])
    <3>1. \A k \in DOMAIN tgCalls : \A st \in {"sent", "held", "answer", "error"} :
            GoodPoll([tgCalls[k] EXCEPT !.state = st])
      BY <1>good, PollState, Zenon
    <3> QED BY <1>good, <2>1, <3>1
  <2>3. w \in Seq(Polls) /\ Len(w) = Len(tgCalls)
    <3>1. \A k \in DOMAIN tgCalls : w[k] \in Polls
      BY <2>2 DEF GoodPoll
    <3>2. DOMAIN w = 1 .. Len(tgCalls) /\ Len(tgCalls) \in Nat
      BY <1>types, <2>1
    <3>3. w \in [1 .. Len(tgCalls) -> Polls]
      <4>1. w = [k \in DOMAIN tgCalls |-> w[k]] /\ DOMAIN tgCalls = 1 .. Len(tgCalls)
        BY <1>types, <2>1
      <4> QED BY <3>1, <4>1, Zenon
    <3> QED BY <3>2, <3>3
  <2>4. tgCalls' = w /\ UNCHANGED <<arrived, updateId, tgTimer, due, peers, quitting, processed, tgFaults>>
    BY <1>5, <2>1 DEF G!ServerTakes
  <2>5. forgotten' \in 0 .. arrived /\ \A id \in 1 .. forgotten' : Heard(id)
    <3>1. forgotten' = G!Max({forgotten, tgCalls[i].offset - 1})
      BY <1>5 DEF G!ServerTakes
    <3>2. /\ tgCalls[i].offset - 1 \in 0 .. arrived
          /\ \A id \in 1 .. tgCalls[i].offset - 1 : Heard(id)
      BY <1>good, <1>types DEF GoodPoll, Polls
    <3>3. PICK s : s = {forgotten, tgCalls[i].offset - 1}
      BY Zenon
    <3>4. s \in SUBSET (0 .. arrived) /\ s # {}
      BY <1>types, <3>2, <3>3
    <3>5. G!Max(s) \in s
      BY <1>types, <3>4, GreatestOf
    <3>6. forgotten' = forgotten \/ forgotten' = tgCalls[i].offset - 1
      BY <3>1, <3>3, <3>5
    <3> QED BY <1>types, <3>2, <3>6 DEF BotInv
  <2>6. G!TelegramTypeOK'
    BY <1>types, <1>typed, <1>kept, <2>4, <2>5
  <2>7. BotGrows
    BY <1>types, <2>4 DEF BotGrows
  <2>8. Sound'
    BY <2>4, <2>5 DEF BotInv, Heard
  <2> QED BY <1>whole, <2>2, <2>3, <2>4, <2>6, <2>7, <2>8
<1>6. ASSUME NEW i \in DOMAIN tgCalls, NEW d, GoodPoll(d), tgCalls' = [tgCalls EXCEPT ![i] = d],
             UNCHANGED <<arrived, forgotten, updateId, tgTimer, due, peers, quitting, processed>>,
             tgFaults' \in 0 .. BotFaults
      PROVE  BotInv'
  <2>1. PICK w : w = [tgCalls EXCEPT ![i] = d]
    BY Zenon
  <2>2. d \in Polls
    BY <1>6 DEF GoodPoll
  <2>3. w \in Seq(Polls) /\ Len(w) = Len(tgCalls) /\ \A k \in 1 .. Len(w) : w[k] = d \/ w[k] = tgCalls[k]
    BY <1>types, <2>1, <2>2
  <2>4. \A k \in 1 .. Len(w) : GoodPoll(w[k])
    BY <1>6, <1>types, <2>3
  <2>5. G!TelegramTypeOK'
    BY <1>6, <1>types, <1>typed, <1>kept
  <2>6. tgCalls' = w
    BY <1>6, <2>1
  <2> QED BY <1>6, <1>same, <1>whole, <2>3, <2>4, <2>5, <2>6
<1>7. ASSUME NEW i \in DOMAIN tgCalls, G!ServerAnswers(i) PROVE BotInv'
  <2>1. PICK d : d = [tgCalls[i] EXCEPT !.state = "answer", !.ids = G!Max({forgotten + 1, tgCalls[i].offset}) .. arrived]
    BY Zenon
  <2>2. PICK c : c = tgCalls[i]
    BY Zenon
  <2>3. GoodPoll(c)
    BY <1>good, <2>2
  <2>4. GoodPoll(d)
    BY <2>1, <2>2, <2>3, AnswerGood, Zenon
  <2>5. tgCalls' = [tgCalls EXCEPT ![i] = d]
    BY <1>7, <1>types, <2>1 DEF G!ServerAnswers
  <2>6. UNCHANGED <<arrived, forgotten, updateId, tgTimer, due, peers, quitting, processed>>
        /\ tgFaults' \in 0 .. BotFaults
    BY <1>7, <1>types DEF G!ServerAnswers
  <2> QED BY <1>6, <2>4, <2>5, <2>6
<1>8. ASSUME NEW i \in DOMAIN tgCalls, G!CallFails(i) PROVE BotInv'
  <2>1. PICK d : d = [tgCalls[i] EXCEPT !.state = "error"]
    BY Zenon
  <2>2. PICK c : c = tgCalls[i]
    BY Zenon
  <2>3. GoodPoll(c)
    BY <1>good, <2>2
  <2>4. GoodPoll(d)
    BY <2>1, <2>2, <2>3, PollState, Zenon
  <2>5. tgCalls' = [tgCalls EXCEPT ![i] = d]
    BY <1>8, <1>types, <2>1 DEF G!CallFails
  <2>6. UNCHANGED <<arrived, forgotten, updateId, tgTimer, due, peers, quitting, processed>>
        /\ tgFaults' \in 0 .. BotFaults
    BY <1>8, <1>types DEF G!CallFails
  <2> QED BY <1>6, <2>4, <2>5, <2>6
(* What is left when a poll was answered is good.                          *)
<1>9. ASSUME NEW i \in DOMAIN tgCalls
      PROVE  /\ G!Without(tgCalls, i) \in Seq(Polls)
             /\ \A k \in 1 .. Len(G!Without(tgCalls, i)) : GoodPoll(G!Without(tgCalls, i)[k])
  <2>1. PICK w \in Seq(Polls) : w = tgCalls
    BY <1>types
  <2>2. i \in 1 .. Len(w)
    BY <2>1
  <2>3. /\ G!Without(w, i) \in Seq(Polls)
        /\ \A k \in 1 .. Len(G!Without(w, i)) : \E j \in 1 .. Len(w) : G!Without(w, i)[k] = w[j]
    BY <2>2, Removed
  <2>4. \A k \in 1 .. Len(w) : GoodPoll(w[k])
    BY <1>types, <2>1
  <2>5. PICK u : u = G!Without(w, i)
    BY Zenon
  <2>6. u \in Seq(Polls) /\ \A k \in 1 .. Len(u) : GoodPoll(u[k])
    BY <2>3, <2>4, <2>5, Zenon
  <2> QED BY <2>1, <2>5, <2>6
<1>10. ASSUME NEW i \in DOMAIN tgCalls, G!AnsweredError(i) PROVE BotInv'
  <2>1. UNCHANGED <<arrived, forgotten, updateId, tgTimer, due, peers, quitting, processed, tgFaults>>
        /\ tgCalls' = G!Without(tgCalls, i)
    BY <1>10 DEF G!AnsweredError
  <2>2. G!TelegramTypeOK'
    BY <1>types, <1>typed, <1>kept, <2>1
  <2>3. PICK w : w = G!Without(tgCalls, i)
    BY Zenon
  <2>4. w \in Seq(Polls) /\ \A k \in 1 .. Len(w) : GoodPoll(w[k])
    BY <1>9, <2>3, Zenon
  <2>5. tgCalls' = w
    BY <2>1, <2>3
  <2> QED BY <1>same, <1>whole, <2>1, <2>2, <2>4, <2>5
<1>11. ASSUME NEW i \in DOMAIN tgCalls, G!Answered(i) PROVE BotInv'
  <2>1. PICK got : got = tgCalls[i].ids
    BY Zenon
  <2>2. /\ tgCalls' = G!Without(tgCalls, i)
        /\ updateId' = (IF got = {} THEN updateId ELSE G!Max(got))
        /\ peers' = peers \cup {BotSender[id] : id \in {k \in got : G!MakesPeer(k)}}
        /\ processed' = processed \cup got
        /\ quitting' \in BOOLEAN /\ tgTimer' = FALSE /\ due' = due + 1
        /\ UNCHANGED <<arrived, forgotten, tgFaults>>
    BY <1>11, <2>1 DEF G!Answered
  <2>3. got \subseteq 1 .. arrived /\ \A x \in got : \A id \in 1 .. x : id \in got \/ Heard(id)
    BY <1>good, <2>1 DEF GoodPoll
  <2>4. \A id : Heard(id) => Heard(id)'
    BY <2>2 DEF Heard
  <2>5. \A id \in got : Heard(id)'
    BY <2>2 DEF Heard
  <2>6. updateId' \in 0 .. arrived /\ \A id \in 1 .. updateId' : Heard(id)'
    <3>1. CASE got = {}
      BY <1>types, <2>2, <2>4, <3>1 DEF BotInv
    <3>2. CASE got # {}
      <4>1. got \in SUBSET (0 .. arrived)
        BY <1>types, <2>3
      <4>2. G!Max(got) \in got
        BY <1>types, <3>2, <4>1, GreatestOf
      <4>3. updateId' \in got
        BY <2>2, <3>2, <4>2
      <4> QED BY <1>types, <2>3, <2>4, <2>5, <4>1, <4>3
    <3> QED BY <3>1, <3>2
  <2>7. \A id \in 1 .. forgotten' : Heard(id)'
    BY <2>2, <2>4 DEF BotInv
  <2>8. Sound'
    BY <2>6, <2>7
  <2>9. BotGrows
    BY <1>types, <2>2 DEF BotGrows
  <2>10. G!TelegramTypeOK'
    <3>1. \A id \in got : BotSender[id] \in G!Range(BotSender)
      <4>1. got \subseteq 1 .. Len(BotSender)
        BY <1>types, <2>3
      <4> QED BY <4>1, BotConstants
    <3>2. peers' \subseteq G!Range(BotSender)
      BY <1>types, <2>2, <3>1
    <3>3. processed' \subseteq 1 .. arrived
      BY <1>types, <2>2, <2>3
    <3>4. due' \in Nat /\ forgotten' \in 0 .. arrived /\ tgFaults' \in 0 .. BotFaults
      BY <1>types, <1>kept, <2>2
    <3> QED BY <1>typed, <2>2, <2>6, <3>2, <3>3, <3>4
  <2>11. PICK w : w = G!Without(tgCalls, i)
    BY Zenon
  <2>12. w \in Seq(Polls) /\ \A k \in 1 .. Len(w) : GoodPoll(w[k])
    BY <1>9, <2>11, Zenon
  <2>13. tgCalls' = w
    BY <2>2, <2>11
  <2> QED BY <1>whole, <2>8, <2>9, <2>10, <2>12, <2>13
<1> QED BY <1>1, <1>2, <1>3, <1>4, <1>5, <1>7, <1>8, <1>10, <1>11 DEF G!Next

-----------------------------------------------------------------------------
(* The tree of hscope-old.  A change of a node is told upwards until       *)
(* nothing changes: after it the node is right, and what was right still   *)
(* is.                                                                     *)

Levels == T!Error .. T!Unknown
Overalls == [T!Nodes -> Levels]

Right(st, ov, n) == ov[n] = T!Worst(st, ov, n)

TreeInv ==
  /\ T!TypeOK /\ stReloads \in Nat
  /\ stReloads = 0 => \A n \in T!Nodes : Right(status, overall, n)

LEMMA TreeConstants ==
  /\ TreeTests \cap {"brokers", "broker", "agents", "agent", "tests"} = {}
  /\ TreePeriodic \subseteq TreeTests /\ T!Result \in [TreeTests -> Levels]
  /\ TreeFaults \in Nat /\ TreeReloads \in Nat /\ TreeRuns \in Nat
BY ScopesAssumption DEF T!StatusTreeAssumption, Levels

LEMMA LevelValues ==
  T!Error = 0 /\ T!Warning = 1 /\ T!Ok = 2 /\ T!Disabled = 3 /\ T!Unknown = 4 /\ Levels = 0 .. 4
BY DEF T!Error, T!Warning, T!Ok, T!Disabled, T!Unknown, Levels

LEMMA LeastOf ==
  ASSUME NEW s \in SUBSET Levels, s # {}
  PROVE  T!Min(s) \in s /\ \A x \in s : T!Min(s) <= x
<1>1. s \subseteq Nat
  BY LevelValues
<1>2. \E m \in s : \A x \in s : m <= x
  BY <1>1, NatLeast, Zenon
<1> QED BY <1>2, Zenon DEF T!Min

(* The tree: a node is a child of its parent only.                         *)
LEMMA Family ==
  /\ \A n \in T!Nodes : T!Parent(n) \in T!Nodes /\ T!Parent(n) # n
  /\ \A n, m \in T!Nodes : n \in T!Children(m) <=> (n # "brokers" /\ m = T!Parent(n))
  /\ \A m \in T!Nodes : T!Children(m) \subseteq T!Nodes
<1>1. \A n \in T!Nodes : T!Parent(n) \in T!Nodes /\ T!Parent(n) # n
  BY TreeConstants DEF T!Parent, T!Nodes
<1> QED BY <1>1 DEF T!Children

(* What a node is to show: its own status, or the worst of that and what   *)
(* the children show.                                                      *)
LEMMA WorstOf ==
  ASSUME NEW st \in Overalls, NEW ov \in Overalls, NEW n \in T!Nodes
  PROVE  /\ T!Worst(st, ov, n) \in Levels
         /\ n \in disabled => T!Worst(st, ov, n) = st[n]
<1>1. PICK s : s = {st[n], T!Unknown} \cup {ov[c] : c \in T!Children(n)}
  BY Zenon
<1>2. s \in SUBSET Levels /\ s # {}
  <2>1. \A c \in T!Children(n) : ov[c] \in Levels
    BY Family DEF Overalls
  <2>2. st[n] \in Levels /\ T!Unknown \in Levels
    BY LevelValues DEF Overalls
  <2> QED BY <1>1, <2>1, <2>2
<1>3. T!Min(s) \in Levels
  BY <1>2, LeastOf
<1> QED BY <1>1, <1>3 DEF T!Worst, Overalls

(* Another node shows the same as long as its status and its children do.  *)
LEMMA WorstSame ==
  ASSUME NEW st, NEW st2, NEW ov, NEW ov2, NEW m \in T!Nodes, st2[m] = st[m],
         \A c \in T!Children(m) : ov2[c] = ov[c]
  PROVE  T!Worst(st2, ov2, m) = T!Worst(st, ov, m)
<1>1. {ov2[c] : c \in T!Children(m)} = {ov[c] : c \in T!Children(m)}
  OBVIOUS
<1> QED BY <1>1, Zenon DEF T!Worst

LEMMA NodeUpdates ==
  ASSUME NEW st \in Overalls, NEW ov \in Overalls, NEW n \in T!Nodes
  PROVE  /\ T!NodeUpdated(st, ov, n) \in Overalls
         /\ T!NodeUpdated(st, ov, n)[n] = T!Worst(st, ov, n)
         /\ \A m \in T!Nodes \ {n} : T!NodeUpdated(st, ov, n)[m] = ov[m]
         /\ Right(st, T!NodeUpdated(st, ov, n), n)
         /\ \A m \in T!Nodes : m # n /\ (n = "brokers" \/ m # T!Parent(n)) /\ Right(st, ov, m)
                                 => Right(st, T!NodeUpdated(st, ov, n), m)
<1>1. PICK level : level = T!Worst(st, ov, n)
  BY Zenon
<1>2. level \in Levels
  BY <1>1, WorstOf
<1>3. PICK newer : newer = [ov EXCEPT ![n] = level]
  BY Zenon
<1>4. newer \in Overalls /\ newer[n] = level /\ \A m \in T!Nodes \ {n} : newer[m] = ov[m]
  BY <1>2, <1>3 DEF Overalls
<1>5. \A m \in T!Nodes : n \notin T!Children(m) => T!Worst(st, newer, m) = T!Worst(st, ov, m)
  <2> SUFFICES ASSUME NEW m \in T!Nodes, n \notin T!Children(m) PROVE T!Worst(st, newer, m) = T!Worst(st, ov, m)
    BY Zenon
  <2>1. \A c \in T!Children(m) : newer[c] = ov[c]
    BY <1>4, Family
  <2> QED BY <2>1, WorstSame
<1>6. n \notin T!Children(n)
  BY Family
<1>7. T!NodeUpdated(st, ov, n) = newer
  BY <1>1, <1>3 DEF T!NodeUpdated
<1>8. Right(st, newer, n)
  BY <1>1, <1>4, <1>5, <1>6 DEF Right
<1>9. ASSUME NEW m \in T!Nodes, m # n, n = "brokers" \/ m # T!Parent(n), Right(st, ov, m)
      PROVE  Right(st, newer, m)
  <2>1. n \notin T!Children(m)
    BY <1>9, Family
  <2> QED BY <1>4, <1>5, <1>9, <2>1 DEF Right
<1> QED BY <1>1, <1>4, <1>7, <1>8, <1>9, Zenon

(* Who is told, and with which levels.                                     *)
IsTold(told, st) ==
  told = [x \in T!Nodes \X [T!Nodes -> T!Error .. T!Unknown] |->
            LET n == x[1]
                newer == T!NodeUpdated(st, x[2], n)
            IN IF newer[n] = x[2][n] THEN x[2]
               ELSE IF n = "brokers" THEN newer ELSE told[<<T!Parent(n), newer>>]]

Height == [n \in T!Nodes |-> CASE n = "brokers" -> 0 [] n = "broker" -> 1 [] n = "agents" -> 2
                               [] n = "agent" -> 3 [] n = "tests" -> 4 [] OTHER -> 5]

LEMMA Heights ==
  /\ \A n \in T!Nodes : Height[n] \in 0 .. 5
  /\ \A n \in T!Nodes : n # "brokers" => Height[T!Parent(n)] < Height[n]
<1>1. \A n \in T!Nodes : Height[n] = (CASE n = "brokers" -> 0 [] n = "broker" -> 1 [] n = "agents" -> 2
                                        [] n = "agent" -> 3 [] n = "tests" -> 4 [] OTHER -> 5)
  BY DEF Height
<1>2. {"brokers", "broker", "agents", "agent", "tests"} \subseteq T!Nodes
  BY DEF T!Nodes
<1>3. ASSUME NEW n \in T!Nodes, n # "brokers" PROVE Height[T!Parent(n)] < Height[n]
  <2>1. CASE n = "broker"
    BY <1>1, <1>2, <2>1 DEF T!Parent
  <2>2. CASE n = "agents"
    BY <1>1, <1>2, <2>2 DEF T!Parent
  <2>3. CASE n = "agent"
    BY <1>1, <1>2, <2>3 DEF T!Parent
  <2>4. CASE n = "tests"
    BY <1>1, <1>2, <2>4 DEF T!Parent
  <2>5. CASE n \notin {"broker", "agents", "agent", "tests"}
    <3>1. T!Parent(n) = "tests"
      BY <2>5 DEF T!Parent
    <3>2. Height["tests"] = 4 /\ Height[n] = 5
      BY <1>1, <1>2, <1>3, <2>5
    <3> QED BY <3>1, <3>2
  <2> QED BY <2>1, <2>2, <2>3, <2>4, <2>5
<1>4. \A n \in T!Nodes : Height[n] \in 0 .. 5
  BY <1>1
<1> QED BY <1>3, <1>4

LEMMA ToldExists ==
  ASSUME NEW st \in Overalls
  PROVE  \E told : IsTold(told, st)
<1>1. PICK dom : dom = T!Nodes \X Overalls
  BY Zenon
<1>2. PICK newer : newer = [x \in dom |-> T!NodeUpdated(st, x[2], x[1])]
  BY Zenon
<1>3. \A x \in dom : x[1] \in T!Nodes /\ x[2] \in Overalls /\ newer[x] = T!NodeUpdated(st, x[2], x[1])
  BY <1>1, <1>2
<1>4. \A x \in dom : newer[x] \in Overalls
  <2>1. \A n \in T!Nodes : \A ov \in Overalls : T!NodeUpdated(st, ov, n) \in Overalls
    BY NodeUpdates
  <2> QED BY <1>3, <2>1
<1>5. PICK stops : stops = {x \in dom : x[1] = "brokers" \/ newer[x][x[1]] = x[2][x[1]]}
  BY Zenon
<1>6. PICK res : res = [x \in dom |-> IF newer[x][x[1]] = x[2][x[1]] THEN x[2] ELSE newer[x]]
  BY Zenon
<1>7. PICK next1 : next1 = [x \in dom |-> <<T!Parent(x[1]), newer[x]>>]
  BY Zenon
<1>8. PICK rank : rank = [x \in dom |-> Height[x[1]]]
  BY Zenon
<1>9. stops \in SUBSET dom /\ res \in [dom -> Overalls]
  BY <1>3, <1>4, <1>5, <1>6
<1>10. next1 \in [dom -> dom]
  <2>1. \A x \in dom : <<T!Parent(x[1]), newer[x]>> \in dom
    BY <1>1, <1>3, <1>4, Family
  <2> QED BY <1>7, <2>1
<1>11. \A x \in dom : rank[x] \in 0 .. 5
  BY <1>3, <1>8, Heights
<1>12. \A x \in dom \ stops : rank[next1[x]] < rank[x]
  <2> SUFFICES ASSUME NEW x \in dom \ stops PROVE rank[next1[x]] < rank[x]
    OBVIOUS
  <2>1. x[1] # "brokers" /\ x[1] \in T!Nodes
    BY <1>3, <1>5
  <2>2. PICK y \in dom : y = next1[x]
    BY <1>10
  <2>3. y[1] = T!Parent(x[1])
    BY <1>7, <2>2
  <2>4. rank[y] = Height[T!Parent(x[1])] /\ rank[x] = Height[x[1]]
    BY <1>8, <2>3
  <2> QED BY <2>1, <2>2, <2>4, Heights
<1>13. PICK told : /\ told \in [dom -> Overalls]
                   /\ \A x \in dom : told[x] = IF x \in stops THEN res[x] ELSE told[next1[x]]
  <2>1. PICK n \in Nat : n = 5
    OBVIOUS
  <2>2. \A x \in dom : rank[x] \in 0 .. n
    BY <1>11, <2>1
  <2>3. \E g : SolvesTail(g, dom, Overalls, stops, res, next1)
    BY <1>9, <1>10, <1>12, <2>2, TailRecursion
  <2> QED BY <2>3, Zenon DEF SolvesTail
<1>14. ASSUME NEW x \in dom
       PROVE  told[x] = IF newer[x][x[1]] = x[2][x[1]] THEN x[2]
                        ELSE IF x[1] = "brokers" THEN newer[x] ELSE told[<<T!Parent(x[1]), newer[x]>>]
  BY <1>5, <1>6, <1>7, <1>13
<1>15. \A x \in dom : told[x] = LET n == x[1]
                                    new2 == T!NodeUpdated(st, x[2], n)
                                IN IF new2[n] = x[2][n] THEN x[2]
                                   ELSE IF n = "brokers" THEN new2 ELSE told[<<T!Parent(n), new2>>]
  BY <1>3, <1>14
<1>16. dom = T!Nodes \X [T!Nodes -> T!Error .. T!Unknown]
  BY <1>1 DEF Overalls, Levels
<1>17. told = [x \in dom |-> told[x]]
  BY <1>13
<1>18. IsTold(told, st)
  BY <1>15, <1>16, <1>17, Zenon DEF IsTold
<1> QED BY <1>18, Zenon

LEMMA UpdatedIsTold ==
  ASSUME NEW st \in Overalls
  PROVE  \E told : IsTold(told, st) /\ \A n, ov : T!Updated(st, ov, n) = told[<<n, ov>>]
<1>1. PICK told : told = CHOOSE g : IsTold(g, st)
  BY Zenon
<1>2. IsTold(told, st)
  BY <1>1, ToldExists, Zenon
<1>3. \A n, ov : T!Updated(st, ov, n) = told[<<n, ov>>]
  BY <1>1, Zenon DEF T!Updated, IsTold
<1> QED BY <1>2, <1>3

LEMMA UpdatesRight ==
  ASSUME NEW st \in Overalls, NEW ov0 \in Overalls, NEW n0 \in T!Nodes
  PROVE  /\ T!Updated(st, ov0, n0) \in Overalls
         /\ Right(st, T!Updated(st, ov0, n0), n0)
         /\ \A m \in T!Nodes \ {n0} : Right(st, ov0, m) => Right(st, T!Updated(st, ov0, n0), m)
<1>1. PICK told : IsTold(told, st) /\ \A n, ov : T!Updated(st, ov, n) = told[<<n, ov>>]
  BY UpdatedIsTold
<1> DEFINE New(ov, n) == T!NodeUpdated(st, ov, n)
           Made(n, ov) == /\ told[<<n, ov>>] \in Overalls
                          /\ Right(st, told[<<n, ov>>], n)
                          /\ \A m \in T!Nodes \ {n} : Right(st, ov, m) => Right(st, told[<<n, ov>>], m)
           Z == {k \in Nat : \A n \in T!Nodes : Height[n] < k => \A ov \in Overalls : Made(n, ov)}
<1>2. ASSUME NEW n \in T!Nodes, NEW ov \in Overalls
      PROVE  told[<<n, ov>>] = IF New(ov, n)[n] = ov[n] THEN ov
                               ELSE IF n = "brokers" THEN New(ov, n) ELSE told[<<T!Parent(n), New(ov, n)>>]
  <2>1. PICK x \in T!Nodes \X [T!Nodes -> T!Error .. T!Unknown] : x = <<n, ov>>
    BY DEF Overalls, Levels
  <2>2. told[x] = LET n2 == x[1]
                      newer == T!NodeUpdated(st, x[2], n2)
                  IN IF newer[n2] = x[2][n2] THEN x[2]
                     ELSE IF n2 = "brokers" THEN newer ELSE told[<<T!Parent(n2), newer>>]
    BY <1>1 DEF IsTold
  <2>3. x[1] = n /\ x[2] = ov
    BY <2>1
  <2> QED BY <2>1, <2>2, <2>3
<1>3. 0 \in Z
  BY Heights
<1>4. ASSUME NEW k \in Nat, k \in Z PROVE k + 1 \in Z
  <2> SUFFICES ASSUME NEW n \in T!Nodes, Height[n] < k + 1, NEW ov \in Overalls PROVE Made(n, ov)
    OBVIOUS
  <2>1. PICK newer : newer = New(ov, n)
    BY Zenon
  <2>2. /\ newer \in Overalls /\ newer[n] = T!Worst(st, ov, n) /\ Right(st, newer, n)
        /\ \A m \in T!Nodes : m # n /\ (n = "brokers" \/ m # T!Parent(n)) /\ Right(st, ov, m) => Right(st, newer, m)
    BY <2>1, NodeUpdates
  <2>3. CASE newer[n] = ov[n]
    <3>1. told[<<n, ov>>] = ov
      BY <1>2, <2>1, <2>3
    <3>2. Right(st, ov, n)
      BY <2>2, <2>3 DEF Right
    <3> QED BY <3>1, <3>2
  <2>4. CASE newer[n] # ov[n] /\ n = "brokers"
    <3>1. told[<<n, ov>>] = newer
      BY <1>2, <2>1, <2>4
    <3> QED BY <2>2, <2>4, <3>1
  <2>5. CASE newer[n] # ov[n] /\ n # "brokers"
    <3>1. told[<<n, ov>>] = told[<<T!Parent(n), newer>>]
      BY <1>2, <2>1, <2>5
    <3>2. PICK p \in T!Nodes : p = T!Parent(n)
      BY Family
    <3>3. p # n /\ Height[p] < k
      <4>1. Height[p] < Height[n] /\ Height[p] \in 0 .. 5 /\ Height[n] \in 0 .. 5
        BY <2>5, <3>2, Heights
      <4> QED BY <3>2, <4>1, Family
    <3>4. Made(p, newer)
      BY <1>4, <2>2, <3>3
    <3>5. PICK r : r = told[<<n, ov>>]
      BY Zenon
    <3>6. r \in Overalls /\ Right(st, r, p) /\ \A m \in T!Nodes \ {p} : Right(st, newer, m) => Right(st, r, m)
      BY <3>1, <3>2, <3>4, <3>5
    <3>7. Right(st, r, n)
      BY <2>2, <3>3, <3>6
    <3>8. ASSUME NEW m \in T!Nodes \ {n}, Right(st, ov, m) PROVE Right(st, r, m)
      <4>1. CASE m = p
        BY <3>6, <4>1
      <4>2. CASE m # p
        BY <2>2, <3>2, <3>6, <3>8, <4>2
      <4> QED BY <4>1, <4>2
    <3> QED BY <3>5, <3>6, <3>7, <3>8
  <2> QED BY <2>3, <2>4, <2>5
<1>5. 6 \in Z
  <2> HIDE DEF Z
  <2> QED BY <1>3, <1>4, NatInSet
<1>6. Made(n0, ov0)
  <2>1. Height[n0] < 6
    BY Heights
  <2> QED BY <1>5, <2>1
<1> QED BY <1>1, <1>6

(* A step that sets the status of a node keeps what is right.              *)
LEMMA TreeStatusSet ==
  ASSUME status \in Overalls, overall \in Overalls, NEW n0 \in T!Nodes, NEW level \in Levels, T!SetStatus(n0, level)
  PROVE  /\ status' \in Overalls /\ overall' \in Overalls
         /\ (\A m \in T!Nodes : Right(status, overall, m)) => \A m \in T!Nodes : Right(status', overall', m)
<1>1. PICK st : st = [status EXCEPT ![n0] = level]
  BY Zenon
<1>2. st \in Overalls /\ st[n0] = level /\ \A m \in T!Nodes \ {n0} : st[m] = status[m]
  BY <1>1 DEF Overalls
<1>3. status' = st /\ overall' = IF level = status[n0] THEN overall ELSE T!Updated(st, overall, n0)
  BY <1>1 DEF T!SetStatus
<1>4. CASE level = status[n0]
  <2>1. st = status
    BY <1>1, <1>4 DEF Overalls
  <2>2. status' = status /\ overall' = overall
    BY <1>3, <1>4, <2>1
  <2> QED BY <2>2, Zenon
<1>5. CASE level # status[n0]
  <2>1. PICK r : r = T!Updated(st, overall, n0)
    BY Zenon
  <2>2. r \in Overalls /\ Right(st, r, n0) /\ \A m \in T!Nodes \ {n0} : Right(st, overall, m) => Right(st, r, m)
    BY <1>2, <2>1, UpdatesRight
  <2>3. \A m \in T!Nodes \ {n0} : Right(status, overall, m) => Right(st, overall, m)
    <3> SUFFICES ASSUME NEW m \in T!Nodes \ {n0}, Right(status, overall, m) PROVE Right(st, overall, m)
      OBVIOUS
    <3>1. T!Worst(st, overall, m) = T!Worst(status, overall, m)
      BY <1>2, WorstSame
    <3> QED BY <3>1 DEF Right
  <2>4. (\A m \in T!Nodes : Right(status, overall, m)) => \A m \in T!Nodes : Right(st, r, m)
    BY <2>2, <2>3
  <2>5. status' = st /\ overall' = r
    BY <1>3, <1>5, <2>1
  <2> QED BY <1>2, <2>2, <2>4, <2>5, Zenon
<1> QED BY <1>4, <1>5

(* What is counted stays a number.                                         *)
LEMMA CallsCount ==
  ASSUME NEW cs \in [T!Calls -> Nat]
  PROVE  /\ \A S0 : T!Called(cs, S0) \in [T!Calls -> Nat]
         /\ \A who : T!Lost(cs, who) \in [T!Calls -> Nat]
<1>1. \A S0 : T!Called(cs, S0) \in [T!Calls -> Nat]
  BY DEF T!Called
<1>2. ASSUME NEW who PROVE T!Lost(cs, who) \in [T!Calls -> Nat]
  <2>1. ASSUME NEW c \in T!Calls
        PROVE  <<c[1], "agent">> \in T!Calls /\ <<c[1], "broker">> \in T!Calls
    BY DEF T!Calls
  <2>2. PICK vain : vain = [c \in T!Calls |-> (IF "agent" \in who THEN cs[<<c[1], "agent">>] ELSE 0)
                                             + (IF "broker" \in who THEN cs[<<c[1], "broker">>] ELSE 0)]
    BY Zenon
  <2>3. ASSUME NEW c \in T!Calls PROVE vain[c] \in Nat
    <3>1. cs[<<c[1], "agent">>] \in Nat /\ cs[<<c[1], "broker">>] \in Nat
      BY <2>1
    <3>2. PICK a \in Nat : a = IF "agent" \in who THEN cs[<<c[1], "agent">>] ELSE 0
      BY <3>1
    <3>3. PICK b \in Nat : b = IF "broker" \in who THEN cs[<<c[1], "broker">>] ELSE 0
      BY <3>1
    <3>4. vain[c] = a + b
      BY <2>2, <3>2, <3>3
    <3> QED BY <3>4
  <2>4. T!Lost(cs, who) = [c \in T!Calls |-> IF c[2] = "nobody" THEN cs[c] + vain[c]
                                             ELSE IF c[2] \in who THEN 0 ELSE cs[c]]
    BY <2>2 DEF T!Lost
  <2>5. \A c \in T!Calls : (IF c[2] = "nobody" THEN cs[c] + vain[c] ELSE IF c[2] \in who THEN 0 ELSE cs[c]) \in Nat
    BY <2>3
  <2> QED BY <2>4, <2>5
<1> QED BY <1>1, <1>2

LEMMA CallDone ==
  ASSUME stCalls \in [T!Calls -> Nat], NEW c \in T!Calls, stCalls[c] > 0
  PROVE  T!Done(c) \in [T!Calls -> Nat]
<1>1. stCalls[c] - 1 \in Nat
  OBVIOUS
<1> QED BY <1>1 DEF T!Done

LEMMA KindsOfCalls ==
  /\ \A who \in {"agent", "broker", "nobody"} : <<T!Check, who>> \in T!Calls /\ <<T!Subscribe, who>> \in T!Calls
  /\ \A t \in TreeTests : \A how \in {"hash", "script"} : \A who \in {"agent", "broker", "nobody"} :
       <<<<t, how>>, who>> \in T!Calls
BY DEF T!Calls, T!Check, T!Subscribe

SmallTypes ==
  /\ stConnected \in BOOLEAN /\ up \in BOOLEAN /\ loaded \in BOOLEAN
  /\ known \subseteq TreeTests /\ idle \subseteq TreeTests /\ fresh \subseteq TreeTests /\ ran \subseteq TreeTests
  /\ stReloads \in Nat

LEMMA TreeParts ==
  TreeInv <=> /\ SmallTypes /\ stCalls \in [T!Calls -> Nat] /\ status \in Overalls /\ overall \in Overalls
              /\ stReloads = 0 => \A n \in T!Nodes : Right(status, overall, n)
BY DEF TreeInv, SmallTypes, T!TypeOK, Overalls, Levels

LEMMA TreeCalls == TreeInv /\ T!Next => stCalls' \in [T!Calls -> Nat]
<1> SUFFICES ASSUME TreeInv, T!Next PROVE stCalls' \in [T!Calls -> Nat]
  OBVIOUS
<1>1. stCalls \in [T!Calls -> Nat]
  BY TreeParts
<1>2. CASE stCalls' = stCalls
  BY <1>1, <1>2
<1>3. CASE \E S0 : stCalls' = T!Called(stCalls, S0)
  BY <1>1, <1>3, CallsCount
<1>4. CASE \E who : stCalls' = T!Lost(stCalls, who)
  BY <1>1, <1>4, CallsCount
<1>5. CASE \E c \in T!Calls : stCalls[c] > 0 /\ stCalls' = T!Done(c)
  BY <1>1, <1>5, CallDone
<1>6. CASE \E c \in T!Calls : stCalls[c] > 0 /\ \E S0 : stCalls' = T!Called(T!Done(c), S0)
  <2>1. PICK c \in T!Calls : stCalls[c] > 0 /\ \E S0 : stCalls' = T!Called(T!Done(c), S0)
    BY <1>6
  <2>2. PICK cs \in [T!Calls -> Nat] : cs = T!Done(c)
    BY <1>1, <2>1, CallDone
  <2>3. PICK S0 : stCalls' = T!Called(cs, S0)
    BY <2>1, <2>2
  <2> QED BY <2>2, <2>3, CallsCount
<1>7. CASE T!Connect
  BY <1>3, <1>7 DEF T!Connect
<1>8. CASE T!ConnectionLost
  BY <1>4, <1>8 DEF T!ConnectionLost
<1>9. CASE T!ConnectionError \/ T!ReloadAgent \/ \E t \in TreeTests : T!ReloadTest(t)
  <2>1. CASE T!ReloadAgent
    <3>1. stCalls' = [c \in T!Calls |-> IF c[1] \in {T!Check, T!Subscribe} THEN stCalls[c] ELSE 0]
      BY <2>1 DEF T!ReloadAgent
    <3> QED BY <1>1, <3>1
  <2>2. CASE T!ConnectionError \/ \E t \in TreeTests : T!ReloadTest(t)
    BY <1>2, <2>2 DEF T!ConnectionError, T!ReloadTest
  <2> QED BY <1>9, <2>1, <2>2
<1>10. CASE T!AgentMounted
  <2>1. CASE stCalls' = [stCalls EXCEPT ![<<T!Check, "agent">>] = @ + 1]
    <3>1. PICK c \in T!Calls : c = <<T!Check, "agent">>
      BY KindsOfCalls
    <3>2. stCalls' = [stCalls EXCEPT ![c] = stCalls[c] + 1]
      BY <2>1, <3>1
    <3> QED BY <1>1, <3>2
  <2> QED BY <1>2, <1>10, <2>1 DEF T!AgentMounted
<1>11. CASE T!AgentUnmounted
  BY <1>4, <1>11 DEF T!AgentUnmounted
<1>12. CASE T!CheckAgent
  BY <1>3, <1>12 DEF T!CheckAgent
<1>13. CASE T!CheckAnswered
  <2>1. stCalls[<<T!Check, "agent">>] > 0 /\ \E S0 : stCalls' = T!Called(T!Done(<<T!Check, "agent">>), S0)
    BY <1>13 DEF T!CheckAnswered
  <2> QED BY <1>6, <2>1, KindsOfCalls
<1>14. CASE T!AgentCallFails
  <2>1. PICK c \in {<<T!Check, "broker">>, <<T!Check, "nobody">>, <<T!Subscribe, "nobody">>} :
          stCalls[c] > 0 /\ stCalls' = T!Done(c)
    BY <1>14 DEF T!AgentCallFails
  <2>2. c \in T!Calls
    BY KindsOfCalls
  <2> QED BY <1>5, <2>1, <2>2
<1>15. CASE T!Subscribed
  <2>1. PICK who \in {"agent", "broker"} :
          stCalls[<<T!Subscribe, who>>] > 0 /\ stCalls' = T!Done(<<T!Subscribe, who>>)
    BY <1>15 DEF T!Subscribed
  <2> QED BY <1>5, <2>1, KindsOfCalls
<1>16. CASE T!AnswerLost
  <2>1. PICK c \in T!Calls : /\ c[2] = "agent" /\ stCalls[c] > 0
                             /\ stCalls' = [stCalls EXCEPT ![c] = @ - 1, ![<<c[1], "nobody">>] = @ + 1]
    BY <1>16 DEF T!AnswerLost
  <2>2. PICK d : d = <<c[1], "nobody">>
    BY Zenon
  <2>3. d \in T!Calls /\ d # c
    BY <2>1, <2>2 DEF T!Calls
  <2>4. PICK cs : cs = [stCalls EXCEPT ![c] = @ - 1]
    BY Zenon
  <2>5. cs \in [T!Calls -> Nat]
    BY <1>1, <2>1, <2>4
  <2>6. stCalls' = [cs EXCEPT ![d] = stCalls[d] + 1]
    BY <2>1, <2>2, <2>4, Zenon
  <2>7. stCalls[d] + 1 \in Nat
    BY <1>1, <2>3
  <2> QED BY <2>5, <2>6, <2>7
<1>17. ASSUME NEW t \in TreeTests,
              T!RunTestFirstTime(t) \/ T!RunTimer(t) \/ T!RunByHand(t) \/ T!NotInCache(t) \/ T!TestAnswered(t) \/ T!TestFails(t)
       PROVE  stCalls' \in [T!Calls -> Nat]
  <2>1. CASE T!RunTestFirstTime(t) \/ T!RunTimer(t) \/ T!RunByHand(t)
    BY <1>2, <1>3, <2>1 DEF T!RunTestFirstTime, T!RunTimer, T!RunByHand, T!RunAgain, T!RunTest
  <2>2. CASE T!NotInCache(t)
    <3>1. /\ stCalls[<<<<t, "hash">>, "agent">>] > 0
          /\ \E S0 : stCalls' = T!Called(T!Done(<<<<t, "hash">>, "agent">>), S0)
      BY <2>2 DEF T!NotInCache
    <3> QED BY <1>6, <3>1, KindsOfCalls
  <2>3. CASE T!TestAnswered(t)
    <3>1. PICK how \in {"hash", "script"} :
            stCalls[<<<<t, how>>, "agent">>] > 0 /\ stCalls' = T!Done(<<<<t, how>>, "agent">>)
      BY <2>3 DEF T!TestAnswered
    <3> QED BY <1>5, <3>1, KindsOfCalls
  <2>4. CASE T!TestFails(t)
    <3>1. PICK c \in T!Runs(t) \X {"broker", "nobody"} : stCalls[c] > 0 /\ stCalls' = T!Done(c)
      BY <2>4 DEF T!TestFails
    <3>2. c \in T!Calls
      BY DEF T!Runs, T!Calls
    <3> QED BY <1>5, <3>1, <3>2
  <2> QED BY <1>17, <2>1, <2>2, <2>3, <2>4
<1>18. CASE \E n \in {"agent"} \cup TreeTests : T!Configure(n)
  BY <1>2, <1>18 DEF T!Configure
<1> QED BY <1>7, <1>8, <1>9, <1>10, <1>11, <1>12, <1>13, <1>14, <1>15, <1>16, <1>17, <1>18 DEF T!Next

LEMMA TreeSmall == TreeInv /\ T!Next => SmallTypes'
<1> SUFFICES ASSUME TreeInv, T!Next PROVE SmallTypes'
  OBVIOUS
<1>1. SmallTypes
  BY TreeParts
<1>2. CASE T!Connect \/ T!ConnectionLost \/ T!ConnectionError
  <2>1. stConnected' \in BOOLEAN /\ ran' \subseteq TreeTests /\ UNCHANGED <<up, known, idle, loaded, fresh, stReloads>>
    BY <1>1, <1>2 DEF T!Connect, T!ConnectionLost, T!ConnectionError, T!Existing, SmallTypes
  <2> QED BY <1>1, <2>1 DEF SmallTypes
<1>3. CASE T!AgentMounted \/ T!AgentUnmounted
  <2>1. up' \in BOOLEAN /\ known' \subseteq TreeTests /\ UNCHANGED <<stConnected, idle, loaded, fresh, ran, stReloads>>
    BY <1>1, <1>3 DEF T!AgentMounted, T!AgentUnmounted, SmallTypes
  <2> QED BY <1>1, <2>1 DEF SmallTypes
<1>4. CASE T!CheckAgent \/ T!CheckAnswered \/ T!AgentCallFails \/ T!Subscribed \/ T!AnswerLost
  <2>1. ran' \subseteq TreeTests /\ UNCHANGED <<stConnected, up, known, idle, loaded, fresh, stReloads>>
    BY <1>1, <1>4 DEF T!CheckAgent, T!CheckAnswered, T!AgentCallFails, T!Subscribed, T!AnswerLost, T!Existing, SmallTypes
  <2> QED BY <1>1, <2>1 DEF SmallTypes
<1>5. ASSUME NEW t \in TreeTests, T!RunTestFirstTime(t) \/ T!RunTimer(t) \/ T!RunByHand(t) PROVE SmallTypes'
  <2>1. /\ ran' \subseteq TreeTests /\ fresh' \subseteq TreeTests
        /\ UNCHANGED <<stConnected, up, known, idle, loaded, stReloads>>
    BY <1>1, <1>5 DEF T!RunTestFirstTime, T!RunTimer, T!RunByHand, T!RunAgain, T!RunTest, SmallTypes
  <2> QED BY <1>1, <2>1 DEF SmallTypes
<1>6. ASSUME NEW t \in TreeTests, T!NotInCache(t) \/ T!TestAnswered(t) \/ T!TestFails(t) PROVE SmallTypes'
  <2>1. known' \subseteq TreeTests /\ UNCHANGED <<stConnected, up, idle, loaded, fresh, ran, stReloads>>
    BY <1>1, <1>6 DEF T!NotInCache, T!TestAnswered, T!TestFails, SmallTypes
  <2> QED BY <1>1, <2>1 DEF SmallTypes
<1>7. ASSUME NEW t \in TreeTests, T!ReloadTest(t) PROVE SmallTypes'
  <2>1. idle' \subseteq TreeTests /\ fresh' \subseteq TreeTests /\ ran' \subseteq TreeTests
    BY <1>1, <1>7 DEF T!ReloadTest, SmallTypes
  <2>2. stReloads' \in Nat /\ UNCHANGED <<stConnected, up, known, loaded>>
    BY <1>1, <1>7 DEF T!ReloadTest, SmallTypes
  <2> QED BY <1>1, <2>1, <2>2 DEF SmallTypes
<1>8. CASE \E n \in {"agent"} \cup TreeTests : T!Configure(n)
  <2>1. stReloads' \in Nat /\ UNCHANGED <<stConnected, up, known, idle, loaded, fresh, ran>>
    BY <1>1, <1>8 DEF T!Configure, SmallTypes
  <2> QED BY <1>1, <2>1 DEF SmallTypes
<1>9. CASE T!ReloadAgent
  <2>1. idle' \subseteq TreeTests /\ fresh' \subseteq TreeTests /\ ran' \subseteq TreeTests
    BY <1>9 DEF T!ReloadAgent
  <2>2. stReloads' \in Nat /\ UNCHANGED <<stConnected, up, known>>
    BY <1>1, <1>9 DEF T!ReloadAgent, SmallTypes
  <2>3. loaded' \in BOOLEAN
    BY <1>9, Zenon DEF T!ReloadAgent
  <2> QED BY <1>1, <2>1, <2>2, <2>3 DEF SmallTypes
<1> QED BY <1>2, <1>3, <1>4, <1>5, <1>6, <1>7, <1>8, <1>9 DEF T!Next

Shown == \A n \in T!Nodes : Right(status, overall, n)

LEMMA TreeShows ==
  TreeInv /\ T!Next => status' \in Overalls /\ overall' \in Overalls /\ (stReloads' = 0 => Shown')
<1> SUFFICES ASSUME TreeInv, T!Next
             PROVE  status' \in Overalls /\ overall' \in Overalls /\ (stReloads' = 0 => Shown')
  OBVIOUS
<1>1. status \in Overalls /\ overall \in Overalls /\ stReloads \in Nat /\ (stReloads = 0 => Shown)
  BY TreeParts DEF SmallTypes, Shown
<1>2. ASSUME UNCHANGED <<status, overall, disabled, stReloads>>
      PROVE  status' \in Overalls /\ overall' \in Overalls /\ (stReloads' = 0 => Shown')
  <2>1. Shown' = Shown
    BY <1>2 DEF Shown, Right, T!Worst
  <2> QED BY <1>1, <1>2, <2>1
<1>3. ASSUME NEW n \in T!Nodes, NEW level \in Levels, T!SetStatus(n, level), UNCHANGED <<disabled, stReloads>>
      PROVE  status' \in Overalls /\ overall' \in Overalls /\ (stReloads' = 0 => Shown')
  <2>1. status' \in Overalls /\ overall' \in Overalls
    BY <1>1, <1>3, TreeStatusSet
  <2>2. Shown => \A m \in T!Nodes : Right(status', overall', m)
    BY <1>1, <1>3, TreeStatusSet DEF Shown
  <2>3. (\A m \in T!Nodes : Right(status', overall', m)) => Shown'
    BY <1>3 DEF Shown, Right, T!Worst
  <2> QED BY <1>1, <1>3, <2>1, <2>2, <2>3
(* A reload: nothing is to be right any more.                              *)
<1>4. ASSUME stReloads' = stReloads + 1, status' \in Overalls, overall' \in Overalls
      PROVE  status' \in Overalls /\ overall' \in Overalls /\ (stReloads' = 0 => Shown')
  BY <1>1, <1>4
<1>nodes. /\ {"brokers", "broker", "agents", "agent", "tests"} \subseteq T!Nodes /\ TreeTests \subseteq T!Nodes
          /\ {T!Error, T!Warning, T!Ok, T!Disabled, T!Unknown} \subseteq Levels
  BY LevelValues DEF T!Nodes
<1>5. CASE T!ConnectionLost \/ T!AgentMounted \/ T!CheckAgent \/ T!Subscribed \/ T!AnswerLost
  BY <1>2, <1>5 DEF T!ConnectionLost, T!AgentMounted, T!CheckAgent, T!Subscribed, T!AnswerLost
<1>6. CASE T!Connect
  BY <1>3, <1>6, <1>nodes DEF T!Connect
<1>7. CASE T!ConnectionError
  BY <1>3, <1>7, <1>nodes DEF T!ConnectionError
<1>8. CASE T!AgentUnmounted
  <2>1. T!SetStatus("agent", T!Error) \/ UNCHANGED <<status, overall>>
    BY <1>8 DEF T!AgentUnmounted
  <2>2. UNCHANGED <<disabled, stReloads>>
    BY <1>8 DEF T!AgentUnmounted
  <2> QED BY <1>2, <1>3, <2>1, <2>2, <1>nodes
<1>9. CASE T!CheckAnswered
  BY <1>3, <1>9, <1>nodes DEF T!CheckAnswered
<1>10. CASE T!AgentCallFails
  BY <1>3, <1>10, <1>nodes DEF T!AgentCallFails
<1>11. ASSUME NEW t \in TreeTests, T!RunTestFirstTime(t) \/ T!RunTimer(t) \/ T!RunByHand(t) \/ T!NotInCache(t)
       PROVE  status' \in Overalls /\ overall' \in Overalls /\ (stReloads' = 0 => Shown')
  BY <1>2, <1>11 DEF T!RunTestFirstTime, T!RunTimer, T!RunByHand, T!RunAgain, T!NotInCache
<1>12. ASSUME NEW t \in TreeTests, T!TestAnswered(t)
       PROVE  status' \in Overalls /\ overall' \in Overalls /\ (stReloads' = 0 => Shown')
  <2>1. T!SetStatus(t, T!Result[t]) /\ UNCHANGED <<disabled, stReloads>>
    BY <1>12 DEF T!TestAnswered
  <2>2. T!Result[t] \in Levels
    BY TreeConstants
  <2> QED BY <1>3, <1>nodes, <2>1, <2>2
<1>13. ASSUME NEW t \in TreeTests, T!TestFails(t)
       PROVE  status' \in Overalls /\ overall' \in Overalls /\ (stReloads' = 0 => Shown')
  BY <1>3, <1>13, <1>nodes DEF T!TestFails
<1>14. ASSUME NEW t \in TreeTests, T!ReloadTest(t)
       PROVE  status' \in Overalls /\ overall' \in Overalls /\ (stReloads' = 0 => Shown')
  <2>1. T!SetStatus(t, T!Ok) \/ UNCHANGED <<status, overall>>
    BY <1>14 DEF T!ReloadTest
  <2>2. status' \in Overalls /\ overall' \in Overalls
    BY <1>1, <1>nodes, <2>1, TreeStatusSet
  <2>3. stReloads' = stReloads + 1
    BY <1>14 DEF T!ReloadTest
  <2> QED BY <1>4, <2>2, <2>3
<1>15. CASE \E n \in {"agent"} \cup TreeTests : T!Configure(n)
  BY <1>1, <1>4, <1>15 DEF T!Configure
<1>16. CASE T!ReloadAgent
  <2>1. PICK st : st = [n \in T!Nodes |-> IF n \in idle' THEN T!Ok ELSE IF n \in TreeTests \cup {"tests"} THEN T!Unknown
                                          ELSE IF n = "agent" /\ ~loaded' THEN T!Disabled ELSE status[n]]
    BY Zenon
  <2>2. PICK anew : anew = [n \in T!Nodes |-> IF n \in TreeTests THEN st[n]
                                              ELSE IF n = "tests" THEN T!Min({T!Unknown} \cup {st[t] : t \in idle'})
                                              ELSE overall[n]]
    BY Zenon
  <2>3. /\ status' = st
        /\ overall' = IF st["agent"] # status["agent"] \/ anew["tests"] # T!Unknown
                      THEN T!Updated(st, anew, "agent") ELSE anew
    BY <1>16, <2>1, <2>2 DEF T!ReloadAgent
  <2>4. st \in Overalls
    BY <1>1, <1>nodes, <2>1 DEF Overalls
  <2>5. T!Min({T!Unknown} \cup {st[t] : t \in idle'}) \in Levels
    <3>1. idle' \subseteq TreeTests
      BY TreeSmall DEF SmallTypes
    <3>2. PICK s : s = {T!Unknown} \cup {st[t] : t \in idle'}
      BY Zenon
    <3>3. s \in SUBSET Levels /\ s # {}
      BY <1>nodes, <2>4, <3>1, <3>2 DEF Overalls
    <3> QED BY <3>2, <3>3, LeastOf
  <2>6. anew \in Overalls
    <3>1. \A n \in T!Nodes : (IF n \in TreeTests THEN st[n]
                             ELSE IF n = "tests" THEN T!Min({T!Unknown} \cup {st[t] : t \in idle'})
                             ELSE overall[n]) \in Levels
      BY <1>1, <2>4, <2>5 DEF Overalls
    <3> QED BY <2>2, <3>1 DEF Overalls
  <2>7. T!Updated(st, anew, "agent") \in Overalls
    BY <1>nodes, <2>4, <2>6, UpdatesRight
  <2>8. status' \in Overalls /\ overall' \in Overalls
    BY <2>3, <2>4, <2>6, <2>7
  <2>9. stReloads' = stReloads + 1
    BY <1>16 DEF T!ReloadAgent
  <2> QED BY <1>4, <2>8, <2>9
<1> QED BY <1>5, <1>6, <1>7, <1>8, <1>9, <1>10, <1>11, <1>12, <1>13, <1>14, <1>15, <1>16 DEF T!Next

(* At the start only the tests that are disabled and a disabled agent have *)
(* a status: the tree shows the worst of these.                            *)
LEMMA TreeInitially == T!Init => TreeInv
<1> SUFFICES ASSUME T!Init PROVE TreeInv
  OBVIOUS
<1>1. /\ disabled \in SUBSET ({"agent"} \cup TreeTests) /\ loaded = ("agent" \notin disabled)
      /\ idle = IF loaded THEN disabled \cap TreeTests ELSE {}
      /\ status = [n \in T!Nodes |-> IF n = "agent" /\ ~loaded THEN T!Disabled
                                     ELSE IF n \in idle THEN T!Ok ELSE T!Unknown]
  BY DEF T!Init
<1>2. overall = [n \in T!Nodes |-> IF n \in TreeTests \/ (n = "tests" /\ ~loaded) THEN status[n]
                                   ELSE T!Min({status[m] : m \in T!Nodes})]
  BY DEF T!Init
<1>3. stConnected = FALSE /\ up \in BOOLEAN /\ known = {} /\ fresh = T!Existing \ idle /\ ran = {} /\ stReloads = 0
      /\ stCalls = [c \in T!Calls |-> 0]
  BY DEF T!Init
<1>nodes. /\ T!Nodes = {"brokers", "broker", "agents", "agent", "tests"} \cup TreeTests
          /\ TreeTests \cap {"brokers", "broker", "agents", "agent", "tests"} = {}
  BY TreeConstants DEF T!Nodes
<1>small. SmallTypes
  <2>1. loaded \in BOOLEAN
    BY <1>1, Zenon
  <2>2. idle \subseteq TreeTests /\ fresh \subseteq TreeTests
    BY <1>1, <1>3 DEF T!Existing
  <2> QED BY <1>3, <2>1, <2>2 DEF SmallTypes
<1>calls. stCalls \in [T!Calls -> Nat]
  BY <1>3
<1>4. status \in Overalls
  <2>1. \A n \in T!Nodes : status[n] \in Levels
    BY <1>1, LevelValues
  <2> QED BY <1>1, <2>1 DEF Overalls
<1>5. PICK s : s = {status[m] : m \in T!Nodes}
  BY Zenon
<1>6. s \in SUBSET Levels /\ s # {}
  BY <1>4, <1>5, <1>nodes DEF Overalls
<1>7. PICK least : least = T!Min(s)
  BY Zenon
<1>8. least \in s /\ least \in Levels /\ \A x \in s : least <= x
  BY <1>6, <1>7, LeastOf
<1>9. \A n \in T!Nodes : overall[n] = IF n \in TreeTests \/ (n = "tests" /\ ~loaded) THEN status[n] ELSE least
  BY <1>2, <1>5, <1>7
<1>10. overall \in Overalls
  <2>1. \A n \in T!Nodes : overall[n] \in Levels
    BY <1>4, <1>8, <1>9 DEF Overalls
  <2> QED BY <1>2, <2>1 DEF Overalls
<1>unique. ASSUME NEW u \in SUBSET Levels, NEW v \in u, \A x \in u : v <= x PROVE T!Min(u) = v
  <2>1. T!Min(u) \in u /\ \A x \in u : T!Min(u) <= x
    BY <1>unique, LeastOf
  <2>2. T!Min(u) <= v /\ v <= T!Min(u) /\ v \in 0 .. 4 /\ T!Min(u) \in 0 .. 4
    BY <1>unique, <2>1, LevelValues
  <2> QED BY <2>2
<1>11. ASSUME NEW n \in T!Nodes PROVE Right(status, overall, n)
  <2>1. PICK u : u = {status[n], T!Unknown} \cup {overall[c] : c \in T!Children(n)}
    BY Zenon
  <2>2. T!Worst(status, overall, n) = IF n \in disabled THEN status[n] ELSE T!Min(u)
    BY <2>1, Zenon DEF T!Worst
  <2>3. u \in SUBSET Levels
    <3>1. \A c \in T!Children(n) : overall[c] \in Levels
      BY <1>10, Family DEF Overalls
    <3> QED BY <1>4, <2>1, <3>1, LevelValues DEF Overalls
  <2>4. CASE n \in TreeTests
    <3>1. T!Children(n) = {}
      BY <1>nodes, <2>4 DEF T!Children, T!Parent
    <3>2. status[n] \in u /\ \A x \in u : status[n] <= x
      BY <1>4, <2>1, <3>1, LevelValues DEF Overalls
    <3> QED BY <1>9, <1>unique, <2>2, <2>3, <2>4, <3>2 DEF Right
  <2>5. CASE n = "agent" /\ "agent" \in disabled
    <3>1. status["agent"] = 3 /\ \A m \in T!Nodes : status[m] \in {3, 4}
      BY <1>1, <2>5, LevelValues
    <3>2. least = 3
      BY <1>5, <1>8, <2>5, <3>1
    <3> QED BY <1>9, <1>nodes, <2>2, <2>5, <3>1, <3>2 DEF Right
  <2>6. CASE n = "tests" /\ "agent" \in disabled
    <3>1. \A m \in T!Nodes \ {"agent"} : status[m] = 4
      BY <1>1, <2>6, LevelValues
    <3>2. \A c \in T!Children(n) : c \in TreeTests /\ overall[c] = 4
      BY <1>9, <1>nodes, <2>6, <3>1 DEF T!Children, T!Parent
    <3>3. overall[n] = 4 /\ status[n] = 4 /\ n \notin disabled
      BY <1>1, <1>9, <1>nodes, <2>6, <3>1
    <3>4. u = {4}
      BY <2>1, <3>2, <3>3, LevelValues
    <3>5. T!Min(u) = 4
      BY <1>unique, <2>3, <3>4
    <3> QED BY <2>2, <3>3, <3>5 DEF Right
  <2>7. CASE n = "tests" /\ "agent" \notin disabled
    <3>1. overall[n] = least /\ n \notin disabled
      BY <1>1, <1>9, <1>nodes, <2>7
    <3>2. \A m \in T!Nodes \ TreeTests : status[m] = T!Unknown
      BY <1>1, <1>nodes, <2>7
    <3>3. T!Children(n) = TreeTests
      BY <1>nodes, <2>7 DEF T!Children, T!Parent
    <3>4. \A m \in TreeTests : overall[m] = status[m]
      BY <1>9, <1>nodes
    <3>5. u = s
      BY <1>5, <1>nodes, <2>1, <2>7, <3>2, <3>3, <3>4
    <3> QED BY <1>7, <2>2, <3>1, <3>5 DEF Right
  <2>8. CASE n \in {"brokers", "broker", "agents"} \/ (n = "agent" /\ "agent" \notin disabled)
    <3>1. n \notin disabled /\ overall[n] = least /\ status[n] = T!Unknown
      BY <1>1, <1>9, <1>nodes, <2>8
    <3>2. PICK c \in T!Nodes : T!Children(n) = {c} /\ c \in {"broker", "agents", "agent", "tests"}
                              /\ (c = "tests" => "agent" \notin disabled)
      <4>1. CASE n = "brokers"
        BY <1>nodes, <4>1 DEF T!Children, T!Parent
      <4>2. CASE n = "broker"
        BY <1>nodes, <4>2 DEF T!Children, T!Parent
      <4>3. CASE n = "agents"
        BY <1>nodes, <4>3 DEF T!Children, T!Parent
      <4>4. CASE n = "agent" /\ "agent" \notin disabled
        BY <1>nodes, <4>4 DEF T!Children, T!Parent
      <4> QED BY <2>8, <4>1, <4>2, <4>3, <4>4
    <3>3. overall[c] = least
      BY <1>1, <1>9, <1>nodes, <3>2
    <3>4. u = {T!Unknown, least}
      BY <2>1, <3>1, <3>2, <3>3
    <3>5. \A x \in u : least <= x
      BY <1>8, <3>4, LevelValues
    <3>6. T!Min(u) = least
      BY <1>unique, <2>3, <3>4, <3>5
    <3> QED BY <2>2, <3>1, <3>6 DEF Right
  <2> QED BY <1>nodes, <2>4, <2>5, <2>6, <2>7, <2>8
<1> QED BY <1>small, <1>calls, <1>4, <1>10, <1>11, TreeParts

LEMMA TreeNext == TreeInv /\ [T!Next]_tVars => TreeInv'
<1>1. ASSUME TreeInv, T!Next PROVE TreeInv'
  <2>1. SmallTypes' /\ stCalls' \in [T!Calls -> Nat] /\ status' \in Overalls /\ overall' \in Overalls
        /\ (stReloads' = 0 => Shown')
    BY <1>1, TreeSmall, TreeCalls, TreeShows
  <2>2. T!TypeOK'
    BY <2>1 DEF SmallTypes, T!TypeOK, Overalls, Levels
  <2> QED BY <2>1, <2>2 DEF TreeInv, SmallTypes, Shown
<1>2. ASSUME TreeInv, UNCHANGED tVars PROVE TreeInv'
  <2>1. UNCHANGED <<stConnected, up, known, status, overall, disabled, idle, loaded, fresh, ran, stCalls, stReloads>>
    BY <1>2 DEF tVars
  <2>2. T!TypeOK'
    BY <1>2, <2>1 DEF TreeInv, T!TypeOK
  <2> QED BY <1>2, <2>1, <2>2 DEF TreeInv, Right, T!Worst
<1> QED BY <1>1, <1>2

LEMMA BotStutters == BotInv /\ UNCHANGED gVars => BotInv'
<1> SUFFICES ASSUME BotInv, UNCHANGED gVars PROVE BotInv'
  OBVIOUS
<1>1. UNCHANGED <<arrived, forgotten, tgCalls, updateId, tgTimer, due, peers, quitting, processed, tgFaults>>
  BY DEF gVars
<1>2. G!TelegramTypeOK'
  BY <1>1 DEF BotInv, G!TelegramTypeOK
<1> QED BY <1>1, <1>2 DEF BotInv, GoodPoll, Heard

\* hscope-old: every node of the tree shows the worst status at or below it as long
\* as nothing was reloaded (hnode.cpp: updateOverallStatus, setOverallStatus), and the
\* updates the telegram server forgets were processed, the senders of the messages
\* among them stored, if their ids fit an int (telegram.cpp: getUpdates,
\* processUpdates), for any tests, updates, senders and bounds.
THEOREM ScopesHold == MCSpec => []ScopesTrue
<1>1. MCInit => TreeInv /\ BotInv
  BY TreeInitially, BotInitially DEF MCInit
<1>2. TreeInv /\ BotInv /\ [MCNext]_allVars => (TreeInv /\ BotInv)'
  <2> SUFFICES ASSUME TreeInv, BotInv, [MCNext]_allVars PROVE TreeInv' /\ BotInv'
    OBVIOUS
  <2>1. T!Next \/ UNCHANGED tVars
    BY DEF MCNext, allVars
  <2>2. G!Next \/ UNCHANGED gVars
    BY DEF MCNext, allVars
  <2> QED BY <2>1, <2>2, TreeNext, BotNext, BotStutters
<1>3. TreeInv /\ BotInv => ScopesTrue
  BY DEF TreeInv, BotInv, ScopesTrue, T!OverallIsWorst, G!NothingSkipped, Right, Heard
<1> QED BY <1>1, <1>2, <1>3, PTL DEF MCSpec
=============================================================================
