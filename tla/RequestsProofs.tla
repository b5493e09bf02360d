--------------------------- MODULE RequestsProofs ---------------------------
(***************************************************************************)
(* The parts of historyprovider3 that answer requests, proved for every    *)
(* value of the constants: the reloads of the sites (SitesReload) and, in  *)
(* the specification that MCRequests composes, the value cache, pushLog,   *)
(* the size limit of the cache, the alarms, and the logs of the sites.     *)
(***************************************************************************)
EXTENDS MCRequests, Induction, SequenceTheorems, FiniteSetTheorems, TLAPS

(***************************************************************************)
(* SitesReload, for any number of reloadSites calls, connections and       *)
(* errors.  Its invariants need one more fact: while a load is under way   *)
(* the tree has no sites yet.  A disconnect that is refused because of the *)
(* load then leaves no tree with signals of the old connection behind.     *)
(***************************************************************************)
BareWhileLoading == loading => tree = "bare"

IInv ==
  TypeOK /\ LoadingMeansLoad /\ SubscribedNow /\ TreeForRequests /\ BareWhileLoading

(* Nothing is loaded before the first connection.                          *)
LEMMA InitIInv == Init => IInv
<1> SUFFICES ASSUME Init PROVE IInv
  OBVIOUS
<1>1. TypeOK
  BY DEF Init, TypeOK
<1>2. LoadingMeansLoad /\ SubscribedNow /\ TreeForRequests /\ BareWhileLoading
  BY DEF Init, LoadingMeansLoad, SubscribedNow, TreeForRequests, BareWhileLoading
<1> QED BY <1>1, <1>2 DEF IInv

(* Replies keep the type of request.                                       *)
LEMMA RepliedType ==
  ASSUME TypeOK,
         NEW w, NEW a \in {"new", "waiting", "answered", "refused"}
  PROVE  Replied(w, a) \in [Requests -> {"new", "waiting", "answered", "refused"}]
  BY DEF TypeOK, Replied

(* A reload in a step that ends with the connection up or not.             *)
LEMMA ReloadIInv ==
  ASSUME IInv,
         NEW up \in BOOLEAN, connected' = up, session' \in Nat, errors' \in Nat,
         NEW w \in Requests \cup {Nobody},
         Reload(w, up)
  PROVE  IInv'
<1>1. request' \in [Requests -> {"new", "waiting", "answered", "refused"}]
  <2>1. request' = Replied(w, "refused") \/ request' = Replied(w, "waiting")
    BY DEF Reload
  <2> QED BY <2>1, RepliedType DEF IInv
<1>2. CASE loading
  <2>1. UNCHANGED <<loading, tree, subscribed, loads>>
    BY <1>2 DEF Reload
  <2> QED BY <1>1, <1>2, <2>1
          DEF IInv, TypeOK, LoadingMeansLoad, SubscribedNow, TreeForRequests,
              BareWhileLoading
<1>3. CASE ~loading
  <2>1. /\ tree' = IF up THEN "bare" ELSE "none"
        /\ loading' = up
        /\ loads' = IF up THEN loads \cup {Call(session', w)} ELSE loads
        /\ subscribed' = subscribed
    BY <1>3 DEF Reload
  <2>2. loads = {}
    BY <1>3 DEF IInv, LoadingMeansLoad
  <2>3. Call(session', w) \in Load
    BY DEF Call, Load
  <2>4. loads' \subseteq Load /\ (\A k, l \in loads' : k = l)
    BY <2>1, <2>2, <2>3
  <2>5. loading' <=> loads' # {}
    BY <2>1, <2>2
  <2> QED BY <1>1, <2>1, <2>4, <2>5
          DEF IInv, TypeOK, LoadingMeansLoad, SubscribedNow, TreeForRequests,
              BareWhileLoading
<1> QED BY <1>2, <1>3

(* The end of the only load there is.                                      *)
LEMMA GotSitesIInv ==
  ASSUME IInv, NEW l \in loads, GotSites(l)
  PROVE  IInv'
<1>1. l \in Load /\ l.waiter \in Requests \cup {Nobody}
  BY DEF IInv, TypeOK, Load
<1>2. loads' = {}
  BY DEF GotSites, IInv, TypeOK
<1>3. request' \in [Requests -> {"new", "waiting", "answered", "refused"}]
  BY RepliedType DEF GotSites, IInv
<1> QED BY <1>2, <1>3
        DEF GotSites, IInv, TypeOK, LoadingMeansLoad, SubscribedNow, TreeForRequests,
            BareWhileLoading

(* A failed try and the next one replace the load by one load.             *)
LEMMA OtherTryIInv ==
  ASSUME IInv, NEW l \in loads, GotError(l) \/ Retry(l)
  PROVE  IInv'
<1>1. loads = {l} /\ loading /\ tree = "bare"
  BY DEF IInv, TypeOK, LoadingMeansLoad, BareWhileLoading
<1>2. l \in Load
  BY DEF IInv, TypeOK
<1>3. PICK m \in Load : loads' = {m}
  <2>1. CASE GotError(l)
    <3>1. [l EXCEPT !.at = "timer"] \in Load
      BY <1>2 DEF Load
    <3>2. loads' = {[l EXCEPT !.at = "timer"]}
      BY <1>1, <2>1 DEF GotError
    <3> QED BY <3>1, <3>2
  <2>2. CASE Retry(l)
    <3>1. Call(IF connected THEN session ELSE 0, l.waiter) \in Load
      BY <1>2 DEF Call, Load, IInv, TypeOK
    <3>2. loads' = {Call(IF connected THEN session ELSE 0, l.waiter)}
      BY <1>1, <2>2 DEF Retry
    <3> QED BY <3>1, <3>2
  <2> QED BY <2>1, <2>2
<1>4. tree' = "bare" /\ loading' = loading
  BY <1>1 DEF GotError, Retry
<1>5. errors' \in Nat
  BY DEF GotError, Retry, IInv, TypeOK
<1>6. UNCHANGED <<connected, session, subscribed, request>>
  BY DEF GotError, Retry
<1> QED BY <1>1, <1>3, <1>4, <1>5, <1>6
        DEF IInv, TypeOK, LoadingMeansLoad, SubscribedNow, TreeForRequests,
            BareWhileLoading

LEMMA NextIInv == IInv /\ [Next]_vars => IInv'
<1> SUFFICES ASSUME IInv, [Next]_vars PROVE IInv'
  OBVIOUS
<1>1. CASE Connect
  <2>1. connected' = TRUE /\ Reload(Nobody, TRUE) /\ errors' = errors
    BY <1>1 DEF Connect
  <2>2. session' \in Nat /\ errors' \in Nat
    BY <1>1, <2>1 DEF Connect, IInv, TypeOK
  <2> QED BY <2>1, <2>2, ReloadIInv
<1>2. CASE Disconnect
  <2>1. connected' = FALSE /\ session' \in Nat /\ errors' \in Nat /\ Reload(Nobody, FALSE)
    BY <1>2 DEF Disconnect, IInv, TypeOK
  <2> QED BY <2>1, ReloadIInv
<1>3. ASSUME NEW r \in Requests, ReloadRequest(r) PROVE IInv'
  <2>1. session' \in Nat /\ errors' \in Nat /\ Reload(r, TRUE)
    BY <1>3 DEF ReloadRequest, IInv, TypeOK
  <2>2. connected' = TRUE
    BY <1>3 DEF ReloadRequest, IInv, TypeOK
  <2> QED BY <2>1, <2>2, ReloadIInv
<1>4. ASSUME NEW l \in loads, GotSites(l) PROVE IInv'
  BY <1>4, GotSitesIInv
<1>5. ASSUME NEW l \in loads, GotError(l) \/ Retry(l) PROVE IInv'
  BY <1>5, OtherTryIInv
<1>6. CASE UNCHANGED vars
  BY <1>6 DEF vars, IInv, TypeOK, LoadingMeansLoad, SubscribedNow, TreeForRequests,
              BareWhileLoading
<1> QED BY <1>1, <1>2, <1>3, <1>4, <1>5, <1>6 DEF Next

LEMMA IInvHolds == Spec => []IInv
  BY InitIInv, NextIInv, PTL DEF Spec

(* There is at most one load, and the variables keep their types.          *)
THEOREM OneLoad == Spec => []TypeOK
<1>1. IInv => TypeOK
  BY DEF IInv
<1> QED BY <1>1, IInvHolds, PTL

(* m_loadingSites is set exactly while a load is under way.                *)
THEOREM FlagIsLoad == Spec => []LoadingMeansLoad
<1>1. IInv => LoadingMeansLoad
  BY DEF IInv
<1> QED BY <1>1, IInvHolds, PTL

(* A tree of sites has its signals subscribed on the connection of now.    *)
THEOREM SignalsSubscribed == Spec => []SubscribedNow
<1>1. IInv => SubscribedNow
  BY DEF IInv
<1> QED BY <1>1, IInvHolds, PTL

(* While connected there is a tree to ask.                                 *)
THEOREM RequestsFindTree == Spec => []TreeForRequests
<1>1. IInv => TreeForRequests
  BY DEF IInv
<1> QED BY <1>1, IInvHolds, PTL

-----------------------------------------------------------------------------
(***************************************************************************)
(* ValueCache.  Of a site only the last message on its way counts, or, if  *)
(* there is none, what is in the cache: that is true already, if it came   *)
(* with or after the subscription.                                         *)
(***************************************************************************)
(* Values in the cache and in messages, messages and requests.             *)
Cached == [value : Int, subscribed : BOOLEAN]
BrokerMessage == [kind : {"result", "chng", "mntchng"}, sites : SUBSET ValueSites, value : Cached]
GetRequest == [get : BOOLEAN, sites : SUBSET ValueSites]

ValueTypes ==
  /\ value \in [ValueSites -> Int] /\ mounted \in [ValueSites -> BOOLEAN]
  /\ cacheSubscribed \in {"no", "sent", "done"}
  /\ requests \in Seq(GetRequest)
  /\ messages \in Seq(BrokerMessage)
  /\ \A i \in DOMAIN messages : messages[i].kind = "mntchng" => messages[i].value = V!None
  /\ cache \in [ValueSites -> Cached]

(* v is what the cache, which holds c of site s now, will hold of it when  *)
(* the messages M are received.                                            *)
Becomes(s, M, c, v) ==
  \/ v = c /\ \A i \in DOMAIN M : s \notin M[i].sites
  \/ \E i \in DOMAIN M :
       /\ s \in M[i].sites /\ v = M[i].value
       /\ \A j \in DOMAIN M : i < j => s \notin M[j].sites

(* A value that changes of the site will correct is the site's.            *)
TrueValue(s, v) ==
  v.subscribed => v.value = -1 \/ (mounted[s] /\ V!Hears(s) /\ v.value = value[s])

(* Once the messages on their way are received, all values are true.       *)
WillBeTrue ==
  \A s \in ValueSites, v \in Cached : Becomes(s, messages, cache[s], v) => TrueValue(s, v)

LEMMA BecomesAppend ==
  ASSUME NEW M \in Seq(BrokerMessage), NEW m \in BrokerMessage, NEW s, NEW c, NEW v,
         Becomes(s, Append(M, m), c, v)
  PROVE  IF s \in m.sites THEN v = m.value ELSE Becomes(s, M, c, v)
<1> DEFINE N == Append(M, m)
<1>1. /\ Len(M) \in Nat /\ Len(N) = Len(M) + 1 /\ DOMAIN N = 1..(Len(M) + 1) /\ DOMAIN M = 1..Len(M)
      /\ N[Len(M) + 1] = m /\ \A i \in DOMAIN M : N[i] = M[i]
  BY AppendProperties, LenProperties
<1>2. Becomes(s, N, c, v)
  OBVIOUS
<1> HIDE DEF N
<1> QED BY <1>1, <1>2 DEF Becomes

LEMMA BecomesTail ==
  ASSUME NEW M \in Seq(BrokerMessage), M # <<>>, NEW s, NEW c, NEW v,
         Becomes(s, Tail(M), IF s \in Head(M).sites THEN Head(M).value ELSE c, v)
  PROVE  Becomes(s, M, c, v)
<1> DEFINE N == Tail(M)
           d == IF s \in Head(M).sites THEN Head(M).value ELSE c
<1>1. /\ Len(M) \in Nat \ {0} /\ Len(N) = Len(M) - 1
      /\ DOMAIN N = 1..(Len(M) - 1) /\ DOMAIN M = 1..Len(M)
      /\ Head(M) = M[1] /\ \A i \in DOMAIN N : N[i] = M[i + 1]
  BY HeadTailProperties, LenProperties, EmptySeq
<1>2. Becomes(s, N, d, v)
  OBVIOUS
<1>3. d = IF s \in M[1].sites THEN M[1].value ELSE c
  BY <1>1
<1> HIDE DEF N, d
<1>4. CASE v = d /\ \A i \in DOMAIN N : s \notin N[i].sites
  <2>1. \A i \in DOMAIN M : i # 1 => s \notin M[i].sites
    <3> SUFFICES ASSUME NEW i \in DOMAIN M, i # 1 PROVE s \notin M[i].sites
      OBVIOUS
    <3>1. i - 1 \in DOMAIN N /\ N[i - 1] = M[i]
      BY <1>1
    <3> QED BY <3>1, <1>4
  <2> QED BY <2>1, <1>1, <1>3, <1>4 DEF Becomes
<1>5. ASSUME NEW i \in DOMAIN N, s \in N[i].sites, v = N[i].value,
             \A j \in DOMAIN N : i < j => s \notin N[j].sites
      PROVE  Becomes(s, M, c, v)
  <2>1. i + 1 \in DOMAIN M /\ M[i + 1] = N[i]
    BY <1>1
  <2>2. ASSUME NEW j \in DOMAIN M, i + 1 < j PROVE s \notin M[j].sites
    <3>1. j - 1 \in DOMAIN N /\ N[j - 1] = M[j] /\ i < j - 1
      BY <1>1, <2>2
    <3> QED BY <3>1, <1>5
  <2> QED BY <2>1, <2>2, <1>5 DEF Becomes
<1> QED BY <1>2, <1>4, <1>5 DEF Becomes

ValueInv == ValueTypes /\ WillBeTrue

-----------------------------------------------------------------------------
LEMMA InitValueInv == V!ValueCacheAssumption /\ V!Init => ValueInv
<1> SUFFICES ASSUME V!Init PROVE ValueInv
  OBVIOUS
<1>1. V!None \in Cached
  BY DEF V!None, Cached
<1>2. ValueTypes
  <2>1. requests \in Seq(GetRequest) /\ messages \in Seq(BrokerMessage)
    BY EmptySeq DEF V!Init
  <2>2. DOMAIN messages = {}
    BY DEF V!Init
  <2>3. cache \in [ValueSites -> Cached]
    BY <1>1 DEF V!Init
  <2>4. /\ value \in [ValueSites -> Int] /\ mounted \in [ValueSites -> BOOLEAN]
        /\ cacheSubscribed \in {"no", "sent", "done"}
    BY DEF V!Init
  <2> QED BY <2>1, <2>2, <2>3, <2>4 DEF ValueTypes
<1>3. WillBeTrue
  <2>1. DOMAIN messages = {}
    BY DEF V!Init
  <2>2. \A s \in ValueSites : cache[s] = V!None
    BY DEF V!Init
  <2> QED BY <2>1, <2>2 DEF WillBeTrue, Becomes, TrueValue, V!None
<1> QED BY <1>2, <1>3 DEF ValueInv

(* A message is sent, and what it says of its sites is true.               *)
LEMMA Told ==
  ASSUME ValueInv, NEW m \in BrokerMessage, messages' = Append(messages, m),
         m.kind = "mntchng" => m.value = V!None,
         UNCHANGED cache,
         value' \in [ValueSites -> Int], mounted' \in [ValueSites -> BOOLEAN],
         cacheSubscribed' \in {"no", "sent", "done"}, requests' \in Seq(GetRequest),
         \A s \in m.sites : TrueValue(s, m.value)',
         \A s \in ValueSites \ m.sites, v \in Cached : TrueValue(s, v) => TrueValue(s, v)'
  PROVE  ValueInv'
<1>1. messages' \in Seq(BrokerMessage)
  BY AppendProperties DEF ValueInv, ValueTypes
<1>2. \A i \in DOMAIN messages' : messages'[i].kind = "mntchng" => messages'[i].value = V!None
  BY AppendProperties DEF ValueInv, ValueTypes
<1>3. ValueTypes'
  BY <1>1, <1>2 DEF ValueInv, ValueTypes
<1>4. ASSUME NEW s \in ValueSites, NEW v \in Cached, Becomes(s, messages', cache'[s], v)
      PROVE  TrueValue(s, v)'
  <2>1. Becomes(s, Append(messages, m), cache[s], v)
    BY <1>4
  <2>2. IF s \in m.sites THEN v = m.value ELSE Becomes(s, messages, cache[s], v)
    BY <2>1, BecomesAppend DEF ValueInv, ValueTypes
  <2> QED BY <2>2 DEF ValueInv, WillBeTrue
<1> QED BY <1>3, <1>4 DEF ValueInv, WillBeTrue

(* Nothing is sent or received.                                            *)
LEMMA Untold ==
  ASSUME ValueInv, UNCHANGED <<messages, cache>>,
         value' \in [ValueSites -> Int], mounted' \in [ValueSites -> BOOLEAN],
         cacheSubscribed' \in {"no", "sent", "done"}, requests' \in Seq(GetRequest),
         \A s \in ValueSites, v \in Cached : TrueValue(s, v) => TrueValue(s, v)'
  PROVE  ValueInv'
  BY DEF ValueInv, ValueTypes, WillBeTrue

LEMMA NextValueInv ==
  ASSUME V!ValueCacheAssumption, ValueInv, V!Next
  PROVE  ValueInv'
<1> USE DEF ValueInv
<1>1. CASE V!Subscribe
  <2>1. [get |-> FALSE, sites |-> ValueSites] \in GetRequest
    BY DEF GetRequest
  <2>2. requests' \in Seq(GetRequest)
    BY <1>1, <2>1, AppendProperties DEF V!Subscribe, ValueTypes
  <2>3. \A s \in ValueSites, v \in Cached : TrueValue(s, v) => TrueValue(s, v)'
    BY <1>1 DEF V!Subscribe, TrueValue, V!Hears
  <2> QED BY <1>1, <2>2, <2>3, Untold DEF V!Subscribe, ValueTypes
<1>2. ASSUME NEW s \in ValueSites, V!Get(s) PROVE ValueInv'
  <2>1. [get |-> TRUE, sites |-> {s}] \in GetRequest
    BY DEF GetRequest
  <2>2. requests' \in Seq(GetRequest)
    BY <1>2, <2>1, AppendProperties DEF V!Get, ValueTypes
  <2>3. \A t \in ValueSites, v \in Cached : TrueValue(t, v) => TrueValue(t, v)'
    BY <1>2 DEF V!Get, TrueValue, V!Hears
  <2> QED BY <1>2, <2>2, <2>3, Untold DEF V!Get, ValueTypes
<1>3. CASE V!BrokerTakes
  <2>1. requests # <<>> /\ requests' = Tail(requests) /\ UNCHANGED <<value, mounted, cache>>
    BY <1>3 DEF V!BrokerTakes
  <2>2. requests' \in Seq(GetRequest) /\ Head(requests) \in GetRequest
    BY <2>1, HeadTailProperties DEF ValueTypes
  <2>3. CASE ~Head(requests).get
    <3>1. cacheSubscribed' = "done" /\ UNCHANGED messages
      BY <1>3, <2>3 DEF V!BrokerTakes
    <3>2. \A t \in ValueSites, v \in Cached : TrueValue(t, v) => TrueValue(t, v)'
      BY <2>1, <3>1 DEF TrueValue, V!Hears
    <3> QED BY <2>1, <2>2, <3>1, <3>2, Untold DEF ValueTypes
  <2>4. CASE Head(requests).get
    <3>1. PICK s \in Head(requests).sites :
            /\ \/ mounted[s] /\ V!Sent("result", {s}, [value |-> value[s], subscribed |-> V!Hears(s)])
               \/ UNCHANGED messages
            /\ UNCHANGED cacheSubscribed
      BY <1>3, <2>4 DEF V!BrokerTakes
    <3>2. s \in ValueSites
      BY <2>2 DEF GetRequest
    <3>3. \A t \in ValueSites, v \in Cached : TrueValue(t, v) => TrueValue(t, v)'
      BY <2>1, <3>1 DEF TrueValue, V!Hears
    <3>4. CASE UNCHANGED messages
      BY <2>1, <2>2, <3>1, <3>3, <3>4, Untold DEF ValueTypes
    <3>5. CASE mounted[s] /\ V!Sent("result", {s}, [value |-> value[s], subscribed |-> V!Hears(s)])
      <4>1. [value |-> value[s], subscribed |-> V!Hears(s)] \in Cached
        BY <3>2 DEF Cached, ValueTypes, V!Hears
      <4>2. PICK v \in Cached : v = [value |-> value[s], subscribed |-> V!Hears(s)]
        BY <4>1
      <4>3. PICK m : m = V!Message("result", {s}, v)
        OBVIOUS
      <4>4. m.kind # "mntchng" /\ m.sites = {s} /\ m.value = v /\ m \in BrokerMessage
        BY <3>2, <4>3 DEF V!Message, BrokerMessage
      <4>5. messages' = Append(messages, m)
        BY <3>5, <4>2, <4>3 DEF V!Sent
      <4>6. TrueValue(s, v)'
        BY <2>1, <3>1, <3>5, <4>2 DEF TrueValue, V!Hears
      <4>7. \A t \in m.sites : TrueValue(t, m.value)'
        BY <4>4, <4>6
      <4> QED BY <2>1, <2>2, <3>1, <3>3, <4>4, <4>5, <4>7, Told DEF ValueTypes
    <3> QED BY <3>1, <3>4, <3>5
  <2> QED BY <2>3, <2>4
<1>4. ASSUME NEW s \in ValueSites, V!Change(s) PROVE ValueInv'
  <2>1. /\ value' = [value EXCEPT ![s] = @ + 1]
        /\ UNCHANGED <<mounted, cacheSubscribed, requests, cache>>
    BY <1>4 DEF V!Change
  <2>2. /\ value' \in [ValueSites -> Int] /\ value'[s] \in Int
        /\ \A t \in ValueSites \ {s} : value'[t] = value[t]
    BY <2>1 DEF ValueTypes
  <2>3. \A t \in ValueSites \ {s}, v \in Cached : TrueValue(t, v) => TrueValue(t, v)'
    BY <2>1, <2>2 DEF TrueValue, V!Hears
  <2>4. CASE mounted[s] /\ V!Hears(s)
    <3>1. PICK v : v = [value |-> value'[s], subscribed |-> TRUE]
      OBVIOUS
    <3>2. v \in Cached /\ v.value = value'[s]
      BY <2>2, <3>1 DEF Cached
    <3>3. PICK m : m = V!Message("chng", {s}, v)
      OBVIOUS
    <3>4. m.kind # "mntchng" /\ m.sites = {s} /\ m.value = v /\ m \in BrokerMessage
      BY <3>2, <3>3 DEF V!Message, BrokerMessage
    <3>5. messages' = Append(messages, m)
      BY <1>4, <2>4, <3>1, <3>3 DEF V!Change, V!Sent
    <3>6. TrueValue(s, v)'
      BY <2>1, <2>4, <3>2 DEF TrueValue, V!Hears
    <3>7. \A t \in m.sites : TrueValue(t, m.value)'
      BY <3>4, <3>6
    <3> QED BY <2>1, <2>2, <2>3, <3>4, <3>5, <3>7, Told DEF ValueTypes
  <2>5. CASE ~(mounted[s] /\ V!Hears(s))
    <3>1. UNCHANGED messages
      BY <1>4, <2>5 DEF V!Change
    <3>2. \A v \in Cached : TrueValue(s, v) => TrueValue(s, v)'
      BY <2>1, <2>5 DEF TrueValue, V!Hears
    <3> QED BY <2>1, <2>2, <2>3, <3>1, <3>2, Untold DEF ValueTypes
  <2> QED BY <2>4, <2>5
<1>5. ASSUME NEW S \in {{s} : s \in ValueSites} \cup ValueBrokers, V!Moves(S) PROVE ValueInv'
  <2>1. S \subseteq ValueSites
    BY <1>5 DEF V!ValueCacheAssumption
  <2>2. PICK b \in BOOLEAN : mounted' = [s \in ValueSites |-> IF s \in S THEN b ELSE mounted[s]]
    BY <1>5 DEF V!Moves
  <2>3. mounted' \in [ValueSites -> BOOLEAN] /\ \A s \in ValueSites \ S : mounted'[s] = mounted[s]
    BY <2>2 DEF ValueTypes
  <2>4. UNCHANGED <<value, cacheSubscribed, requests, cache>>
    BY <1>5 DEF V!Moves
  <2>5. \A s \in ValueSites \ S, v \in Cached : TrueValue(s, v) => TrueValue(s, v)'
    BY <2>3, <2>4 DEF TrueValue, V!Hears
  <2>6. CASE cacheSubscribed = "done"
    <3> DEFINE m == V!Message("mntchng", S, V!None)
    <3>1. messages' = Append(messages, m)
      BY <1>5, <2>6 DEF V!Moves, V!Sent
    <3>2. m \in BrokerMessage /\ m.sites = S /\ m.value = V!None
      BY <2>1 DEF BrokerMessage, V!Message, Cached, V!None
    <3>3. \A s \in S : TrueValue(s, V!None)'
      BY DEF TrueValue, V!None
    <3> HIDE DEF m
    <3> QED BY <2>3, <2>4, <2>5, <3>1, <3>2, <3>3, Told DEF ValueTypes
  <2>7. CASE cacheSubscribed # "done"
    <3>1. UNCHANGED messages
      BY <1>5, <2>7 DEF V!Moves
    <3>2. \A s \in ValueSites, v \in Cached : TrueValue(s, v) => TrueValue(s, v)'
      BY <2>4, <2>7 DEF TrueValue, V!Hears
    <3> QED BY <2>3, <2>4, <3>1, <3>2, Untold DEF ValueTypes
  <2> QED BY <2>6, <2>7
<1>6. CASE V!MessageReceived
  <2> DEFINE m == Head(messages)
  <2>1. /\ messages # <<>> /\ messages' = Tail(messages)
        /\ UNCHANGED <<value, mounted, cacheSubscribed, requests>>
    BY <1>6 DEF V!MessageReceived
  <2>2. /\ messages' \in Seq(BrokerMessage) /\ m \in BrokerMessage
        /\ m = messages[1] /\ 1 \in DOMAIN messages
    BY <2>1, HeadTailProperties, EmptySeq DEF ValueTypes
  <2>3. \A i \in DOMAIN messages' : messages'[i].kind = "mntchng" => messages'[i].value = V!None
    BY <2>1, HeadTailProperties DEF ValueTypes
  <2>4. m.kind = "mntchng" => m.value = V!None
    BY <2>2 DEF ValueTypes
  <2>5. cache' = [s \in ValueSites |-> IF s \in m.sites THEN m.value ELSE cache[s]]
    BY <1>6, <2>4 DEF V!MessageReceived, V!Erased, V!Saved
  <2>6. m.value \in Cached
    BY <2>2 DEF BrokerMessage
  <2> HIDE DEF m
  <2>7. cache' \in [ValueSites -> Cached]
    BY <2>5, <2>6 DEF ValueTypes
  <2>8. ValueTypes'
    BY <2>1, <2>2, <2>3, <2>7 DEF ValueTypes
  <2>9. ASSUME NEW s \in ValueSites, NEW v \in Cached, Becomes(s, messages', cache'[s], v)
        PROVE  TrueValue(s, v)'
    <3>1. Becomes(s, Tail(messages), IF s \in m.sites THEN m.value ELSE cache[s], v)
      BY <2>1, <2>5, <2>9
    <3>2. Becomes(s, messages, cache[s], v)
      BY <2>1, <3>1, BecomesTail DEF ValueTypes, m
    <3>3. TrueValue(s, v)
      BY <3>2 DEF WillBeTrue
    <3> QED BY <2>1, <3>3 DEF TrueValue, V!Hears
  <2> QED BY <2>8, <2>9 DEF WillBeTrue
<1> QED BY <1>1, <1>2, <1>3, <1>4, <1>5, <1>6 DEF V!Next

LEMMA ValueInvCurrent == ValueInv => CacheCurrent
<1> SUFFICES ASSUME ValueInv, NEW s \in ValueSites, cache[s].subscribed,
                    \A i \in DOMAIN messages : s \notin messages[i].sites
             PROVE  cache[s].value \in {-1, value[s]}
  BY DEF CacheCurrent, V!CacheCurrent
<1>1. cache[s] \in Cached /\ Becomes(s, messages, cache[s], cache[s])
  BY DEF ValueInv, ValueTypes, Becomes
<1> QED BY <1>1 DEF ValueInv, WillBeTrue, TrueValue

(* A cached value is the value of its site, or a message that corrects it  *)
(* is on its way, for any sites, brokers, gets, changes and mounts.        *)
THEOREM CacheIsCurrent == MCSpec => []CacheCurrent
<1>1. MCInit => ValueInv
  BY InitValueInv, RequestsAssumption DEF MCInit
<1>2. ValueInv /\ [MCNext]_allVars => ValueInv'
  <2>1. ValueInv /\ V!Next => ValueInv'
    BY NextValueInv, RequestsAssumption
  <2>2. ValueInv /\ UNCHANGED vVars => ValueInv'
    BY DEF ValueInv, ValueTypes, WillBeTrue, TrueValue, V!Hears, vVars
  <2>3. MCNext => V!Next \/ UNCHANGED vVars
    BY DEF MCNext
  <2> QED BY <2>1, <2>2, <2>3 DEF allVars
<1> QED BY <1>1, <1>2, ValueInvCurrent, PTL DEF MCSpec

-----------------------------------------------------------------------------
(***************************************************************************)
(* PushLog.  What is stored is a beginning of the device's log, cut into   *)
(* the files in their order.  All that the device does not know to be      *)
(* stored yet is in the newest file, which is where the handler looks.     *)
(***************************************************************************)
End(lo, t) == lo[t] + Len(files[t])

(* The first n entries of the log are stored; file t holds those from      *)
(* lo[t] + 1 on; top is the newest file.                                   *)
PushHolds(n, lo, top) ==
  /\ acked <= n /\ n <= sent /\ sent <= Len(DeviceLog)
  /\ \A t \in P!Times :
       End(lo, t) <= n /\ \A j \in 1..Len(files[t]) : files[t][j] = DeviceLog[lo[t] + j]
  /\ \A t, u \in P!Times : t < u /\ files[t] # <<>> /\ files[u] # <<>> => End(lo, t) <= lo[u]
  /\ \A k \in 1..n : \E t \in P!Times : lo[t] < k /\ k <= End(lo, t)
  /\ \A t \in names : \E k \in 1..Len(DeviceLog) : k <= acked + 1 /\ t = DeviceLog[k].at
  /\ n > 0 => names # {}
  /\ names # {} =>
       /\ top \in names /\ \A t \in names : t <= top
       /\ n > acked => top = DeviceLog[acked + 1].at /\ files[top] # <<>> /\ lo[top] <= acked
       /\ files[top] = <<>> \/ End(lo, top) = n

PushInv ==
  /\ P!TypeOK
  /\ \E n \in Nat, lo \in [P!Times -> Nat], top \in Nat : PushHolds(n, lo, top)

-----------------------------------------------------------------------------
LEMMA SameCardinality == ASSUME NEW S PROVE P!Cardinality(S) = Cardinality(S)
  BY DEF Cardinality, P!Cardinality

LEMMA LogType ==
  ASSUME P!PushLogAssumption
  PROVE  /\ Len(DeviceLog) \in Nat /\ DOMAIN DeviceLog = 1..Len(DeviceLog)
         /\ P!Indices = 1..Len(DeviceLog)
         /\ \A i \in 1..Len(DeviceLog) :
              /\ DeviceLog[i].at \in Nat \ {0} /\ DeviceLog[i] \in P!Entry
              /\ DeviceLog[i].at \in P!Times
              /\ DeviceLog[i] = [at |-> DeviceLog[i].at, path |-> DeviceLog[i].path]
         /\ P!Times \subseteq Nat \ {0}
         /\ \A i, j \in 1..Len(DeviceLog) : i <= j => DeviceLog[i].at <= DeviceLog[j].at
         /\ \A i, j \in 1..Len(DeviceLog) : DeviceLog[i] = DeviceLog[j] => i = j
<1> DEFINE R == [at : Nat \ {0}, path : STRING]
<1>1. DeviceLog \in Seq(R)
  BY DEF P!PushLogAssumption
<1>2. Len(DeviceLog) \in Nat /\ DOMAIN DeviceLog = 1..Len(DeviceLog)
  BY <1>1, LenProperties
<1>3. \A i \in 1..Len(DeviceLog) : DeviceLog[i] \in R
  BY <1>1, ElementOfSeq
<1>4. \A i \in 1..Len(DeviceLog) :
        /\ DeviceLog[i].at \in Nat \ {0}
        /\ DeviceLog[i] = [at |-> DeviceLog[i].at, path |-> DeviceLog[i].path]
  BY <1>3
<1>5. P!Indices = 1..Len(DeviceLog)
  BY DEF P!Indices
<1>6. \A i \in 1..Len(DeviceLog) : DeviceLog[i] \in P!Entry /\ DeviceLog[i].at \in P!Times
  BY <1>5 DEF P!Entry, P!Times
<1>7. P!Times \subseteq Nat \ {0}
  BY <1>4, <1>5 DEF P!Times
<1>8. \A i, j \in 1..Len(DeviceLog) :
        i < j => DeviceLog[i].at <= DeviceLog[j].at /\ DeviceLog[i] # DeviceLog[j]
  BY DEF P!PushLogAssumption
<1>9. \A i, j \in 1..Len(DeviceLog) : i <= j => DeviceLog[i].at <= DeviceLog[j].at
  BY <1>2, <1>4, <1>8
<1>10. \A i, j \in 1..Len(DeviceLog) : DeviceLog[i] = DeviceLog[j] => i = j
  BY <1>2, <1>8
<1> QED BY <1>2, <1>4, <1>5, <1>6, <1>7, <1>9, <1>10

(* The r-th of an interval.                                                *)
LEMMA NthOfInterval ==
  ASSUME NEW a \in Nat, NEW b \in Nat, a < b, NEW r \in 1..(b - a)
  PROVE  P!Nth((a + 1)..b, r) = a + r
<1> DEFINE K == (a + 1)..b
<1>1. ASSUME NEW k \in K PROVE P!Cardinality({l \in K : l <= k}) = k - a
  <2>1. {l \in K : l <= k} = (a + 1)..k
    OBVIOUS
  <2>2. Cardinality((a + 1)..k) = k - a
    BY FS_Interval
  <2> QED BY <2>1, <2>2, SameCardinality
<1>2. a + r \in K /\ \A k \in K : k - a = r <=> k = a + r
  OBVIOUS
<1>3. \A k \in K : P!Cardinality({l \in K : l <= k}) = r <=> k = a + r
  BY <1>1, <1>2
<1> QED BY <1>2, <1>3 DEF P!Nth

LEMMA NewSeq ==
  ASSUME P!PushLogAssumption, NEW i \in 1..Len(DeviceLog), NEW j \in i..Len(DeviceLog),
         NEW n \in Nat, i <= n + 1, n <= j,
         \A k \in i..j : P!Accepted(DeviceLog[k]) <=> k > n
  PROVE  P!New(i, j) = [r \in 1..(j - n) |-> DeviceLog[n + r]]
<1> DEFINE K == {k \in i..j : P!Accepted(DeviceLog[k])}
<1>0. Len(DeviceLog) \in Nat
  BY LogType
<1>1. K = (n + 1)..j
  BY <1>0
<1>2. P!Cardinality(K) = j - n
  <2>1. P!Cardinality(K) = Cardinality((n + 1)..j)
    BY <1>1, SameCardinality
  <2>2. n + 1 \in Int /\ j \in Int
    BY <1>0
  <2>3. Cardinality((n + 1)..j) = IF n + 1 > j THEN 0 ELSE j - (n + 1) + 1
    BY <2>2, FS_Interval
  <2> QED BY <1>0, <2>1, <2>3
<1>3. P!New(i, j) = [r \in 1..P!Cardinality(K) |-> DeviceLog[P!Nth(K, r)]]
  BY DEF P!New
<1> HIDE DEF K
<1>4. \A r \in 1..(j - n) : P!Nth(K, r) = n + r
  BY <1>0, <1>1, NthOfInterval
<1> QED BY <1>2, <1>3, <1>4

-----------------------------------------------------------------------------
LEMMA PushTypes ==
  ASSUME P!PushLogAssumption, P!TypeOK
  PROVE  /\ acked \in Nat /\ sent \in Nat /\ acked <= sent /\ sent <= Len(DeviceLog)
         /\ names \subseteq P!Times
         /\ \A t \in P!Times : files[t] \in Seq(P!Entry) /\ Len(files[t]) \in Nat
                                /\ (files[t] # <<>> <=> Len(files[t]) > 0)
                                /\ (files[t] # <<>> => t \in names)
<1>1. /\ acked \in Nat /\ sent \in Nat /\ acked <= sent /\ sent <= Len(DeviceLog)
      /\ names \subseteq P!Times
  BY LogType DEF P!TypeOK
<1>2. ASSUME NEW t \in P!Times
      PROVE  files[t] \in Seq(P!Entry) /\ Len(files[t]) \in Nat
             /\ (files[t] # <<>> <=> Len(files[t]) > 0) /\ (files[t] # <<>> => t \in names)
  <2>1. files[t] \in Seq(P!Entry) /\ (files[t] # <<>> => t \in names)
    BY DEF P!TypeOK
  <2> QED BY <2>1, LenProperties, EmptySeq
<1> QED BY <1>1, <1>2

(* Exactly what is not stored yet is accepted.                             *)
LEMMA AcceptsTheRest ==
  ASSUME P!PushLogAssumption, P!TypeOK,
         NEW n \in Nat, NEW lo \in [P!Times -> Nat], NEW top \in Nat, PushHolds(n, lo, top),
         NEW k \in (acked + 1)..Len(DeviceLog)
  PROVE  P!Accepted(DeviceLog[k]) <=> k > n
<1> DEFINE L == Len(DeviceLog)
<1>1. L \in Nat /\ acked \in Nat /\ k \in 1..L /\ acked <= n /\ n <= L
  BY LogType, PushTypes DEF PushHolds
<1>2. DeviceLog[k].at \in Nat \ {0}
  BY <1>1, LogType
<1>3. CASE names = {}
  <2>1. n = 0
    BY <1>3 DEF PushHolds
  <2>2. P!NewestTime = 0
    BY <1>3 DEF P!NewestTime
  <2> QED BY <1>1, <1>2, <2>1, <2>2 DEF P!Accepted
<1>4. CASE names # {}
  <2>1. top \in names /\ top \in P!Times /\ \A t \in names : t <= top
    BY <1>4, PushTypes DEF PushHolds
  <2>2. \A t \in names : t \in Nat
    BY PushTypes, LogType
  <2>3. P!NewestFile = top
    <3>1. \A t \in names : (\A u \in names : u <= t) <=> t = top
      BY <2>1, <2>2
    <3> QED BY <2>1, <3>1 DEF P!NewestFile
  <2>4. CASE files[top] = <<>>
    <3>1. n = acked
      BY <1>1, <1>4, <2>4 DEF PushHolds
    <3>2. P!NewestTime = 0
      BY <2>3, <2>4 DEF P!NewestTime
    <3> QED BY <1>1, <1>2, <3>1, <3>2 DEF P!Accepted
  <2>5. CASE files[top] # <<>>
    <3> DEFINE len == Len(files[top])
               newest == DeviceLog[n].at
    <3>1. len \in Nat \ {0} /\ lo[top] \in Nat /\ lo[top] + len = n
      BY <1>4, <2>1, <2>5, PushTypes DEF PushHolds, End
    <3>2. \A q \in 1..len : files[top][q] = DeviceLog[lo[top] + q]
      BY <2>1 DEF PushHolds
    <3>3. n \in 1..L
      BY <1>1, <3>1
    <3>4. P!Last(files[top]) = DeviceLog[n]
      BY <3>1, <3>2, SMTT(30) DEF P!Last
    <3>5. P!NewestTime = newest /\ newest \in Nat \ {0}
      BY <1>4, <2>3, <2>5, <3>3, <3>4, LogType DEF P!NewestTime
    <3>6. DOMAIN files[top] = 1..len
      BY <2>1, PushTypes, LenProperties
    <3>7. P!NewestPaths = {DeviceLog[lo[top] + q].path :
                             q \in {p \in 1..len : DeviceLog[lo[top] + p].at = newest}}
      <4>1. P!ToSet(files[top]) = {DeviceLog[lo[top] + q] : q \in 1..len}
        BY <3>2, <3>6 DEF P!ToSet
      <4>2. P!NewestPaths = {x.path : x \in {y \in P!ToSet(files[top]) : y.at = newest}}
        BY <2>3, <3>5 DEF P!NewestPaths
      <4> QED BY <4>1, <4>2
    <3> HIDE DEF len
    <3>8. CASE k > n
      <4>1. newest <= DeviceLog[k].at
        BY <1>1, <3>3, <3>8, LogType
      <4>2. ASSUME NEW q \in 1..len, DeviceLog[lo[top] + q].at = DeviceLog[k].at,
                   DeviceLog[lo[top] + q].path = DeviceLog[k].path
            PROVE  FALSE
        <5>1. lo[top] + q \in 1..L /\ lo[top] + q # k
          BY <1>1, <3>1, <3>8, SMTT(30)
        <5>2. DeviceLog[lo[top] + q] = DeviceLog[k]
          BY <1>1, <4>2, <5>1, LogType
        <5> QED BY <1>1, <5>1, <5>2, LogType
      <4>3. newest = DeviceLog[k].at => DeviceLog[k].path \notin P!NewestPaths
        BY <3>7, <4>2
      <4> QED BY <1>2, <3>5, <3>8, <4>1, <4>3 DEF P!Accepted
    <3>9. CASE k <= n
      <4>1. lo[top] <= acked
        BY <1>1, <1>4, <3>9 DEF PushHolds
      <4>2. PICK q \in 1..len : k = lo[top] + q
        <5>1. k - lo[top] \in 1..len /\ k = lo[top] + (k - lo[top])
          BY <1>1, <3>1, <3>9, <4>1, SMTT(30)
        <5> QED BY <5>1
      <4>3. DeviceLog[k].at <= newest
        BY <1>1, <3>3, <3>9, LogType
      <4>4. DeviceLog[k].at = newest => DeviceLog[k].path \in P!NewestPaths
        BY <3>7, <4>2
      <4> QED BY <1>1, <1>2, <3>5, <3>9, <4>3, <4>4 DEF P!Accepted
    <3> QED BY <1>1, <3>8, <3>9
  <2> QED BY <2>4, <2>5
<1> QED BY <1>3, <1>4

(* The file a piece goes to is the newest, and its entries, if it has any, *)
(* end with the last that is stored.                                       *)
LEMMA FileWritten ==
  ASSUME P!PushLogAssumption, P!TypeOK,
         NEW n \in Nat, NEW lo \in [P!Times -> Nat], NEW top \in Nat, PushHolds(n, lo, top),
         acked + 1 <= Len(DeviceLog), NEW t, t = DeviceLog[acked + 1].at
  PROVE  /\ t \in P!Times /\ \A u \in names : u <= t
         /\ \E new \in [P!Times -> Nat] :
              /\ \A u \in P!Times \ {t} : new[u] = lo[u]
              /\ files[t] # <<>> => new[t] = lo[t]
              /\ End(new, t) = n /\ new[t] <= acked
<1>1. acked \in Nat /\ acked + 1 \in 1..Len(DeviceLog) /\ Len(DeviceLog) \in Nat /\ acked <= n
  BY LogType, PushTypes DEF PushHolds
<1>2. t \in P!Times /\ t \in Nat
  BY <1>1, LogType
<1>3. ASSUME NEW u \in names PROVE u <= t
  <2>1. PICK k \in 1..Len(DeviceLog) : k <= acked + 1 /\ u = DeviceLog[k].at
    BY DEF PushHolds
  <2> QED BY <1>1, <2>1, LogType
<1>4. CASE files[t] = <<>>
  <2>1. n = acked
    <3> SUFFICES ASSUME n > acked PROVE FALSE
      BY <1>1
    <3>1. names # {}
      BY <1>1 DEF PushHolds
    <3> QED BY <1>4, <3>1 DEF PushHolds
  <2> DEFINE new == [lo EXCEPT ![t] = n]
  <2>2. new \in [P!Times -> Nat] /\ new[t] = n /\ \A u \in P!Times \ {t} : new[u] = lo[u]
    BY <1>2
  <2>3. Len(files[t]) = 0
    BY <1>4
  <2> HIDE DEF new
  <2> QED BY <1>1, <1>2, <1>3, <1>4, <2>1, <2>2, <2>3, SMTT(30) DEF End
<1>5. CASE files[t] # <<>>
  <2>1. t \in names
    BY <1>2, <1>5, PushTypes
  <2>2. top \in names /\ t <= top
    BY <2>1 DEF PushHolds
  <2>3. t = top
    BY <1>2, <1>3, <2>2
  <2>4. End(lo, t) = n
    BY <1>5, <2>1, <2>3 DEF PushHolds
  <2>5. lo[t] <= acked
    <3>1. CASE n > acked
      BY <2>1, <2>3, <3>1 DEF PushHolds
    <3>2. CASE n = acked
      BY <1>2, <2>4, <3>2, PushTypes DEF End
    <3> QED BY <1>1, <3>1, <3>2
  <2> QED BY <1>2, <1>3, <2>4, <2>5
<1> QED BY <1>4, <1>5

(* Entries n + 1 to m are appended to file t, and the device knows no more *)
(* and has sent no less than what is stored then.                          *)
Appends(t, n, m) ==
  /\ files' = [files EXCEPT ![t] = @ \o [r \in 1..(m - n) |-> DeviceLog[n + r]]]
  /\ (m > acked => files'[t] # <<>>) => names' = names \cup {t}

Tells(m) ==
  /\ acked' = acked \/ (acked' = m /\ m > acked)
  /\ sent' \in Nat /\ m <= sent' /\ sent' <= Len(DeviceLog) /\ faults' \in 0..PushFaults

LEMMA WriteHolds ==
  ASSUME P!PushLogAssumption, P!TypeOK,
         NEW n \in Nat, NEW lo \in [P!Times -> Nat], NEW top \in Nat, PushHolds(n, lo, top),
         acked + 1 <= Len(DeviceLog), NEW t, t = DeviceLog[acked + 1].at,
         NEW m \in Nat, n <= m, m <= Len(DeviceLog),
         Appends(t, n, m), Tells(m)
  PROVE  PushInv'
<1> DEFINE L == Len(DeviceLog)
           s == [r \in 1..(m - n) |-> DeviceLog[n + r]]
<1>1. t \in P!Times /\ \A u \in names : u <= t
  BY FileWritten
<1>2. PICK new \in [P!Times -> Nat] :
        /\ \A u \in P!Times \ {t} : new[u] = lo[u]
        /\ files[t] # <<>> => new[t] = lo[t]
        /\ End(new, t) = n /\ new[t] <= acked
  BY FileWritten
<1>3. /\ L \in Nat /\ acked \in Nat /\ acked <= n /\ n <= L
      /\ acked' \in Nat /\ acked <= acked' /\ acked' <= m
  <2>1. L \in Nat /\ acked \in Nat /\ sent \in Nat
    BY LogType, PushTypes
  <2>2. acked <= n /\ n <= sent /\ sent <= L
    BY DEF PushHolds
  <2>3. acked' = acked \/ (acked' = m /\ m > acked)
    BY DEF Tells
  <2> QED BY <2>1, <2>2, <2>3
<1>4. s \in Seq(P!Entry) /\ Len(s) = m - n /\ \A r \in 1..(m - n) : s[r] = DeviceLog[n + r]
  <2>1. \A r \in 1..(m - n) : DeviceLog[n + r] \in P!Entry
    <3>1. \A i \in 1..L : DeviceLog[i] \in P!Entry
      BY LogType
    <3>2. \A r \in 1..(m - n) : n + r \in 1..L
      BY <1>3
    <3> QED BY <3>1, <3>2
  <2>2. m - n \in Nat
    OBVIOUS
  <2> QED BY <2>1, <2>2, LenProperties
<1> HIDE DEF s
<1>5. files[t] \in Seq(P!Entry) /\ Len(files[t]) \in Nat
  BY <1>1, PushTypes
<1>6. /\ files'[t] = files[t] \o s
      /\ \A u \in P!Times \ {t} : files'[u] = files[u]
      /\ files' \in [P!Times -> Seq(P!Entry)]
  <2>1. files \in [P!Times -> Seq(P!Entry)] /\ files' = [files EXCEPT ![t] = @ \o s]
    BY DEF P!TypeOK, Appends, s
  <2>2. files[t] \o s \in Seq(P!Entry)
    BY <1>4, <1>5, ConcatProperties
  <2> QED BY <1>1, <2>1, <2>2
<1>7. /\ Len(files'[t]) = Len(files[t]) + (m - n)
      /\ \A j \in 1..Len(files'[t]) :
           files'[t][j] = IF j <= Len(files[t]) THEN files[t][j] ELSE s[j - Len(files[t])]
  <2> DEFINE f == files[t]
             g == files'[t]
  <2>1. f \in Seq(P!Entry) /\ g = f \o s
    BY <1>5, <1>6
  <2> HIDE DEF f, g
  <2>2. /\ Len(g) = Len(f) + Len(s)
        /\ \A j \in 1..(Len(f) + Len(s)) :
             g[j] = IF j <= Len(f) THEN f[j] ELSE s[j - Len(f)]
    BY <1>4, <2>1, ConcatProperties
  <2>3. /\ Len(g) = Len(f) + (m - n)
        /\ \A j \in 1..Len(g) : g[j] = IF j <= Len(f) THEN f[j] ELSE s[j - Len(f)]
    BY <1>4, <2>2
  <2> QED BY <2>3 DEF f, g
<1>8. new[t] \in Nat /\ new[t] + Len(files[t]) = n /\ new[t] + Len(files'[t]) = m
  <2>1. new[t] \in Nat /\ new[t] + Len(files[t]) = n
    BY <1>1, <1>2 DEF End
  <2> DEFINE a == Len(files[t])
             b == Len(files'[t])
             c == new[t]
  <2>2. a \in Nat /\ b = a + (m - n) /\ c \in Nat /\ c + a = n
    BY <1>5, <1>7, <2>1
  <2> HIDE DEF a, b, c
  <2>3. c \in Nat /\ c + a = n /\ c + b = m
    BY <2>2
  <2> QED BY <2>3 DEF a, b, c
<1>9. m > acked => files'[t] # <<>>
  <2> DEFINE g == files'[t]
  <2>1. new[t] <= acked
    BY <1>2
  <2>2. new[t] + Len(g) = m /\ new[t] \in Nat
    BY <1>8
  <2> HIDE DEF g
  <2>3. m > acked => Len(g) # 0
    BY <1>3, <2>1, <2>2
  <2>4. m > acked => g # <<>>
    BY <2>3
  <2> QED BY <2>4 DEF g
<1>10. names' = names \cup {t}
  BY <1>9 DEF Appends
<1>11. ASSUME NEW j \in 1..Len(files'[t]) PROVE files'[t][j] = DeviceLog[new[t] + j]
  <2>1. CASE j <= Len(files[t])
    <3>1. files[t] # <<>>
      BY <1>5, <2>1
    <3>2. files[t][j] = DeviceLog[lo[t] + j]
      BY <1>1, <1>5, <2>1, SMTT(30) DEF PushHolds
    <3> QED BY <1>2, <1>7, <2>1, <3>1, <3>2
  <2>2. CASE j > Len(files[t])
    <3>1. j - Len(files[t]) \in 1..(m - n)
      BY <1>5, <1>7, <2>2, SMTT(30)
    <3>2. n + (j - Len(files[t])) = new[t] + j
      <4> DEFINE len == Len(files[t])
      <4> DEFINE c == new[t]
      <4>1. c \in Nat /\ len \in Nat /\ c + len = n /\ j \in Int
        BY <1>5, <1>8
      <4> HIDE DEF len, c
      <4>2. n + (j - len) = c + j
        BY <4>1
      <4> QED BY <4>2 DEF len, c
    <3>3. s[j - Len(files[t])] = DeviceLog[n + (j - Len(files[t]))]
      BY <1>4, <3>1
    <3>4. files'[t][j] = s[j - Len(files[t])]
      BY <1>5, <1>7, <2>2, SMTT(30)
    <3> QED BY <3>2, <3>3, <3>4
  <2> QED BY <1>5, <2>1, <2>2
<1>12. \A u \in P!Times \ {t} : End(new, u)' = End(lo, u)
  BY <1>2, <1>6 DEF End
<1>13. End(new, t)' = m
  BY <1>8 DEF End
<1>14. \A u \in P!Times : End(lo, u) \in Nat /\ End(lo, u) <= n
  BY PushTypes, SMTT(30) DEF PushHolds, End
<1> HIDE DEF End
<1>15. \A u \in P!Times :
         End(new, u)' <= m /\ \A j \in 1..Len(files'[u]) : files'[u][j] = DeviceLog[new[u] + j]
  <2>1. ASSUME NEW u \in P!Times \ {t}
        PROVE  /\ End(new, u)' <= m
               /\ \A j \in 1..Len(files'[u]) : files'[u][j] = DeviceLog[new[u] + j]
    <3>1. End(new, u)' <= m
      <4>1. End(new, u)' = End(lo, u) /\ End(lo, u) \in Nat /\ End(lo, u) <= n
        BY <1>12, <1>14
      <4> QED BY <4>1
    <3>2. \A j \in 1..Len(files[u]) : files[u][j] = DeviceLog[lo[u] + j]
      BY DEF PushHolds
    <3> QED BY <1>2, <1>6, <3>1, <3>2
  <2>2. End(new, t)' <= m
    BY <1>13
  <2>3. \A u \in P!Times : u = t \/ u \in P!Times \ {t}
    OBVIOUS
  <2> QED BY <1>11, <2>1, <2>2, <2>3, Zenon
<1>16. ASSUME NEW u \in P!Times, NEW v \in P!Times, u < v, files'[u] # <<>>, files'[v] # <<>>
       PROVE  End(new, u)' <= new[v]
  <2>1. u \in Nat /\ v \in Nat /\ t \in Nat
    BY <1>1, LogType
  <2>2. CASE u # t /\ v # t
    <3>1. End(lo, u) <= lo[v]
      BY <1>6, <1>16, <2>2 DEF PushHolds
    <3> QED BY <1>2, <1>12, <2>2, <3>1
  <2>3. CASE u = t
    <3>1. files[v] # <<>>
      BY <1>6, <1>16, <2>1, <2>3, SMTT(30)
    <3>2. v <= t
      BY <1>1, <3>1, PushTypes
    <3> QED BY <1>16, <2>1, <2>3, <3>2, SMTT(30)
  <2>4. CASE v = t
    <3>1. u # t /\ files[u] # <<>>
      BY <1>6, <1>16, <2>1, <2>4, SMTT(30)
    <3>2. CASE files[t] # <<>>
      <4>1. End(lo, u) <= lo[t]
        BY <1>16, <2>4, <3>1, <3>2 DEF PushHolds
      <4> QED BY <1>2, <1>12, <2>4, <3>1, <3>2, <4>1
    <3>3. CASE files[t] = <<>>
      <4>1. new[t] = n
        BY <1>8, <3>3
      <4> QED BY <1>12, <1>14, <2>4, <3>1, <4>1
    <3> QED BY <3>2, <3>3
  <2> QED BY <2>2, <2>3, <2>4
<1>17. ASSUME NEW k \in 1..m PROVE \E u \in P!Times : new[u] < k /\ k <= End(new, u)'
  <2>1. CASE k <= n
    <3>1. PICK u \in P!Times : lo[u] < k /\ k <= End(lo, u)
      <4>1. \A q \in 1..n : \E u \in P!Times : lo[u] < q /\ q <= End(lo, u)
        BY DEF PushHolds
      <4>2. k \in 1..n
        BY <2>1
      <4> QED BY <4>1, <4>2
    <3>2. CASE u # t
      BY <1>2, <1>12, <3>1, <3>2
    <3>3. CASE u = t
      <4>1. lo[t] \in Nat /\ End(lo, t) = lo[t] + Len(files[t])
        BY <1>1 DEF End
      <4>2. files[t] # <<>>
        BY <1>5, <3>1, <3>3, <4>1
      <4> QED BY <1>1, <1>2, <1>13, <3>1, <3>3, <4>2
    <3> QED BY <3>2, <3>3
  <2>2. CASE k > n
    <3>1. PICK len \in Nat : len = Len(files[t])
      BY <1>5
    <3>2. new[t] \in Nat /\ new[t] + len = n
      BY <1>8, <3>1, Zenon
    <3>3. new[t] < k
      BY <2>2, <3>2
    <3>4. k <= m
      OBVIOUS
    <3> QED BY <1>1, <1>13, <3>3, <3>4, Zenon
  <2> QED BY <2>1, <2>2
<1>18. \A u \in names' : \E k \in 1..L : k <= acked' + 1 /\ u = DeviceLog[k].at
  <2> DEFINE a == acked'
  <2>0. a \in Nat /\ acked <= a /\ acked \in Nat /\ L \in Nat /\ acked + 1 <= L
    BY <1>3
  <2> HIDE DEF a
  <2>1. acked + 1 \in 1..L /\ acked + 1 <= a + 1
    BY <2>0
  <2>2. ASSUME NEW u \in names PROVE \E k \in 1..L : k <= a + 1 /\ u = DeviceLog[k].at
    <3>1. PICK k \in 1..L : k <= acked + 1 /\ u = DeviceLog[k].at
      BY DEF PushHolds
    <3>2. k <= a + 1
      BY <2>0, <3>1
    <3> QED BY <3>1, <3>2
  <2> USE DEF a
  <2> QED BY <1>10, <2>1, <2>2
<1>19. m > acked' => t = DeviceLog[acked' + 1].at /\ files'[t] # <<>> /\ new[t] <= acked'
  <2>1. m > acked' => acked' = acked
    BY <1>3 DEF Tells
  <2>2. acked' = acked => t = DeviceLog[acked' + 1].at
    OBVIOUS
  <2>3. new[t] <= acked
    BY <1>2
  <2> QED BY <1>9, <2>1, <2>2, <2>3
<1>20. t \in names' /\ \A u \in names' : u <= t
  BY <1>1, <1>10, LogType
<1>21. PushHolds(m, new, t)'
  <2>1. acked' <= m /\ m <= sent' /\ sent' <= Len(DeviceLog)
    BY <1>3 DEF Tells
  <2> QED BY <1>13, <1>15, <1>16, <1>17, <1>18, <1>19, <1>20, <2>1 DEF PushHolds
<1>22. P!TypeOK'
  <2>1. names' \subseteq P!Times
    BY <1>1, <1>10, PushTypes
  <2>2. \A u \in P!Times \ names' : files'[u] = <<>>
    BY <1>6, <1>10 DEF P!TypeOK
  <2>3. acked' \in 0..sent' /\ sent' \in 0..Len(DeviceLog) /\ faults' \in 0..PushFaults
    BY <1>3 DEF Tells
  <2> QED BY <1>6, <2>1, <2>2, <2>3 DEF P!TypeOK
<1>23. t \in Nat
  BY <1>1, LogType
<1> QED BY <1>21, <1>22, <1>23 DEF PushInv

LEMMA InitPushInv == P!PushLogAssumption /\ P!Init => PushInv
<1> SUFFICES ASSUME P!PushLogAssumption, P!Init PROVE PushInv
  OBVIOUS
<1>1. Len(DeviceLog) \in Nat
  BY LogType
<1>2. P!TypeOK
  BY <1>1, EmptySeq DEF P!Init, P!TypeOK, P!PushLogAssumption
<1>3. [t \in P!Times |-> 0] \in [P!Times -> Nat]
  OBVIOUS
<1>4. PushHolds(0, [t \in P!Times |-> 0], 0)
  BY <1>1 DEF P!Init, PushHolds, End
<1> QED BY <1>2, <1>3, <1>4 DEF PushInv

LEMMA NextPushInv ==
  ASSUME P!PushLogAssumption, PushInv, P!Next
  PROVE  PushInv'
<1>1. PICK n \in Nat, lo \in [P!Times -> Nat], top \in Nat : PushHolds(n, lo, top)
  BY DEF PushInv
<1>2. P!TypeOK
  BY DEF PushInv
<1>3. PICK i \in P!Indices, j \in P!Indices :
        P!Push(i, j) \/ P!PushUnanswered(i, j) \/ \E k \in 0..Len(DeviceLog) : P!DieWriting(i, j, k)
  BY DEF P!Next
<1>4. /\ i = acked + 1 /\ i \in 1..Len(DeviceLog) /\ j \in i..Len(DeviceLog) /\ sent <= j
      /\ Len(DeviceLog) \in Nat /\ acked \in Nat /\ sent \in Nat
      /\ acked <= n /\ n <= sent /\ i <= n + 1 /\ n <= j
  <2>1. P!MaySend(i, j)
    BY <1>3 DEF P!Push, P!PushUnanswered, P!DieWriting
  <2>2. i = acked + 1 /\ i \in 1..Len(DeviceLog) /\ j \in i..Len(DeviceLog) /\ sent <= j
    BY <1>3, <2>1, LogType DEF P!MaySend
  <2>3. Len(DeviceLog) \in Nat /\ acked \in Nat /\ sent \in Nat
    BY <1>2, LogType, PushTypes
  <2>4. acked <= n /\ n <= sent
    BY <1>1 DEF PushHolds
  <2> QED BY <2>2, <2>3, <2>4
<1>5. P!New(i, j) = [r \in 1..(j - n) |-> DeviceLog[n + r]]
  <2>1. ASSUME NEW k \in i..j PROVE P!Accepted(DeviceLog[k]) <=> k > n
    <3>1. k \in (acked + 1)..Len(DeviceLog)
      BY <1>4
    <3> QED BY <1>1, <1>2, <3>1, AcceptsTheRest
  <2> QED BY <1>4, <2>1, NewSeq
<1>6. PICK t : t = DeviceLog[acked + 1].at
  OBVIOUS
<1>7. t = P!FileOf(i) /\ acked + 1 <= Len(DeviceLog)
  BY <1>4, <1>6 DEF P!FileOf
<1>8. sent' = j
  <2>1. P!Sent(j)
    BY <1>3 DEF P!Push, P!PushUnanswered, P!DieWriting
  <2> QED BY <1>4, <2>1 DEF P!Sent
<1>9. CASE P!Push(i, j) \/ P!PushUnanswered(i, j)
  <2>1. P!Write(i, j)
    BY <1>9 DEF P!Push, P!PushUnanswered
  <2>2. files' = [files EXCEPT ![t] = @ \o [r \in 1..(j - n) |-> DeviceLog[n + r]]]
    BY <1>5, <1>7, <2>1 DEF P!Write
  <2>3. files'[t] # <<>> => names' = names \cup {t}
    BY <1>7, <2>1 DEF P!Write
  <2>4. /\ j \in Nat /\ j > acked /\ j <= Len(DeviceLog)
        /\ j <= sent' /\ sent' \in Nat /\ sent' <= Len(DeviceLog)
    BY <1>4, <1>8
  <2>5. acked' = acked \/ (acked' = j /\ j > acked)
    BY <1>9, <2>4 DEF P!Push, P!PushUnanswered
  <2>6. faults' \in 0..PushFaults
    BY <1>2, <1>9 DEF P!Push, P!PushUnanswered, P!TypeOK, P!PushLogAssumption
  <2>7. Appends(t, n, j) /\ Tells(j)
    BY <2>2, <2>3, <2>4, <2>5, <2>6 DEF Appends, Tells
  <2> QED BY <1>1, <1>2, <1>4, <1>6, <1>7, <2>4, <2>7, WriteHolds
<1>10. ASSUME NEW k \in 0..Len(DeviceLog), P!DieWriting(i, j, k) PROVE PushInv'
  <2>1. /\ k \in 0..(Len(P!New(i, j)) - 1)
        /\ names' = names \cup {t} /\ files' = [files EXCEPT ![t] = @ \o SubSeq(P!New(i, j), 1, k)]
        /\ faults < PushFaults /\ faults' = faults + 1 /\ acked' = acked
    BY <1>7, <1>10 DEF P!DieWriting
  <2> DEFINE s == [r \in 1..(j - n) |-> DeviceLog[n + r]]
  <2>2. j - n \in Nat /\ \A r \in 1..(j - n) : DeviceLog[n + r] \in P!Entry
    <3>1. \A q \in 1..Len(DeviceLog) : DeviceLog[q] \in P!Entry
      BY LogType
    <3>2. j - n \in Nat /\ \A r \in 1..(j - n) : n + r \in 1..Len(DeviceLog)
      BY <1>4
    <3> QED BY <3>1, <3>2
  <2>3. s \in Seq(P!Entry) /\ Len(s) = j - n
    BY <2>2, LenProperties
  <2>4. k \in 0..(j - n)
    BY <1>4, <1>5, <2>1, <2>3
  <2>5. SubSeq(s, 1, k) = [r \in 1..((n + k) - n) |-> DeviceLog[n + r]]
    <3> DEFINE c == (n + k) - n
    <3>1. c = k /\ k \in Nat
      BY <1>4, <2>4
    <3>2. SubSeq(s, 1, k) = [r \in 1..k |-> s[r]]
      <4>1. \A r \in 1..k : s[r] \in P!Entry
        BY <1>4, <2>2, <2>4
      <4>2. /\ SubSeq(s, 1, k) \in Seq(P!Entry)
            /\ Len(SubSeq(s, 1, k)) = IF 1 <= k THEN k - 1 + 1 ELSE 0
            /\ \A r \in 1..(k - 1 + 1) : SubSeq(s, 1, k)[r] = s[1 + r - 1]
        BY <3>1, <4>1, SubSeqProperties
      <4>3. Len(SubSeq(s, 1, k)) = k /\ \A r \in 1..k : SubSeq(s, 1, k)[r] = s[r]
        BY <3>1, <4>2
      <4> HIDE DEF s
      <4> QED BY <4>2, <4>3, LenProperties
    <3>3. \A r \in 1..k : s[r] = DeviceLog[n + r]
      BY <2>2, <2>4
    <3> HIDE DEF s, c
    <3>4. SubSeq(s, 1, k) = [r \in 1..c |-> DeviceLog[n + r]]
      BY <3>1, <3>2, <3>3
    <3> QED BY <3>4 DEF c
  <2>6. files' = [files EXCEPT ![t] = @ \o [r \in 1..((n + k) - n) |-> DeviceLog[n + r]]]
    BY <1>5, <2>1, <2>5
  <2>7. /\ n + k \in Nat /\ n <= n + k /\ n + k <= Len(DeviceLog)
        /\ n + k <= sent' /\ sent' \in Nat /\ sent' <= Len(DeviceLog)
    BY <1>4, <1>8, <2>4
  <2>8. faults' \in 0..PushFaults
    BY <1>2, <2>1 DEF P!TypeOK, P!PushLogAssumption
  <2> HIDE DEF s
  <2>9. Appends(t, n, n + k) /\ Tells(n + k)
    BY <2>1, <2>6, <2>7, <2>8 DEF Appends, Tells
  <2> QED BY <1>1, <1>2, <1>4, <1>6, <1>7, <2>7, <2>9, WriteHolds
<1> QED BY <1>3, <1>9, <1>10

(* Entries of files are entries of the log, at different places of it.     *)
LEMMA StoredAt ==
  ASSUME P!PushLogAssumption, P!TypeOK,
         NEW n \in Nat, NEW lo \in [P!Times -> Nat], NEW top \in Nat, PushHolds(n, lo, top),
         NEW t \in P!Times, NEW j \in 1..Len(files[t])
  PROVE  /\ lo[t] + j \in 1..Len(DeviceLog) /\ files[t][j] = DeviceLog[lo[t] + j]
         /\ lo[t] < lo[t] + j /\ lo[t] + j <= End(lo, t)
<1>1. /\ n <= Len(DeviceLog) /\ End(lo, t) <= n /\ files[t][j] = DeviceLog[lo[t] + j]
      /\ Len(files[t]) \in Nat /\ lo[t] \in Nat /\ Len(DeviceLog) \in Nat
  <2>1. n <= sent /\ sent <= Len(DeviceLog) /\ End(lo, t) <= n /\ files[t][j] = DeviceLog[lo[t] + j]
    BY DEF PushHolds
  <2>2. Len(files[t]) \in Nat /\ Len(DeviceLog) \in Nat /\ sent \in Nat
    BY PushTypes, LogType
  <2> QED BY <2>1, <2>2
<1> DEFINE len == Len(files[t])
           a == lo[t]
           L == Len(DeviceLog)
<1>2. /\ n <= L /\ a + len <= n /\ len \in Nat /\ a \in Nat /\ L \in Nat
      /\ j \in 1..len
  BY <1>1 DEF End
<1> HIDE DEF len, a, L
<1>3. a + j \in 1..L /\ a < a + j /\ a + j <= a + len
  BY <1>2
<1> QED BY <1>1, <1>3 DEF len, a, L, End

LEMMA StoredPlace ==
  ASSUME P!PushLogAssumption, P!TypeOK, NEW t \in P!Times, NEW x \in P!Stored(t)
  PROVE  \E j \in 1..Len(files[t]) : x = files[t][j]
<1>1. DOMAIN files[t] = 1..Len(files[t])
  BY PushTypes, LenProperties
<1> QED BY <1>1 DEF P!Stored, P!ToSet

(* Places in an older file are before those in a newer one.                *)
LEMMA OlderFileFirst ==
  ASSUME P!PushLogAssumption, P!TypeOK,
         NEW n \in Nat, NEW lo \in [P!Times -> Nat], NEW top \in Nat, PushHolds(n, lo, top),
         NEW t \in P!Times, NEW u \in P!Times, t < u,
         NEW i \in 1..Len(files[t]), NEW j \in 1..Len(files[u])
  PROVE  lo[t] + i < lo[u] + j
<1>1. files[t] # <<>> /\ files[u] # <<>>
  BY PushTypes
<1>2. End(lo, t) <= lo[u]
  BY <1>1 DEF PushHolds
<1>3. lo[t] + i <= End(lo, t)
  BY StoredAt, Zenon
<1>4. lo[u] < lo[u] + j
  BY StoredAt, Zenon
<1>5. lo[t] + i \in Nat /\ lo[u] + j \in Nat /\ lo[u] \in Nat /\ End(lo, t) \in Nat
  <2>1. lo[t] \in Nat /\ lo[u] \in Nat
    OBVIOUS
  <2>2. Len(files[t]) \in Nat /\ Len(files[u]) \in Nat
    BY PushTypes, LenProperties
  <2>3. i \in Nat /\ j \in Nat
    BY <2>2
  <2> QED BY <2>1, <2>2, <2>3, SMTT(30) DEF End
<1> QED BY <1>2, <1>3, <1>4, <1>5

LEMMA PushInvOnce ==
  ASSUME P!PushLogAssumption, PushInv
  PROVE  PushedOnce
<1>1. PICK n \in Nat, lo \in [P!Times -> Nat], top \in Nat : PushHolds(n, lo, top)
  BY DEF PushInv
<1>2. P!TypeOK
  BY DEF PushInv
<1>3. /\ \A i, j \in 1..Len(DeviceLog) : DeviceLog[i] = DeviceLog[j] => i = j
      /\ \A i, j \in 1..Len(DeviceLog) : i <= j => DeviceLog[i].at <= DeviceLog[j].at
      /\ P!Times \subseteq Nat
  BY LogType
<1>4. P!AckedStored
  <2> SUFFICES ASSUME NEW i \in 1..acked PROVE \E t \in names : DeviceLog[i] \in P!Stored(t)
    BY DEF P!AckedStored
  <2>1. i \in 1..n /\ i \in Nat
    BY <1>1, <1>2, PushTypes DEF PushHolds
  <2>2. PICK t \in P!Times : lo[t] < i /\ i <= End(lo, t)
    <3>1. \A k \in 1..n : \E t \in P!Times : lo[t] < k /\ k <= End(lo, t)
      BY <1>1 DEF PushHolds
    <3> QED BY <2>1, <3>1
  <2>3. Len(files[t]) \in Nat /\ lo[t] \in Nat
    BY <1>2, PushTypes
  <2>4. PICK j \in 1..Len(files[t]) : lo[t] + j = i
    <3> DEFINE a == lo[t]
               len == Len(files[t])
    <3>1. a \in Nat /\ len \in Nat /\ a < i /\ i <= a + len
      BY <2>2, <2>3 DEF End
    <3> HIDE DEF a, len
    <3>2. i - a \in 1..len /\ a + (i - a) = i
      BY <2>1, <3>1
    <3> QED BY <3>2 DEF a, len
  <2>5. files[t][j] = DeviceLog[i]
    BY <1>1, <1>2, <2>4, StoredAt
  <2>6. DOMAIN files[t] = 1..Len(files[t]) /\ t \in names
    <3>1. files[t] # <<>>
      BY <1>2, <2>3, PushTypes
    <3> QED BY <1>2, <3>1, PushTypes, LenProperties
  <2> QED BY <2>5, <2>6 DEF P!Stored, P!ToSet
<1>5. P!NoDuplicates
  <2>1. ASSUME NEW t \in P!Times PROVE P!IsInjective(files[t])
    <3>1. DOMAIN files[t] = 1..Len(files[t])
      BY <1>2, PushTypes, LenProperties
    <3>2. ASSUME NEW i \in 1..Len(files[t]), NEW j \in 1..Len(files[t]), files[t][i] = files[t][j]
          PROVE  i = j
      <4>1. /\ lo[t] + i \in 1..Len(DeviceLog) /\ files[t][i] = DeviceLog[lo[t] + i]
            /\ lo[t] + j \in 1..Len(DeviceLog) /\ files[t][j] = DeviceLog[lo[t] + j]
        BY <1>1, <1>2, StoredAt
      <4>2. lo[t] + i = lo[t] + j
        BY <1>3, <3>2, <4>1
      <4>3. lo[t] \in Nat
        OBVIOUS
      <4> QED BY <4>2, <4>3
    <3> QED BY <3>1, <3>2 DEF P!IsInjective
  <2>2. ASSUME NEW t \in P!Times, NEW u \in P!Times, t < u, NEW x \in P!Stored(t), x \in P!Stored(u)
        PROVE  FALSE
    <3>1. PICK i \in 1..Len(files[t]) : x = files[t][i]
      BY <1>2, StoredPlace
    <3>2. PICK j \in 1..Len(files[u]) : x = files[u][j]
      BY <1>2, <2>2, StoredPlace
    <3>3. /\ lo[t] + i \in 1..Len(DeviceLog) /\ files[t][i] = DeviceLog[lo[t] + i]
          /\ lo[u] + j \in 1..Len(DeviceLog) /\ files[u][j] = DeviceLog[lo[u] + j]
      BY <1>1, <1>2, StoredAt
    <3>4. lo[t] + i < lo[u] + j
      BY <1>1, <1>2, <2>2, OlderFileFirst
    <3>5. lo[t] + i = lo[u] + j
      BY <1>3, <3>1, <3>2, <3>3
    <3> QED BY <3>3, <3>4, <3>5
  <2>3. \A t, u \in P!Times : t # u => P!Stored(t) \cap P!Stored(u) = {}
    BY <1>3, <2>2
  <2> QED BY <2>1, <2>3 DEF P!NoDuplicates
<1>6. P!Chronological
  <2>1. ASSUME NEW t \in P!Times, NEW j \in 1..Len(files[t]), NEW i \in 1..Len(files[t]), i < j
        PROVE  files[t][i].at <= files[t][j].at
    <3>1. /\ lo[t] + i \in 1..Len(DeviceLog) /\ files[t][i] = DeviceLog[lo[t] + i]
          /\ lo[t] + j \in 1..Len(DeviceLog) /\ files[t][j] = DeviceLog[lo[t] + j]
      BY <1>1, <1>2, StoredAt
    <3>2. lo[t] \in Nat
      OBVIOUS
    <3>3. lo[t] + i <= lo[t] + j
      BY <2>1, <3>2
    <3> QED BY <1>3, <3>1, <3>3
  <2>2. ASSUME NEW t \in P!Times, NEW u \in P!Times, t < u,
               NEW x \in P!Stored(t), NEW y \in P!Stored(u)
        PROVE  x.at <= y.at
    <3>1. PICK i \in 1..Len(files[t]) : x = files[t][i]
      BY <1>2, StoredPlace
    <3>2. PICK j \in 1..Len(files[u]) : y = files[u][j]
      BY <1>2, StoredPlace
    <3>3. /\ lo[t] + i \in 1..Len(DeviceLog) /\ files[t][i] = DeviceLog[lo[t] + i]
          /\ lo[u] + j \in 1..Len(DeviceLog) /\ files[u][j] = DeviceLog[lo[u] + j]
      BY <1>1, <1>2, StoredAt
    <3>4. lo[t] + i < lo[u] + j
      BY <1>1, <1>2, <2>2, OlderFileFirst
    <3>5. lo[t] + i <= lo[u] + j
      BY <3>3, <3>4
    <3> QED BY <1>3, <3>1, <3>2, <3>3, <3>5
  <2> QED BY <2>1, <2>2 DEF P!Chronological
<1> QED BY <1>2, <1>4, <1>5, <1>6 DEF PushedOnce

(* What a device was told is stored is stored once and in order of time,   *)
(* whatever answers are lost and wherever the process dies.                *)
THEOREM PushLogStoredOnce == MCSpec => []PushedOnce
<1>1. MCInit => PushInv
  BY InitPushInv, RequestsAssumption DEF MCInit
<1>2. PushInv /\ [MCNext]_allVars => PushInv'
  <2>1. PushInv /\ P!Next => PushInv'
    BY NextPushInv, RequestsAssumption
  <2>2. PushInv /\ UNCHANGED pVars => PushInv'
    <3> SUFFICES ASSUME PushInv, UNCHANGED pVars PROVE PushInv'
      OBVIOUS
    <3>1. names' = names /\ files' = files /\ acked' = acked /\ sent' = sent /\ faults' = faults
      BY DEF pVars
    <3>2. P!TypeOK'
      BY <3>1 DEF PushInv, P!TypeOK
    <3>3. ASSUME NEW n, NEW lo, NEW top PROVE PushHolds(n, lo, top)' <=> PushHolds(n, lo, top)
      BY <3>1, Zenon DEF PushHolds, End
    <3> QED BY <3>2, <3>3 DEF PushInv
  <2>3. MCNext => P!Next \/ UNCHANGED pVars
    BY DEF MCNext
  <2> QED BY <2>1, <2>2, <2>3 DEF allVars
<1>3. PushInv => PushedOnce
  BY PushInvOnce, RequestsAssumption
<1> QED BY <1>1, <1>2, <1>3, PTL DEF MCSpec

-----------------------------------------------------------------------------
(***************************************************************************)
(* Sanitizer.                                                              *)
(***************************************************************************)
(* No file of a directory has the name of another one of it, or a name of  *)
(* the future.                                                             *)
SizeInv ==
  /\ Z!TypeOK
  /\ \A f \in cacheFiles : f.name <= time
  /\ \A f, g \in cacheFiles : f.dir = g.dir /\ f.name = g.name => f = g

LEMMA InitSizeInv == Z!SanitizerAssumption /\ Z!Init => SizeInv
<1> SUFFICES ASSUME Z!SanitizerAssumption, Z!Init PROVE SizeInv
  OBVIOUS
<1>1. Z!TypeOK
  BY DEF Z!SanitizerAssumption, Z!Init, Z!TypeOK
<1> QED BY <1>1 DEF SizeInv, Z!Init

LEMMA SanitizeSizeStep ==
  ASSUME SizeInv, Z!SanitizeSize
  PROVE  /\ SizeInv'
         /\ \A f \in cacheFiles \ cacheFiles' :
              /\ \A g \in cacheFiles' : g.dir = f.dir => f.name < g.name
              /\ \E g \in cacheFiles : g.dir = f.dir /\ g # f
<1>1. PICK R \in SUBSET Z!Removable : Z!Oldest(R) /\ cacheFiles' = cacheFiles \ R
  BY DEF Z!SanitizeSize
<1>2. R \subseteq cacheFiles
  BY DEF Z!Removable
<1>3. UNCHANGED <<time, dirtySizes>>
  BY DEF Z!SanitizeSize
<1>4. SizeInv'
  BY <1>1, <1>3 DEF SizeInv, Z!TypeOK
<1>5. ASSUME NEW f \in R, NEW g \in cacheFiles \ R, g.dir = f.dir
      PROVE  f.name < g.name
  <2>1. g \in Z!Removable
    BY <1>2, <1>5 DEF Z!Removable
  <2>2. f.name <= g.name
    BY <1>1, <2>1 DEF Z!Oldest
  <2>3. f.name # g.name
    BY <1>2, <1>5 DEF SizeInv
  <2>4. f.name \in Int /\ g.name \in Int
    BY <1>2 DEF SizeInv, Z!TypeOK, Z!File
  <2> QED BY <2>2, <2>3, <2>4
<1>6. ASSUME NEW f \in R PROVE \E g \in cacheFiles : g.dir = f.dir /\ g # f
  BY <1>2 DEF Z!Removable
<1> QED BY <1>1, <1>2, <1>4, <1>5, <1>6

(* The other steps remove no file.                                         *)
LEMMA GrowStep ==
  ASSUME Z!SanitizerAssumption, SizeInv,
         \/ Z!Tick
         \/ \E d \in CacheDirs :
              Z!SignalLogged(d) \/ \E size \in 1..FileSize : Z!Synced(d, size)
  PROVE  SizeInv' /\ cacheFiles \subseteq cacheFiles'
<1> USE DEF Z!SanitizerAssumption
<1>1. CASE Z!Tick
  BY <1>1 DEF Z!Tick, SizeInv, Z!TypeOK, Z!File
<1>2. ASSUME NEW d \in CacheDirs, Z!SignalLogged(d)
      PROVE  SizeInv' /\ cacheFiles \subseteq cacheFiles'
  <2>1. dirtySizes' \in [CacheDirs -> 0..FileSize]
    BY <1>2 DEF Z!SignalLogged, SizeInv, Z!TypeOK
  <2> QED BY <1>2, <2>1 DEF Z!SignalLogged, SizeInv, Z!TypeOK
<1>3. ASSUME NEW d \in CacheDirs, NEW size \in 1..FileSize, Z!Synced(d, size)
      PROVE  SizeInv' /\ cacheFiles \subseteq cacheFiles'
  <2> DEFINE f == [dir |-> d, name |-> time, size |-> size]
  <2>1. /\ cacheFiles' = cacheFiles \cup {f} /\ time' = time
        /\ \A g \in cacheFiles : g.dir = d => g.name < time
    BY <1>3 DEF Z!Synced
  <2>2. f \in Z!File /\ f.dir = d /\ f.name = time
    BY DEF Z!File, SizeInv, Z!TypeOK
  <2> HIDE DEF f
  <2>3. dirtySizes' \in [CacheDirs -> 0..FileSize]
    BY <1>3 DEF Z!Synced, SizeInv, Z!TypeOK
  <2>4. \A g \in cacheFiles : g.name \in Int
    BY DEF SizeInv, Z!TypeOK, Z!File
  <2>5. \A g, h \in cacheFiles' : g.dir = h.dir /\ g.name = h.name => g = h
    BY <2>1, <2>2, <2>4 DEF SizeInv
  <2>6. \A g \in cacheFiles' : g.name <= time'
    BY <2>1, <2>2 DEF SizeInv, Z!TypeOK
  <2>7. Z!TypeOK'
    BY <2>1, <2>2, <2>3 DEF SizeInv, Z!TypeOK
  <2> QED BY <2>1, <2>5, <2>6, <2>7 DEF SizeInv
<1> QED BY <1>1, <1>2, <1>3

(* What sanitizeSize removes of a directory is older than all it leaves    *)
(* there, and it leaves a directory with one file alone.                   *)
THEOREM RemovedOldest == MCSpec => OldestRemoved
<1> DEFINE Removed ==
      \A f \in cacheFiles \ cacheFiles' :
        /\ \A g \in cacheFiles' : g.dir = f.dir => f.name < g.name
        /\ \E g \in cacheFiles : g.dir = f.dir /\ g # f
<1>1. MCInit => SizeInv
  BY InitSizeInv, RequestsAssumption DEF MCInit
<1>2. ASSUME SizeInv, [MCNext]_allVars
      PROVE  SizeInv' /\ Removed
  <2>1. CASE Z!SanitizeSize
    BY <1>2, <2>1, SanitizeSizeStep
  <2>2. CASE \/ Z!Tick
             \/ \E d \in CacheDirs :
                  Z!SignalLogged(d) \/ \E size \in 1..FileSize : Z!Synced(d, size)
    BY <1>2, <2>2, GrowStep, RequestsAssumption
  <2>3. CASE UNCHANGED zVars
    BY <1>2, <2>3 DEF SizeInv, Z!TypeOK, zVars
  <2>4. Z!Next \/ UNCHANGED zVars
    BY <1>2 DEF MCNext, allVars
  <2> QED BY <2>1, <2>2, <2>3, <2>4 DEF Z!Next
<1> HIDE DEF Removed
<1>3. SizeInv => Z!TypeOK
  BY DEF SizeInv
<1>4. SizeInv /\ [MCNext]_allVars => [Removed]_(Z!vars)
  BY <1>2
<1>5. MCSpec => [][Removed]_(Z!vars)
  BY <1>1, <1>2, <1>4, PTL DEF MCSpec
<1>6. MCSpec => []Z!TypeOK
  BY <1>1, <1>2, <1>3, PTL DEF MCSpec
<1> QED BY <1>5, <1>6 DEF OldestRemoved, Z!OldestRemoved, Removed

-----------------------------------------------------------------------------
(***************************************************************************)
(* SiteAlarms.  What the operators on lists of alarms do to the names in   *)
(* the list, to those of stale alarms, and to there being no name twice.   *)
(***************************************************************************)
AlarmLists == Seq(A!Alarm)
Distinct(as) == \A i, j \in 1 .. Len(as) : as[i].alarm = as[j].alarm => i = j

(* The elements of q at some positions, each once.                         *)
PicksAt(pos, r, q, I) ==
  /\ pos \in [1 .. Len(r) -> I]
  /\ \A k \in 1 .. Len(r) : r[k] = q[pos[k]]
  /\ \A i \in I : \E k \in 1 .. Len(r) : pos[k] = i
  /\ \A k, l \in 1 .. Len(r) : pos[k] = pos[l] => k = l

Picks(r, q, I) == \E pos : PicksAt(pos, r, q, I)

LEMMA PickedFacts ==
  ASSUME NEW S, NEW q \in Seq(S), NEW I \in SUBSET (1 .. Len(q))
  PROVE  A!Picked(q, I) \in Seq(S) /\ Picks(A!Picked(q, I), q, I)
<1>1. PICK n \in Nat : n = Len(q)
  OBVIOUS
<1>2. I \in SUBSET (1 .. n)
  BY <1>1
<1>3. Cardinality(I) \in Nat /\ \E pos : InOrderAt(pos, I)
  BY <1>2, NumbersArranged, Zenon
<1>4. PICK m \in Nat : m = Cardinality(I)
  BY <1>3
<1>5. PICK pos \in [1 .. m -> I] :
           /\ \A i \in I : \E k \in 1 .. m : pos[k] = i
           /\ \A k, l \in 1 .. m : k <= l <=> pos[k] <= pos[l]
           /\ \A k \in 1 .. m, i \in I : Cardinality({j \in I : j <= i}) = k <=> i = pos[k]
  BY <1>3, <1>4, Zenon DEF InOrderAt
<1>6. PICK r : r = A!Picked(q, I)
  OBVIOUS
<1>7. r = [k \in 1 .. m |-> q[CHOOSE i \in I : Cardinality({j \in I : j <= i}) = k]]
  <2>1. r = [k \in 1 .. A!Cardinality(I) |-> q[CHOOSE i \in I : A!Cardinality({j \in I : j <= i}) = k]]
    BY <1>6, Zenon DEF A!Picked
  <2> QED BY <1>4, <2>1 DEF A!Cardinality, Cardinality
<1>8. ASSUME NEW k \in 1 .. m PROVE r[k] = q[pos[k]]
  <2>1. pos[k] \in I /\ \A i \in I : Cardinality({j \in I : j <= i}) = k <=> i = pos[k]
    BY <1>5
  <2>2. (CHOOSE i \in I : Cardinality({j \in I : j <= i}) = k) = pos[k]
    BY <2>1, Zenon
  <2>3. r[k] = q[CHOOSE i \in I : Cardinality({j \in I : j <= i}) = k]
    BY <1>7
  <2> QED BY <2>2, <2>3
<1>9. \A k \in 1 .. m : r[k] \in S
  <2> SUFFICES ASSUME NEW k \in 1 .. m PROVE r[k] \in S
    OBVIOUS
  <2>1. pos[k] \in 1 .. Len(q)
    BY <1>5
  <2> QED BY <1>8, <2>1
<1>10. DOMAIN r = 1 .. m /\ r = [k \in 1 .. m |-> r[k]]
  BY <1>7
<1>11. r \in [1 .. m -> S]
  BY <1>9, <1>10
<1>12. r \in Seq(S) /\ Len(r) = m
  BY <1>11, SeqDef
<1>13. \A k, l \in 1 .. m : pos[k] = pos[l] => k = l
  <2> SUFFICES ASSUME NEW k \in 1 .. m, NEW l \in 1 .. m, pos[k] = pos[l] PROVE k = l
    OBVIOUS
  <2>1. pos[k] \in 1 .. n /\ pos[l] \in 1 .. n
    BY <1>2, <1>5
  <2>2. k <= l /\ l <= k
    BY <1>5, <2>1
  <2> QED BY <2>2
<1>14. PicksAt(pos, r, q, I)
  BY <1>5, <1>8, <1>12, <1>13 DEF PicksAt
<1> QED BY <1>6, <1>12, <1>14 DEF Picks

(* A name is in the list, or that of a stale alarm, at a position of I.    *)
NamedIn(as, I, a) == \E i \in I : as[i].alarm = a
StaleIn(as, I, a) == \E i \in I : as[i].stale /\ as[i].alarm = a

LEMMA ListedAt ==
  ASSUME NEW as, NEW a
  PROVE  a \in A!Listed(as) <=> NamedIn(as, 1 .. Len(as), a)
BY Zenon DEF A!Listed, NamedIn

LEMMA StaleAt ==
  ASSUME NEW as, NEW a
  PROVE  a \in A!Stale(as) <=> StaleIn(as, 1 .. Len(as), a)
BY Zenon DEF A!Stale, StaleIn

(* A list of what some positions of another hold, each once, but for        *)
(* staleness that may have gone.                                           *)
DrawnAt(pos, r, as, I) ==
  /\ pos \in [1 .. Len(r) -> I]
  /\ \A k \in 1 .. Len(r) : r[k].alarm = as[pos[k]].alarm /\ (r[k].stale => as[pos[k]].stale)
  /\ \A i \in I : \E k \in 1 .. Len(r) : pos[k] = i
  /\ \A k, l \in 1 .. Len(r) : pos[k] = pos[l] => k = l

Drawn(r, as, I) == I \in SUBSET (1 .. Len(as)) /\ \E pos : DrawnAt(pos, r, as, I)

SaysDrawn(r, as, I) ==
  /\ \A a : a \in A!Listed(r) <=> NamedIn(as, I, a)
  /\ \A a : a \in A!Stale(r) => StaleIn(as, I, a)
  /\ Distinct(as) => Distinct(r)

LEMMA DrawnFacts ==
  ASSUME NEW as, NEW r, NEW I, Drawn(r, as, I)
  PROVE  SaysDrawn(r, as, I)
<1>1. PICK pos : DrawnAt(pos, r, as, I)
  BY Zenon DEF Drawn
<1>2. ASSUME NEW k \in 1 .. Len(r)
      PROVE  /\ pos[k] \in I /\ pos[k] \in 1 .. Len(as)
             /\ r[k].alarm = as[pos[k]].alarm /\ (r[k].stale => as[pos[k]].stale)
  BY <1>1 DEF DrawnAt, Drawn
<1>3. ASSUME NEW a, NamedIn(r, 1 .. Len(r), a) PROVE NamedIn(as, I, a)
  BY <1>2, <1>3 DEF NamedIn
<1>4. ASSUME NEW a, NamedIn(as, I, a) PROVE NamedIn(r, 1 .. Len(r), a)
  <2>1. PICK i \in I : as[i].alarm = a
    BY <1>4, Zenon DEF NamedIn
  <2>2. PICK k \in 1 .. Len(r) : pos[k] = i
    BY <1>1, Zenon DEF DrawnAt
  <2>3. r[k].alarm = a
    BY <1>2, <2>1, <2>2
  <2> QED BY <2>3, Zenon DEF NamedIn
<1>5. ASSUME NEW a, StaleIn(r, 1 .. Len(r), a) PROVE StaleIn(as, I, a)
  <2>1. PICK k \in 1 .. Len(r) : r[k].stale /\ r[k].alarm = a
    BY <1>5, Zenon DEF StaleIn
  <2>2. pos[k] \in I /\ as[pos[k]].stale /\ as[pos[k]].alarm = a
    BY <1>2, <2>1, Zenon
  <2> QED BY <2>2, Zenon DEF StaleIn
<1>6. ASSUME Distinct(as) PROVE Distinct(r)
  <2>1. ASSUME NEW k \in 1 .. Len(r), NEW l \in 1 .. Len(r), r[k].alarm = r[l].alarm
        PROVE  k = l
    <3>1. pos[k] \in 1 .. Len(as) /\ pos[l] \in 1 .. Len(as) /\ as[pos[k]].alarm = as[pos[l]].alarm
      BY <1>2, <2>1, Zenon
    <3>2. pos[k] = pos[l]
      BY <1>6, <3>1, Zenon DEF Distinct
    <3> QED BY <1>1, <3>2, Zenon DEF DrawnAt
  <2> QED BY <2>1, Zenon DEF Distinct
<1>7. ASSUME NEW a PROVE a \in A!Listed(r) <=> NamedIn(as, I, a)
  <2>1. a \in A!Listed(r) <=> NamedIn(r, 1 .. Len(r), a)
    BY ListedAt, Zenon
  <2> QED BY <1>3, <1>4, <2>1, Zenon
<1>8. ASSUME NEW a, a \in A!Stale(r) PROVE StaleIn(as, I, a)
  <2>1. StaleIn(r, 1 .. Len(r), a)
    BY <1>8, StaleAt, Zenon
  <2> QED BY <1>5, <2>1, Zenon
<1> QED BY <1>6, <1>7, <1>8, Zenon DEF SaysDrawn

LEMMA WithoutFacts ==
  ASSUME NEW as \in AlarmLists, NEW off
  PROVE  /\ A!Without(as, off) \in AlarmLists
         /\ A!Listed(A!Without(as, off)) = A!Listed(as) \ off
         /\ A!Stale(A!Without(as, off)) \subseteq A!Stale(as) \ off
         /\ Distinct(as) => Distinct(A!Without(as, off))
<1>1. PICK I : I = {i \in 1 .. Len(as) : as[i].alarm \notin off}
  OBVIOUS
<1>2. PICK r : r = A!Without(as, off)
  OBVIOUS
<1>3. r = A!Picked(as, I)
  BY <1>1, <1>2 DEF A!Without
<1>4. as \in Seq(A!Alarm) /\ I \in SUBSET (1 .. Len(as))
  BY <1>1 DEF AlarmLists
<1>5. r \in Seq(A!Alarm) /\ Picks(r, as, I)
  BY <1>3, <1>4, PickedFacts
<1>6. PICK pos : PicksAt(pos, r, as, I)
  BY <1>5, Zenon DEF Picks
<1>7. DrawnAt(pos, r, as, I)
  BY <1>6, Zenon DEF PicksAt, DrawnAt
<1>8. r \in AlarmLists /\ Drawn(r, as, I)
  BY <1>4, <1>5, <1>7, Zenon DEF AlarmLists, Drawn
<1>9. SaysDrawn(r, as, I)
  BY <1>8, DrawnFacts, Zenon
<1>10. ASSUME NEW i PROVE i \in I <=> i \in 1 .. Len(as) /\ as[i].alarm \notin off
  BY <1>1
<1>11. ASSUME NEW a PROVE a \in A!Listed(r) <=> a \in A!Listed(as) /\ a \notin off
  <2>1. a \in A!Listed(r) <=> NamedIn(as, I, a)
    BY <1>9, Zenon DEF SaysDrawn
  <2>2. a \in A!Listed(as) <=> NamedIn(as, 1 .. Len(as), a)
    BY ListedAt, Zenon
  <2> QED BY <1>10, <2>1, <2>2, Zenon DEF NamedIn
<1>12. ASSUME NEW a, a \in A!Stale(r) PROVE a \in A!Stale(as) /\ a \notin off
  <2>1. PICK i \in I : as[i].stale /\ as[i].alarm = a
    BY <1>9, <1>12, Zenon DEF SaysDrawn, StaleIn
  <2>2. i \in 1 .. Len(as) /\ a \notin off
    BY <1>10, <2>1, Zenon
  <2>3. StaleIn(as, 1 .. Len(as), a)
    BY <2>1, <2>2, Zenon DEF StaleIn
  <2> QED BY <2>2, <2>3, StaleAt, Zenon
<1>13. A!Listed(r) = A!Listed(as) \ off /\ A!Stale(r) \subseteq A!Stale(as) \ off
  BY <1>11, <1>12
<1>14. Distinct(as) => Distinct(r)
  BY <1>9, Zenon DEF SaysDrawn
<1> QED BY <1>2, <1>8, <1>13, <1>14

LEMMA RefreshedFacts ==
  ASSUME NEW as \in AlarmLists, NEW active
  PROVE  /\ A!Refreshed(as, active) \in AlarmLists
         /\ A!Listed(A!Refreshed(as, active)) = A!Listed(as)
         /\ A!Stale(A!Refreshed(as, active)) \subseteq A!Stale(as) \ active
         /\ Distinct(as) => Distinct(A!Refreshed(as, active))
<1>1. PICK r : r = A!Refreshed(as, active)
  OBVIOUS
<1>2. PICK n \in Nat : n = Len(as)
  <2>1. as \in Seq(A!Alarm)
    BY DEF AlarmLists
  <2> QED BY <2>1, LenProperties
<1>3. ASSUME NEW i \in 1 .. n PROVE as[i] \in [alarm : A!Names \cup {OfflineKey}, stale : BOOLEAN]
  <2>1. as \in Seq(A!Alarm) /\ i \in 1 .. Len(as)
    BY <1>2 DEF AlarmLists
  <2>2. as[i] \in A!Alarm
    BY <2>1, ElementOfSeq
  <2> QED BY <2>2 DEF A!Alarm
<1>4. r = [i \in 1 .. n |-> [as[i] EXCEPT !.stale = as[i].stale /\ as[i].alarm \notin active]]
  BY <1>1, <1>2, Zenon DEF A!Refreshed
<1>5. ASSUME NEW i \in 1 .. n
      PROVE  /\ r[i] \in A!Alarm /\ r[i].alarm = as[i].alarm
             /\ r[i].stale => as[i].stale /\ as[i].alarm \notin active
  <2>1. PICK b : b = (as[i].stale /\ as[i].alarm \notin active)
    OBVIOUS
  <2>2. b \in BOOLEAN
    BY <2>1
  <2>3. r[i] = [as[i] EXCEPT !.stale = b]
    BY <1>4, <2>1, Zenon
  <2>4. r[i] \in [alarm : A!Names \cup {OfflineKey}, stale : BOOLEAN] /\ r[i].alarm = as[i].alarm /\ r[i].stale = b
    BY <1>3, <2>2, <2>3
  <2>5. r[i].stale => as[i].stale /\ as[i].alarm \notin active
    BY <2>1, <2>4, Zenon
  <2> QED BY <2>4, <2>5 DEF A!Alarm
<1>6. DOMAIN r = 1 .. n /\ r = [i \in 1 .. n |-> r[i]]
  BY <1>4
<1>7. r \in [1 .. n -> A!Alarm]
  BY <1>5, <1>6
<1>8. r \in AlarmLists /\ Len(r) = n
  BY <1>7, SeqDef DEF AlarmLists
<1>9. DrawnAt([i \in 1 .. n |-> i], r, as, 1 .. n)
  <2>1. PICK pos : pos = [i \in 1 .. n |-> i]
    OBVIOUS
  <2>2. ASSUME NEW k \in 1 .. n
        PROVE  pos[k] = k /\ r[k].alarm = as[k].alarm /\ (r[k].stale => as[k].stale)
    BY <1>5, <2>1
  <2>3. pos \in [1 .. n -> 1 .. n]
    BY <2>1
  <2> HIDE <2>1
  <2>4. DrawnAt(pos, r, as, 1 .. n)
    BY <1>8, <2>2, <2>3, Zenon DEF DrawnAt
  <2> QED BY <2>1, <2>4
<1>10. Drawn(r, as, 1 .. n)
  BY <1>2, <1>9, Zenon DEF Drawn
<1>11. SaysDrawn(r, as, 1 .. n)
  BY <1>10, DrawnFacts, Zenon
<1>12. ASSUME NEW a PROVE a \in A!Listed(r) <=> a \in A!Listed(as)
  <2>1. a \in A!Listed(as) <=> NamedIn(as, 1 .. n, a)
    BY <1>2, ListedAt, Zenon
  <2> QED BY <1>11, <2>1, Zenon DEF SaysDrawn
<1>13. ASSUME NEW a, a \in A!Stale(r) PROVE a \in A!Stale(as) /\ a \notin active
  <2>1. StaleIn(r, 1 .. n, a)
    BY <1>8, <1>13, StaleAt, Zenon
  <2>2. PICK i \in 1 .. n : r[i].stale /\ r[i].alarm = a
    BY <2>1, Zenon DEF StaleIn
  <2>3. as[i].stale /\ as[i].alarm = a /\ a \notin active
    BY <1>5, <2>2, Zenon
  <2>4. StaleIn(as, 1 .. Len(as), a)
    BY <1>2, <2>3, Zenon DEF StaleIn
  <2> QED BY <2>3, <2>4, StaleAt, Zenon
<1>14. A!Listed(r) = A!Listed(as) /\ A!Stale(r) \subseteq A!Stale(as) \ active
  BY <1>12, <1>13
<1>15. Distinct(as) => Distinct(r)
  BY <1>11, Zenon DEF SaysDrawn
<1> QED BY <1>1, <1>8, <1>14, <1>15

LEMMA SortedFacts ==
  ASSUME NEW as \in AlarmLists
  PROVE  /\ A!Sorted[as] \in AlarmLists
         /\ A!Listed(A!Sorted[as]) = A!Listed(as)
         /\ A!Stale(A!Sorted[as]) \subseteq A!Stale(as)
         /\ Distinct(as) => Distinct(A!Sorted[as])
<1>1. PICK n \in Nat : n = Len(as)
  <2>1. as \in Seq(A!Alarm)
    BY DEF AlarmLists
  <2> QED BY <2>1, LenProperties
<1>2. ASSUME NEW i \in 1 .. n PROVE as[i] \in A!Alarm /\ SeverityOf[as[i].alarm] \in Nat
  <2>1. as \in Seq(A!Alarm) /\ i \in 1 .. Len(as)
    BY <1>1 DEF AlarmLists
  <2>2. as[i] \in A!Alarm
    BY <2>1, ElementOfSeq
  <2>3. as[i].alarm \in A!Names \cup {OfflineKey}
    BY <2>2 DEF A!Alarm
  <2> QED BY <2>2, <2>3, AlarmsAssumption DEF A!SiteAlarmsAssumption
<1>3. PICK I : I = 1 .. n
  OBVIOUS
<1>4. IsFiniteSet(I) /\ Cardinality(I) = n
  <2>1. n \in Int /\ 1 \in Int
    OBVIOUS
  <2>2. IsFiniteSet(1 .. n) /\ Cardinality(1 .. n) = IF 1 > n THEN 0 ELSE n - 1 + 1
    BY <2>1, FS_Interval
  <2> QED BY <1>3, <2>2
<1>5. PICK leq : leq = {x \in I \X I : A!NotAfter(as, x[1], x[2])}
  OBVIOUS
<1>6. \A i, j \in I : <<i, j>> \in leq <=> A!NotAfter(as, i, j)
  BY <1>5
<1>7. IsLinear(I, leq)
  <2>1. PICK sev : sev = [i \in 1 .. n |-> SeverityOf[as[i].alarm]]
    OBVIOUS
  <2>2. ASSUME NEW i \in 1 .. n PROVE SeverityOf[as[i].alarm] \in Nat
    BY <1>2, Zenon
  <2>3. sev \in [1 .. n -> Nat]
    BY <2>1, <2>2, Zenon
  <2>4. ASSUME NEW i \in 1 .. n PROVE sev[i] = SeverityOf[as[i].alarm]
    BY <2>1, Zenon
  <2>5. ASSUME NEW i \in 1 .. n, NEW j \in 1 .. n
        PROVE  <<i, j>> \in leq <=> sev[i] < sev[j] \/ (sev[i] = sev[j] /\ i <= j)
    <3>1. <<i, j>> \in leq <=> A!NotAfter(as, i, j)
      BY <1>3, <1>6, Zenon
    <3> QED BY <2>4, <3>1, Zenon DEF A!NotAfter
  <2>6. \A i, j \in 1 .. n : <<i, j>> \in leq <=> sev[i] < sev[j] \/ (sev[i] = sev[j] /\ i <= j)
    BY <2>5, Zenon
  <2>7. IsLinear(1 .. n, leq)
    BY <2>3, <2>6, WeighedLinear, Zenon
  <2> QED BY <1>3, <2>7, Zenon
<1>8. PICK pos : Arranges(pos, I, leq)
  BY <1>4, <1>7, Ranking, Zenon
<1>9. /\ pos \in [1 .. n -> I]
      /\ \A i \in I : \E k \in 1 .. n : pos[k] = i
      /\ \A k, l \in 1 .. n : k <= l <=> <<pos[k], pos[l]>> \in leq
      /\ \A k \in 1 .. n, i \in I : Cardinality(UpTo(I, leq, i)) = k <=> i = pos[k]
  BY <1>4, <1>8 DEF Arranges
<1>10. ASSUME NEW i \in I PROVE UpTo(I, leq, i) = {j \in I : A!NotAfter(as, j, i)}
  BY <1>6 DEF UpTo
<1>11. PICK r : r = A!Sorted[as]
  OBVIOUS
<1>12. r = [k \in 1 .. Len(as) |->
              as[CHOOSE i \in 1 .. Len(as) :
                   A!Cardinality({j \in 1 .. Len(as) : A!NotAfter(as, j, i)}) = k]]
  <2>1. as \in Seq(A!Alarm)
    BY DEF AlarmLists
  <2> QED BY <1>11, <2>1, Zenon DEF A!Sorted
<1>13. ASSUME NEW k \in 1 .. n PROVE r[k] = as[pos[k]] /\ pos[k] \in 1 .. n
  <2>1. pos[k] \in 1 .. Len(as)
    BY <1>1, <1>3, <1>9
  <2>2. \A i \in I : Cardinality(UpTo(I, leq, i)) = k <=> i = pos[k]
    BY <1>9
  <2>3. ASSUME NEW i \in 1 .. Len(as)
        PROVE  A!Cardinality({j \in 1 .. Len(as) : A!NotAfter(as, j, i)}) = k <=> i = pos[k]
    <3>1. A!Cardinality({j \in 1 .. Len(as) : A!NotAfter(as, j, i)})
            = Cardinality({j \in 1 .. Len(as) : A!NotAfter(as, j, i)})
      BY Zenon DEF A!Cardinality, Cardinality
    <3>2. i \in I /\ {j \in 1 .. Len(as) : A!NotAfter(as, j, i)} = UpTo(I, leq, i)
      BY <1>1, <1>3, <1>10
    <3> QED BY <2>2, <3>1, <3>2, Zenon
  <2>4. (CHOOSE i \in 1 .. Len(as) :
           A!Cardinality({j \in 1 .. Len(as) : A!NotAfter(as, j, i)}) = k) = pos[k]
    BY <2>1, <2>3, Zenon
  <2>5. k \in 1 .. Len(as)
    BY <1>1
  <2>6. r[k] = as[CHOOSE i \in 1 .. Len(as) :
                    A!Cardinality({j \in 1 .. Len(as) : A!NotAfter(as, j, i)}) = k]
    BY <1>12, <2>5, Zenon
  <2> QED BY <1>1, <2>1, <2>4, <2>6, Zenon
<1>14. DOMAIN r = 1 .. n /\ r = [k \in 1 .. n |-> r[k]]
  BY <1>1, <1>12
<1>15. \A k \in 1 .. n : r[k] \in A!Alarm
  BY <1>2, <1>13
<1>16. r \in [1 .. n -> A!Alarm]
  BY <1>14, <1>15
<1>17. r \in AlarmLists /\ Len(r) = n
  BY <1>16, SeqDef DEF AlarmLists
<1>18. \A k, l \in 1 .. n : pos[k] = pos[l] => k = l
  <2> SUFFICES ASSUME NEW k \in 1 .. n, NEW l \in 1 .. n, pos[k] = pos[l] PROVE k = l
    OBVIOUS
  <2>1. <<pos[k], pos[l]>> \in leq <=> <<pos[l], pos[k]>> \in leq
    OBVIOUS
  <2>2. pos[k] \in I /\ pos[l] \in I
    BY <1>9
  <2>3. <<pos[k], pos[l]>> \in leq \/ <<pos[l], pos[k]>> \in leq
    BY <1>7, <2>2 DEF IsLinear
  <2>4. k <= l /\ l <= k
    BY <1>9, <2>1, <2>3
  <2> QED BY <2>4
<1>19. DrawnAt(pos, r, as, 1 .. n)
  <2>1. \A k \in 1 .. n : r[k].alarm = as[pos[k]].alarm /\ (r[k].stale => as[pos[k]].stale)
    BY <1>13
  <2>2. \A i \in 1 .. n : \E k \in 1 .. n : pos[k] = i
    BY <1>3, <1>9
  <2>3. pos \in [1 .. n -> 1 .. n]
    BY <1>3, <1>9
  <2> QED BY <1>17, <1>18, <2>1, <2>2, <2>3, Zenon DEF DrawnAt
<1>20. SaysDrawn(r, as, 1 .. n)
  <2>1. Drawn(r, as, 1 .. n)
    BY <1>1, <1>19, Zenon DEF Drawn
  <2> QED BY <2>1, DrawnFacts, Zenon
<1>21. ASSUME NEW a PROVE a \in A!Listed(r) <=> a \in A!Listed(as)
  <2>1. a \in A!Listed(as) <=> NamedIn(as, 1 .. n, a)
    BY <1>1, ListedAt, Zenon
  <2> QED BY <1>20, <2>1, Zenon DEF SaysDrawn
<1>22. ASSUME NEW a, a \in A!Stale(r) PROVE a \in A!Stale(as)
  <2>1. StaleIn(as, 1 .. n, a)
    BY <1>20, <1>22, Zenon DEF SaysDrawn
  <2> QED BY <1>1, <2>1, StaleAt, Zenon
<1>23. A!Listed(r) = A!Listed(as) /\ A!Stale(r) \subseteq A!Stale(as)
  BY <1>21, <1>22
<1>24. Distinct(as) => Distinct(r)
  BY <1>20, Zenon DEF SaysDrawn
<1> QED BY <1>11, <1>17, <1>23, <1>24, Zenon

(* One list after another.                                                 *)
LEMMA JoinedFacts ==
  ASSUME NEW as \in AlarmLists, NEW bs \in AlarmLists
  PROVE  /\ as \o bs \in AlarmLists
         /\ A!Listed(as \o bs) = A!Listed(as) \cup A!Listed(bs)
         /\ A!Stale(as \o bs) = A!Stale(as) \cup A!Stale(bs)
         /\ Distinct(as) /\ Distinct(bs) /\ A!Listed(as) \cap A!Listed(bs) = {}
              => Distinct(as \o bs)
<1>1. as \in Seq(A!Alarm) /\ bs \in Seq(A!Alarm)
  BY DEF AlarmLists
<1>2. PICK m \in Nat, n \in Nat : m = Len(as) /\ n = Len(bs)
  BY <1>1, LenProperties
<1>3. PICK r : r = as \o bs
  OBVIOUS
<1>4. /\ r \in Seq(A!Alarm) /\ Len(r) = m + n
      /\ \A i \in 1 .. m + n : r[i] = IF i <= m THEN as[i] ELSE bs[i - m]
  BY <1>1, <1>2, <1>3, ConcatProperties
<1>5. ASSUME NEW i \in 1 .. m PROVE i \in 1 .. Len(r) /\ r[i] = as[i]
  <2>1. i \in 1 .. m + n /\ i <= m
    OBVIOUS
  <2> QED BY <1>4, <2>1, Zenon
<1>6. ASSUME NEW i \in 1 .. n PROVE m + i \in 1 .. Len(r) /\ r[m + i] = bs[i]
  <2>1. m + i \in 1 .. m + n /\ ~(m + i <= m) /\ (m + i) - m = i
    OBVIOUS
  <2>2. r[m + i] = bs[(m + i) - m]
    BY <1>4, <2>1, Zenon
  <2> QED BY <1>4, <2>1, <2>2, Zenon
<1>7. ASSUME NEW k \in 1 .. Len(r)
      PROVE  /\ (k \in 1 .. m /\ r[k] = as[k]) \/ (k - m \in 1 .. n /\ r[k] = bs[k - m])
             /\ k \in Int
  <2>1. k \in 1 .. m + n
    BY <1>4, Zenon
  <2>2. k \in Int /\ (k <= m => k \in 1 .. m) /\ (~(k <= m) => k - m \in 1 .. n)
    BY <2>1
  <2>3. r[k] = IF k <= m THEN as[k] ELSE bs[k - m]
    BY <1>4, <2>1, Zenon
  <2> QED BY <2>2, <2>3, Zenon
<1>8. ASSUME NEW a
      PROVE  /\ NamedIn(r, 1 .. Len(r), a) <=> NamedIn(as, 1 .. m, a) \/ NamedIn(bs, 1 .. n, a)
             /\ StaleIn(r, 1 .. Len(r), a) <=> StaleIn(as, 1 .. m, a) \/ StaleIn(bs, 1 .. n, a)
  <2>1. ASSUME NamedIn(r, 1 .. Len(r), a) PROVE NamedIn(as, 1 .. m, a) \/ NamedIn(bs, 1 .. n, a)
    BY <1>7, <2>1, Zenon DEF NamedIn
  <2>2. ASSUME NamedIn(as, 1 .. m, a) PROVE NamedIn(r, 1 .. Len(r), a)
    BY <1>5, <2>2, Zenon DEF NamedIn
  <2>3. ASSUME NamedIn(bs, 1 .. n, a) PROVE NamedIn(r, 1 .. Len(r), a)
    BY <1>6, <2>3, Zenon DEF NamedIn
  <2>4. ASSUME StaleIn(r, 1 .. Len(r), a) PROVE StaleIn(as, 1 .. m, a) \/ StaleIn(bs, 1 .. n, a)
    BY <1>7, <2>4, Zenon DEF StaleIn
  <2>5. ASSUME StaleIn(as, 1 .. m, a) PROVE StaleIn(r, 1 .. Len(r), a)
    BY <1>5, <2>5, Zenon DEF StaleIn
  <2>6. ASSUME StaleIn(bs, 1 .. n, a) PROVE StaleIn(r, 1 .. Len(r), a)
    BY <1>6, <2>6, Zenon DEF StaleIn
  <2> QED BY <2>1, <2>2, <2>3, <2>4, <2>5, <2>6, Zenon
<1>9. ASSUME NEW a
      PROVE  /\ a \in A!Listed(r) <=> a \in A!Listed(as) \/ a \in A!Listed(bs)
             /\ a \in A!Stale(r) <=> a \in A!Stale(as) \/ a \in A!Stale(bs)
  <2>1. /\ a \in A!Listed(r) <=> NamedIn(r, 1 .. Len(r), a)
        /\ a \in A!Listed(as) <=> NamedIn(as, 1 .. m, a)
        /\ a \in A!Listed(bs) <=> NamedIn(bs, 1 .. n, a)
    BY <1>2, ListedAt, Zenon
  <2>2. /\ a \in A!Stale(r) <=> StaleIn(r, 1 .. Len(r), a)
        /\ a \in A!Stale(as) <=> StaleIn(as, 1 .. m, a)
        /\ a \in A!Stale(bs) <=> StaleIn(bs, 1 .. n, a)
    BY <1>2, StaleAt, Zenon
  <2> QED BY <1>8, <2>1, <2>2, Zenon
<1>10. A!Listed(r) = A!Listed(as) \cup A!Listed(bs) /\ A!Stale(r) = A!Stale(as) \cup A!Stale(bs)
  BY <1>9
<1>11. ASSUME Distinct(as), Distinct(bs), A!Listed(as) \cap A!Listed(bs) = {} PROVE Distinct(r)
  <2>1. ASSUME NEW i \in 1 .. m, NEW j \in 1 .. n PROVE as[i].alarm # bs[j].alarm
    <3>1. NamedIn(as, 1 .. Len(as), as[i].alarm) /\ NamedIn(bs, 1 .. Len(bs), bs[j].alarm)
      BY <1>2, Zenon DEF NamedIn
    <3>2. as[i].alarm \in A!Listed(as) /\ bs[j].alarm \in A!Listed(bs)
      BY <3>1, ListedAt, Zenon
    <3> QED BY <1>11, <3>2
  <2>2. ASSUME NEW k \in 1 .. Len(r), NEW l \in 1 .. Len(r), r[k].alarm = r[l].alarm
        PROVE  k = l
    <3>1. CASE k \in 1 .. m /\ r[k] = as[k] /\ l \in 1 .. m /\ r[l] = as[l]
      BY <1>2, <1>11, <2>2, <3>1, Zenon DEF Distinct
    <3>2. CASE k - m \in 1 .. n /\ r[k] = bs[k - m] /\ l - m \in 1 .. n /\ r[l] = bs[l - m]
      <4>1. k - m = l - m
        BY <1>2, <1>11, <2>2, <3>2, Zenon DEF Distinct
      <4>2. k \in Int /\ l \in Int
        BY <1>7, Zenon
      <4> QED BY <4>1, <4>2
    <3>3. CASE k \in 1 .. m /\ r[k] = as[k] /\ l - m \in 1 .. n /\ r[l] = bs[l - m]
      BY <2>1, <2>2, <3>3, Zenon
    <3>4. CASE k - m \in 1 .. n /\ r[k] = bs[k - m] /\ l \in 1 .. m /\ r[l] = as[l]
      BY <2>1, <2>2, <3>4, Zenon
    <3> QED BY <1>7, <3>1, <3>2, <3>3, <3>4, Zenon
  <2> QED BY <2>2, Zenon DEF Distinct
<1> QED BY <1>3, <1>4, <1>10, <1>11, Zenon DEF AlarmLists

(* Alarms that have just come.                                             *)
NewAlarms(on) == [i \in 1 .. Len(on) |-> [alarm |-> on[i], stale |-> FALSE]]

LEMMA NewFacts ==
  ASSUME NEW on \in Seq(A!Names \cup {OfflineKey})
  PROVE  /\ NewAlarms(on) \in AlarmLists
         /\ \A a : a \in A!Listed(NewAlarms(on)) <=> \E i \in 1 .. Len(on) : on[i] = a
         /\ A!Stale(NewAlarms(on)) = {}
         /\ (\A i, j \in 1 .. Len(on) : on[i] = on[j] => i = j) => Distinct(NewAlarms(on))
<1>1. PICK n \in Nat : n = Len(on)
  BY LenProperties
<1>2. PICK bs : bs = NewAlarms(on)
  OBVIOUS
<1>3. ASSUME NEW i \in 1 .. n
      PROVE  bs[i] \in A!Alarm /\ bs[i].alarm = on[i] /\ ~bs[i].stale
  <2>1. PICK a \in A!Names \cup {OfflineKey} : a = on[i]
    BY <1>1, ElementOfSeq
  <2>2. bs[i] = [alarm |-> a, stale |-> FALSE]
    BY <1>1, <1>2, <2>1 DEF NewAlarms
  <2>3. bs[i].alarm = a /\ ~bs[i].stale
    <3>1. bs[i].alarm = a
      BY <2>2
    <3>2. bs[i].stale = FALSE
      BY <2>2
    <3> QED BY <3>1, <3>2, Zenon
  <2>4. bs[i] \in A!Alarm
    BY <2>2 DEF A!Alarm
  <2> QED BY <2>1, <2>3, <2>4
<1>4. DOMAIN bs = 1 .. n /\ bs = [i \in 1 .. n |-> bs[i]]
  BY <1>1, <1>2 DEF NewAlarms
<1>5. bs \in [1 .. n -> A!Alarm]
  BY <1>3, <1>4
<1>6. bs \in AlarmLists /\ Len(bs) = n
  BY <1>5, SeqDef DEF AlarmLists
<1>7. ASSUME NEW a PROVE a \in A!Listed(bs) <=> \E i \in 1 .. Len(on) : on[i] = a
  <2>1. a \in A!Listed(bs) <=> NamedIn(bs, 1 .. n, a)
    BY <1>6, ListedAt, Zenon
  <2> QED BY <1>1, <1>3, <2>1, Zenon DEF NamedIn
<1>8. ASSUME NEW a PROVE a \notin A!Stale(bs)
  <2>1. a \in A!Stale(bs) <=> StaleIn(bs, 1 .. n, a)
    BY <1>6, StaleAt, Zenon
  <2> QED BY <1>3, <2>1, Zenon DEF StaleIn
<1>9. ASSUME \A i, j \in 1 .. Len(on) : on[i] = on[j] => i = j PROVE Distinct(bs)
  <2>1. ASSUME NEW i \in 1 .. Len(bs), NEW j \in 1 .. Len(bs), bs[i].alarm = bs[j].alarm
        PROVE  i = j
    <3>1. i \in 1 .. n /\ j \in 1 .. n
      BY <1>6
    <3>2. on[i] = on[j]
      BY <1>3, <2>1, <3>1
    <3> QED BY <1>1, <1>9, <3>1, <3>2
  <2> QED BY <2>1, Zenon DEF Distinct
<1> QED BY <1>2, <1>6, <1>7, <1>8, <1>9

(* Every alarm goes stale.                                                 *)
Staled(as) == [i \in 1 .. Len(as) |-> [as[i] EXCEPT !.stale = TRUE]]

LEMMA StaledFacts ==
  ASSUME NEW as \in AlarmLists
  PROVE  /\ Staled(as) \in AlarmLists /\ A!Listed(Staled(as)) = A!Listed(as)
         /\ Distinct(as) => Distinct(Staled(as))
<1>0. PICK r : r = Staled(as)
  OBVIOUS
<1>1. PICK n \in Nat : n = Len(as)
  <2>1. as \in Seq(A!Alarm)
    BY DEF AlarmLists
  <2> QED BY <2>1, LenProperties
<1>2. ASSUME NEW i \in 1 .. n PROVE r[i] \in A!Alarm /\ r[i].alarm = as[i].alarm
  <2>1. as \in Seq(A!Alarm) /\ i \in 1 .. Len(as)
    BY <1>1 DEF AlarmLists
  <2>2. as[i] \in A!Alarm
    BY <2>1, ElementOfSeq
  <2>3. r[i] = [as[i] EXCEPT !.stale = TRUE]
    BY <1>0, <1>1 DEF Staled
  <2> QED BY <2>2, <2>3 DEF A!Alarm
<1>3. DOMAIN r = 1 .. n /\ r = [i \in 1 .. n |-> r[i]]
  BY <1>0, <1>1 DEF Staled
<1>4. r \in [1 .. n -> A!Alarm]
  BY <1>2, <1>3
<1>5. r \in AlarmLists /\ Len(r) = n
  BY <1>4, SeqDef DEF AlarmLists
<1>6. ASSUME NEW a PROVE a \in A!Listed(r) <=> a \in A!Listed(as)
  <2>1. a \in A!Listed(r) <=> NamedIn(r, 1 .. n, a)
    BY <1>5, ListedAt, Zenon
  <2>2. a \in A!Listed(as) <=> NamedIn(as, 1 .. n, a)
    BY <1>1, ListedAt, Zenon
  <2> QED BY <1>2, <2>1, <2>2, Zenon DEF NamedIn
<1>7. A!Listed(r) = A!Listed(as)
  BY <1>6
<1>8. ASSUME Distinct(as) PROVE Distinct(r)
  BY <1>1, <1>2, <1>5, <1>8, Zenon DEF Distinct
<1> QED BY <1>0, <1>5, <1>7, <1>8

LEMMA OneMore ==
  ASSUME NEW S, NEW q \in Seq(S), NEW e \in S
  PROVE  /\ Append(q, e) \in Seq(S) /\ Len(Append(q, e)) = Len(q) + 1
         /\ \A i \in 1 .. Len(q) : Append(q, e)[i] = q[i]
         /\ Append(q, e)[Len(q) + 1] = e
<1>1. Append(q, e) \in Seq(S) /\ Len(Append(q, e)) = Len(q) + 1
  BY AppendProperties
<1>2. ASSUME NEW i \in 1 .. Len(q) PROVE Append(q, e)[i] = q[i]
  BY AppendProperties, SMTT(30)
<1>3. Append(q, e)[Len(q) + 1] = e
  BY AppendProperties, SMTT(30)
<1> QED BY <1>1, <1>2, <1>3

(* The virtual alarm at the end.                                           *)
LEMMA AppendedFacts ==
  ASSUME NEW as \in AlarmLists, NEW e \in A!Alarm
  PROVE  /\ Append(as, e) \in AlarmLists
         /\ A!Listed(Append(as, e)) = A!Listed(as) \cup {e.alarm}
         /\ Distinct(as) /\ e.alarm \notin A!Listed(as) => Distinct(Append(as, e))
<1>1. as \in Seq(A!Alarm)
  BY DEF AlarmLists
<1>2. PICK n \in Nat : n = Len(as)
  BY <1>1, LenProperties
<1>3. PICK r : r = Append(as, e)
  OBVIOUS
<1>4. /\ r \in Seq(A!Alarm) /\ Len(r) = n + 1 /\ r[n + 1] = e
      /\ \A i \in 1 .. n : r[i] = as[i]
  <2>1. /\ Append(as, e) \in Seq(A!Alarm) /\ Len(Append(as, e)) = Len(as) + 1
        /\ \A i \in 1 .. Len(as) : Append(as, e)[i] = as[i]
        /\ Append(as, e)[Len(as) + 1] = e
    <3>1. e \in A!Alarm
      OBVIOUS
    <3> QED BY <1>1, <3>1, OneMore, Zenon
  <2> QED BY <1>2, <1>3, <2>1, Zenon
<1>5. ASSUME NEW a PROVE NamedIn(r, 1 .. Len(r), a) <=> NamedIn(as, 1 .. n, a) \/ a = e.alarm
  <2>1. \A i \in 1 .. n : i \in 1 .. n + 1
    OBVIOUS
  <2>2. n + 1 \in 1 .. n + 1 /\ \A i \in 1 .. n + 1 : i \in 1 .. n \/ i = n + 1
    OBVIOUS
  <2> QED BY <1>4, <2>1, <2>2, Zenon DEF NamedIn
<1>6. ASSUME NEW a PROVE a \in A!Listed(r) <=> a \in A!Listed(as) \/ a = e.alarm
  <2>1. a \in A!Listed(r) <=> NamedIn(r, 1 .. Len(r), a)
    BY ListedAt, Zenon
  <2>2. a \in A!Listed(as) <=> NamedIn(as, 1 .. n, a)
    BY <1>2, ListedAt, Zenon
  <2> QED BY <1>5, <2>1, <2>2, Zenon
<1>7. A!Listed(r) = A!Listed(as) \cup {e.alarm}
  BY <1>6
<1>8. ASSUME Distinct(as), e.alarm \notin A!Listed(as) PROVE Distinct(r)
  <2>1. \A i \in 1 .. n + 1 : i \in 1 .. n \/ i = n + 1
    OBVIOUS
  <2>2. ~NamedIn(as, 1 .. n, e.alarm)
    BY <1>2, <1>8, ListedAt, Zenon
  <2>3. ASSUME NEW i \in 1 .. n PROVE r[i].alarm # e.alarm
    BY <1>4, <2>2, Zenon DEF NamedIn
  <2>4. ASSUME NEW i \in 1 .. n, NEW j \in 1 .. n, r[i].alarm = r[j].alarm PROVE i = j
    BY <1>2, <1>4, <1>8, <2>4, Zenon DEF Distinct
  <2> QED BY <1>4, <2>1, <2>3, <2>4, Zenon DEF Distinct
<1> QED BY <1>3, <1>4, <1>7, <1>8, Zenon DEF AlarmLists

(* The states of a node: its list of alarms has no name twice, and that of  *)
(* the virtual alarm exactly while the site is offline.                    *)
NodeStates ==
  [alarms : AlarmLists,
   overall : {A!Invalid} \cup {SeverityOf[a] : a \in A!Names \cup {OfflineKey}},
   status : {"Unknown", "Offline", "Online"},
   sent : SUBSET {"onlinestatuschng", "alarmmod", "overall"}]

NodeTrue(st) ==
  /\ st \in NodeStates /\ Distinct(st.alarms)
  /\ OfflineKey \in A!Listed(st.alarms) <=> st.status = "Offline"

LEMMA NodeParts ==
  ASSUME NEW st \in NodeStates
  PROVE  /\ st.alarms \in AlarmLists
         /\ st.status \in {"Unknown", "Offline", "Online"}
         /\ st.sent \subseteq {"onlinestatuschng", "alarmmod", "overall"}
BY DEF NodeStates

LEMMA OnlineFacts ==
  ASSUME NEW st, NodeTrue(st)
  PROVE  /\ NodeTrue(A!Online(st)) /\ A!Online(st).status = "Online"
         /\ A!Listed(A!Online(st).alarms) = A!Listed(st.alarms) \ {OfflineKey}
         /\ A!Stale(A!Online(st).alarms) \subseteq A!Stale(st.alarms)
<1>1. CASE st.status = "Online"
  <2>1. A!Online(st) = st
    BY <1>1, Zenon DEF A!Online
  <2>2. OfflineKey \notin A!Listed(st.alarms)
    BY <1>1 DEF NodeTrue
  <2> QED BY <1>1, <2>1, <2>2
<1>2. CASE st.status # "Online"
  <2>1. st \in NodeStates
    BY DEF NodeTrue
  <2>2. PICK as : as = A!Without(st.alarms, {OfflineKey})
    OBVIOUS
  <2>3. PICK out : out = st.sent \cup {"onlinestatuschng"} \cup
                           (IF OfflineKey \in A!Listed(st.alarms) THEN {"alarmmod"} ELSE {})
    OBVIOUS
  <2>4. PICK new : new = A!Online(st)
    OBVIOUS
  <2>5. new = [st EXCEPT !.alarms = as, !.status = "Online", !.sent = out]
    BY <1>2, <2>2, <2>3, <2>4, Zenon DEF A!Online
  <2>6. st.alarms \in AlarmLists /\ out \subseteq {"onlinestatuschng", "alarmmod", "overall"}
    BY <2>1, <2>3, NodeParts
  <2>7. /\ as \in AlarmLists /\ A!Listed(as) = A!Listed(st.alarms) \ {OfflineKey}
        /\ A!Stale(as) \subseteq A!Stale(st.alarms) \ {OfflineKey}
        /\ Distinct(st.alarms) => Distinct(as)
    BY <2>2, <2>6, WithoutFacts
  <2>8. new \in NodeStates /\ new.alarms = as /\ new.status = "Online"
    BY <2>1, <2>5, <2>6, <2>7 DEF NodeStates
  <2>9. NodeTrue(new)
    BY <2>7, <2>8 DEF NodeTrue
  <2> QED BY <2>4, <2>7, <2>8, <2>9
<1> QED BY <1>1, <1>2

LEMMA OfflineFacts ==
  ASSUME NEW st, NodeTrue(st)
  PROVE  /\ NodeTrue(A!Offline(st)) /\ A!Offline(st).status = "Offline"
         /\ A!Listed(A!Offline(st).alarms) = A!Listed(st.alarms) \cup {OfflineKey}
         /\ st.status = "Offline" => A!Offline(st) = st
<1>1. CASE st.status = "Offline"
  <2>1. A!Offline(st) = st
    BY <1>1, Zenon DEF A!Offline
  <2>2. OfflineKey \in A!Listed(st.alarms)
    BY <1>1 DEF NodeTrue
  <2> QED BY <1>1, <2>1, <2>2
<1>2. CASE st.status # "Offline"
  <2>1. st \in NodeStates
    BY DEF NodeTrue
  <2>2. PICK r : r = Staled(st.alarms)
    OBVIOUS
  <2>9. PICK e : e = [alarm |-> OfflineKey, stale |-> FALSE]
    OBVIOUS
  <2>3. PICK as : as = Append(r, e)
    OBVIOUS
  <2>4. PICK out : out = st.sent \cup {"onlinestatuschng", "alarmmod"}
    OBVIOUS
  <2>5. PICK new : new = A!Offline(st)
    OBVIOUS
  <2>6. new = [st EXCEPT !.alarms = as, !.status = "Offline", !.sent = out]
    BY <1>2, <2>2, <2>3, <2>4, <2>5, <2>9, Zenon DEF A!Offline, Staled
  <2>7. st.alarms \in AlarmLists /\ out \subseteq {"onlinestatuschng", "alarmmod", "overall"}
    BY <2>1, <2>4, NodeParts
  <2>8. r \in AlarmLists /\ A!Listed(r) = A!Listed(st.alarms) /\ (Distinct(st.alarms) => Distinct(r))
    BY <2>2, <2>7, StaledFacts, Zenon
  <2>10. e \in A!Alarm /\ e.alarm = OfflineKey
    BY <2>9 DEF A!Alarm
  <2>12. /\ as \in AlarmLists /\ A!Listed(as) = A!Listed(r) \cup {e.alarm}
         /\ Distinct(r) /\ e.alarm \notin A!Listed(r) => Distinct(as)
    BY <2>3, <2>8, <2>10, AppendedFacts
  <2>13. OfflineKey \notin A!Listed(st.alarms) /\ Distinct(st.alarms)
    BY <1>2 DEF NodeTrue
  <2>14. Distinct(as) /\ A!Listed(as) = A!Listed(st.alarms) \cup {OfflineKey}
    BY <2>8, <2>10, <2>12, <2>13
  <2>15. new \in NodeStates /\ new.alarms = as /\ new.status = "Offline"
    BY <2>1, <2>6, <2>7, <2>12 DEF NodeStates
  <2>16. NodeTrue(new)
    BY <2>14, <2>15 DEF NodeTrue
  <2> QED BY <1>2, <2>5, <2>14, <2>15, <2>16
<1> QED BY <1>1, <1>2

(* The alarms of p that a value turns on, after those that stay.           *)
LEMMA UpdatedFacts ==
  ASSUME NEW as \in AlarmLists, NEW p \in A!Props, NEW off, NEW active
  PROVE  /\ A!Updated(as, p, off, active) \in AlarmLists
         /\ A!Listed(A!Updated(as, p, off, active))
              = (A!Listed(as) \ off) \cup (off \cap active \cap A!ToSet(AlarmsOfProperty[p]))
         /\ A!Stale(A!Updated(as, p, off, active)) \subseteq A!Stale(as) \ off
         /\ Distinct(as) => Distinct(A!Updated(as, p, off, active))
<1>1. PICK q : q = AlarmsOfProperty[p]
  OBVIOUS
<1>2. q \in Seq(A!Names) /\ \A i, j \in DOMAIN q : q[i] = q[j] => i = j
  <2>1. AlarmsOfProperty \in [A!Props -> Seq(A!Names)]
    BY AlarmsAssumption DEF A!SiteAlarmsAssumption
  <2>2. A!IsInjective(AlarmsOfProperty[p])
    BY AlarmsAssumption DEF A!SiteAlarmsAssumption
  <2> QED BY <1>1, <2>1, <2>2 DEF A!IsInjective
<1>3. PICK n \in Nat : n = Len(q)
  BY <1>2, LenProperties
<1>4. DOMAIN q = 1 .. n
  BY <1>2, <1>3
<1>5. PICK I : I = {i \in 1 .. Len(q) : q[i] \in off \cap active}
  OBVIOUS
<1>6. PICK on : on = A!Picked(q, I)
  OBVIOUS
<1>7. I \in SUBSET (1 .. Len(q))
  BY <1>5
<1>8. on \in Seq(A!Names) /\ Picks(on, q, I)
  BY <1>2, <1>6, <1>7, PickedFacts
<1>9. PICK pos : PicksAt(pos, on, q, I)
  BY <1>8, Zenon DEF Picks
<1>10. /\ pos \in [1 .. Len(on) -> I]
       /\ \A k \in 1 .. Len(on) : on[k] = q[pos[k]]
       /\ \A i \in I : \E k \in 1 .. Len(on) : pos[k] = i
       /\ \A k, l \in 1 .. Len(on) : pos[k] = pos[l] => k = l
  BY <1>9, Zenon DEF PicksAt
<1>11. ASSUME NEW k \in 1 .. Len(on) PROVE pos[k] \in I
  BY <1>10
<1>12. ASSUME NEW i PROVE i \in I <=> i \in DOMAIN q /\ q[i] \in off \cap active
  BY <1>3, <1>4, <1>5
<1>13. ASSUME NEW a
       PROVE  (\E k \in 1 .. Len(on) : on[k] = a) <=> a \in off \cap active \cap A!ToSet(q)
  <2>1. a \in A!ToSet(q) <=> \E i \in DOMAIN q : q[i] = a
    BY Zenon DEF A!ToSet
  <2>2. ASSUME NEW k \in 1 .. Len(on), on[k] = a PROVE a \in off \cap active \cap A!ToSet(q)
    <3>1. pos[k] \in DOMAIN q /\ q[pos[k]] = a /\ a \in off \cap active
      BY <1>10, <1>11, <1>12, <2>2
    <3> QED BY <2>1, <3>1, Zenon
  <2>3. ASSUME a \in off \cap active \cap A!ToSet(q) PROVE \E k \in 1 .. Len(on) : on[k] = a
    <3>1. PICK i \in DOMAIN q : q[i] = a
      BY <2>1, <2>3, Zenon
    <3>2. i \in I
      BY <1>12, <2>3, <3>1
    <3>3. PICK k \in 1 .. Len(on) : pos[k] = i
      BY <1>10, <3>2, Zenon
    <3>4. on[k] = a
      BY <1>10, <3>1, <3>3
    <3> QED BY <3>4, Zenon
  <2> QED BY <2>2, <2>3, Zenon
<1>14. \A k, l \in 1 .. Len(on) : on[k] = on[l] => k = l
  <2> SUFFICES ASSUME NEW k \in 1 .. Len(on), NEW l \in 1 .. Len(on), on[k] = on[l] PROVE k = l
    BY Zenon
  <2>1. pos[k] \in DOMAIN q /\ pos[l] \in DOMAIN q
    BY <1>11, <1>12, Zenon
  <2>2. q[pos[k]] = q[pos[l]]
    BY <1>10, Zenon
  <2>3. pos[k] = pos[l]
    BY <1>2, <2>1, <2>2, Zenon
  <2> QED BY <1>10, <2>3, Zenon
<1>15. PICK bs : bs = NewAlarms(on)
  OBVIOUS
<1>16. /\ bs \in AlarmLists
       /\ \A a : a \in A!Listed(bs) <=> \E i \in 1 .. Len(on) : on[i] = a
       /\ A!Stale(bs) = {} /\ Distinct(bs)
  <2>1. on \in Seq(A!Names \cup {OfflineKey})
    BY <1>8
  <2> QED BY <1>14, <1>15, <2>1, NewFacts, Zenon
<1>17. A!Listed(bs) = off \cap active \cap A!ToSet(q)
  BY <1>13, <1>16
<1>18. PICK bare : bare = A!Without(as, off)
  OBVIOUS
<1>19. /\ bare \in AlarmLists /\ A!Listed(bare) = A!Listed(as) \ off
       /\ A!Stale(bare) \subseteq A!Stale(as) \ off
       /\ Distinct(as) => Distinct(bare)
  BY <1>18, WithoutFacts
<1>20. /\ bare \o bs \in AlarmLists
       /\ A!Listed(bare \o bs) = A!Listed(bare) \cup A!Listed(bs)
       /\ A!Stale(bare \o bs) = A!Stale(bare) \cup A!Stale(bs)
       /\ Distinct(bare) /\ Distinct(bs) /\ A!Listed(bare) \cap A!Listed(bs) = {}
            => Distinct(bare \o bs)
  BY <1>16, <1>19, JoinedFacts
<1>21. A!Listed(bare) \cap A!Listed(bs) = {}
  BY <1>17, <1>19
<1>22. A!Updated(as, p, off, active) = bare \o bs
  BY <1>1, <1>5, <1>6, <1>15, <1>18, Zenon DEF A!Updated, NewAlarms
<1>23. PICK r : r = bare \o bs
  OBVIOUS
<1>24. /\ r \in AlarmLists
       /\ A!Listed(r) = (A!Listed(as) \ off) \cup (off \cap active \cap A!ToSet(q))
       /\ A!Stale(r) \subseteq A!Stale(as) \ off
       /\ Distinct(as) => Distinct(r)
  BY <1>16, <1>17, <1>19, <1>20, <1>21, <1>23
<1> QED BY <1>1, <1>22, <1>23, <1>24, Zenon

LEMMA WorstFacts ==
  ASSUME NEW as \in AlarmLists
  PROVE  A!Worst(as) \in {A!Invalid} \cup {SeverityOf[a] : a \in A!Names \cup {OfflineKey}}
<1>1. as \in Seq(A!Alarm)
  BY DEF AlarmLists
<1>2. CASE as = <<>>
  BY <1>2 DEF A!Worst
<1>3. CASE as # <<>>
  <2>1. 1 \in 1 .. Len(as)
    <3>1. Len(as) \in Nat /\ Len(as) # 0
      BY <1>1, <1>3, LenProperties, EmptySeq
    <3>2. PICK n \in Nat : n = Len(as)
      BY <3>1
    <3>3. n # 0
      BY <3>1, <3>2, Zenon
    <3>4. 1 \in 1 .. n
      BY <3>3
    <3> QED BY <3>2, <3>4, Zenon
  <2>2. as[1] \in A!Alarm
    BY <1>1, <2>1, ElementOfSeq
  <2>3. as[1].alarm \in A!Names \cup {OfflineKey}
    BY <2>2 DEF A!Alarm
  <2>4. A!Worst(as) = SeverityOf[as[1].alarm]
    BY <1>3, Zenon DEF A!Worst
  <2> QED BY <2>3, <2>4
<1> QED BY <1>2, <1>3

(* A value of p makes its active alarms the ones in the list, none of them *)
(* stale, and leaves those of other properties as they are.                *)
LEMMA UpdateFacts ==
  ASSUME NEW st, NodeTrue(st), NEW p \in A!Props, NEW active \in A!Values(p)
  PROVE  /\ NodeTrue(A!Update(st, p, active)) /\ A!Update(st, p, active).status = st.status
         /\ A!Listed(A!Update(st, p, active).alarms)
              = (A!Listed(st.alarms) \ A!ToSet(AlarmsOfProperty[p])) \cup active
         /\ A!Stale(A!Update(st, p, active).alarms) \subseteq A!Stale(st.alarms) \ active
<1>1. PICK own : own = A!ToSet(AlarmsOfProperty[p])
  OBVIOUS
<1>2. active \subseteq own /\ OfflineKey \notin own
  <2>1. active \subseteq own
    BY <1>1 DEF A!Values
  <2>2. own \subseteq A!Names /\ OfflineKey \notin A!Names
    BY <1>1, AlarmsAssumption DEF A!SiteAlarmsAssumption, A!Names
  <2> QED BY <2>1, <2>2
<1>3. PICK changed : changed = A!Changed(st, p, active)
  OBVIOUS
<1>4. \A a : a \in changed <=> a \in own /\ ((a \in active) # (a \in A!Listed(st.alarms)))
  BY <1>1, <1>3, Zenon DEF A!Changed
<1>5. st \in NodeStates /\ Distinct(st.alarms)
  BY DEF NodeTrue
<1>6. st.alarms \in AlarmLists /\ st.sent \subseteq {"onlinestatuschng", "alarmmod", "overall"}
  BY <1>5, NodeParts
<1>7. PICK old : old = A!Refreshed(st.alarms, active)
  OBVIOUS
<1>8. /\ old \in AlarmLists /\ A!Listed(old) = A!Listed(st.alarms)
      /\ A!Stale(old) \subseteq A!Stale(st.alarms) \ active /\ Distinct(old)
  BY <1>5, <1>6, <1>7, RefreshedFacts
<1>9. PICK mod : mod = IF changed # {} \/ active \cap A!Stale(st.alarms) # {} THEN {"alarmmod"} ELSE {}
  OBVIOUS
<1>10. mod \subseteq {"alarmmod"}
  BY <1>9
<1>11. PICK new : new = A!Update(st, p, active)
  OBVIOUS
<1>12. CASE changed = {}
  <2>1. PICK out : out = st.sent \cup mod
    OBVIOUS
  <2>2. new = [st EXCEPT !.alarms = old, !.sent = out]
    BY <1>3, <1>7, <1>9, <1>11, <1>12, <2>1, Zenon DEF A!Update
  <2>3. out \subseteq {"onlinestatuschng", "alarmmod", "overall"}
    BY <1>6, <1>10, <2>1
  <2>4. new \in NodeStates /\ new.alarms = old /\ new.status = st.status
    BY <1>5, <1>8, <2>2, <2>3 DEF NodeStates
  <2>5. A!Listed(old) = (A!Listed(st.alarms) \ own) \cup active
    BY <1>2, <1>4, <1>8, <1>12
  <2>6. NodeTrue(new)
    BY <1>8, <2>4 DEF NodeTrue
  <2> QED BY <1>1, <1>8, <1>11, <2>4, <2>5, <2>6
<1>13. CASE changed # {}
  <2>1. PICK up : up = A!Updated(old, p, changed, active)
    OBVIOUS
  <2>2. /\ up \in AlarmLists
        /\ A!Listed(up) = (A!Listed(old) \ changed) \cup (changed \cap active \cap own)
        /\ A!Stale(up) \subseteq A!Stale(old) \ changed /\ Distinct(up)
    BY <1>1, <1>8, <2>1, UpdatedFacts
  <2>3. PICK as : as = A!Sorted[up]
    OBVIOUS
  <2>4. /\ as \in AlarmLists /\ A!Listed(as) = A!Listed(up)
        /\ A!Stale(as) \subseteq A!Stale(up) /\ Distinct(as)
    BY <2>2, <2>3, SortedFacts
  <2>5. PICK worst : worst = A!Worst(as)
    OBVIOUS
  <2>6. worst \in {A!Invalid} \cup {SeverityOf[a] : a \in A!Names \cup {OfflineKey}}
    BY <2>4, <2>5, WorstFacts
  <2>7. PICK out : out = st.sent \cup mod \cup (IF worst # st.overall THEN {"overall"} ELSE {})
    OBVIOUS
  <2>8. out \subseteq {"onlinestatuschng", "alarmmod", "overall"}
    BY <1>6, <1>10, <2>7
  <2>9. new = [st EXCEPT !.alarms = as, !.overall = worst, !.sent = out]
    BY <1>3, <1>7, <1>9, <1>11, <1>13, <2>1, <2>3, <2>5, <2>7, Zenon DEF A!Update
  <2>10. new \in NodeStates /\ new.alarms = as /\ new.status = st.status
    BY <1>5, <2>4, <2>6, <2>8, <2>9 DEF NodeStates
  <2>11. A!Listed(as) = (A!Listed(st.alarms) \ own) \cup active
    BY <1>2, <1>4, <1>8, <2>2, <2>4
  <2>12. A!Stale(as) \subseteq A!Stale(st.alarms) \ active
    BY <1>8, <2>2, <2>4
  <2>13. NodeTrue(new)
    BY <1>2, <2>4, <2>10, <2>11 DEF NodeTrue
  <2> QED BY <1>1, <1>11, <2>10, <2>11, <2>12, <2>13
<1> QED BY <1>12, <1>13

(* The list L names what the values of the properties of D set, apart from  *)
(* the virtual alarm.                                                      *)
Matches(L, values, D) ==
  \A a : a # OfflineKey => (a \in L <=> \E q \in D : a \in values[q])

KnownValues == UNION {A!Values(p) : p \in A!Props} \cup {A!None}
Known(values) ==
  /\ values \in [A!Props -> KnownValues]
  /\ \A p \in A!Props : values[p] \in A!Values(p) \cup {A!None}

LEMMA KnownAt ==
  ASSUME NEW values, Known(values), NEW p \in A!Props, NEW a, a \in values[p], a # OfflineKey
  PROVE  /\ a \in A!ToSet(AlarmsOfProperty[p]) /\ a \in A!Names
         /\ \A q \in A!Props : q # p => a \notin A!ToSet(AlarmsOfProperty[q])
<1>1. values[p] \in A!Values(p) \cup {A!None}
  BY DEF Known
<1>2. a \in A!ToSet(AlarmsOfProperty[p])
  BY <1>1 DEF A!Values, A!None
<1>3. ASSUME NEW q \in A!Props, q # p
      PROVE  A!ToSet(AlarmsOfProperty[p]) \cap A!ToSet(AlarmsOfProperty[q]) = {}
  BY <1>3, AlarmsAssumption DEF A!SiteAlarmsAssumption
<1> QED BY <1>2, <1>3 DEF A!Names

LEMMA MatchesSteps ==
  ASSUME NEW L, NEW values, NEW after, NEW D \in SUBSET A!Props, NEW p \in A!Props,
         NEW active \in A!Values(p),
         Known(values), Matches(L, values, D),
         after[p] = active, \A q \in A!Props : q # p => after[q] = values[q]
  PROVE  Matches((L \ A!ToSet(AlarmsOfProperty[p])) \cup active, after, D \cup {p})
<1>1. PICK own : own = A!ToSet(AlarmsOfProperty[p])
  OBVIOUS
<1>2. active \subseteq own
  BY <1>1 DEF A!Values
<1>3. ASSUME NEW a, a # OfflineKey
      PROVE  a \in (L \ own) \cup active <=> \E q \in D \cup {p} : a \in after[q]
  <2>1. a \in L <=> \E q \in D : a \in values[q]
    BY <1>3, Zenon DEF Matches
  <2>2. ASSUME NEW q \in D, q # p, a \in values[q] PROVE a \notin own
    BY <1>1, <1>3, <2>2, KnownAt
  <2>3. ASSUME a \in values[p] PROVE a \in own
    BY <1>1, <1>3, <2>3, KnownAt
  <2>4. CASE a \in own
    <3>1. ASSUME NEW q \in D \cup {p}, a \in after[q] PROVE a \in active
      <4>1. CASE q = p
        BY <3>1, <4>1
      <4>2. CASE q # p
        <5>1. q \in D /\ a \in values[q]
          BY <3>1, <4>2
        <5> QED BY <2>2, <2>4, <4>2, <5>1
      <4> QED BY <4>1, <4>2
    <3>2. a \in active => \E q \in D \cup {p} : a \in after[q]
      OBVIOUS
    <3> QED BY <2>4, <3>1, <3>2, Zenon
  <2>5. CASE a \notin own
    <3>1. ASSUME NEW q \in D \cup {p}, a \in after[q] PROVE a \in L
      <4>1. q # p
        BY <1>2, <2>5, <3>1
      <4>2. q \in D /\ a \in values[q]
        BY <3>1, <4>1
      <4> QED BY <2>1, <4>2, Zenon
    <3>2. ASSUME a \in L PROVE \E q \in D \cup {p} : a \in after[q]
      <4>1. PICK q \in D : a \in values[q]
        BY <2>1, <3>2, Zenon
      <4>2. q # p
        BY <2>3, <2>5, <4>1
      <4>3. a \in after[q]
        BY <4>1, <4>2
      <4> QED BY <4>3
    <3>3. a \notin active
      BY <1>2, <2>5
    <3> QED BY <2>5, <3>1, <3>2, <3>3
  <2> QED BY <2>4, <2>5
<1> QED BY <1>1, <1>3, Zenon DEF Matches

(* The replay of the log when the type info has come.                      *)
TrueNodes == {st \in NodeStates : NodeTrue(st)}

LEMMA ReplayTrue ==
  ASSUME Known(known), NEW st \in TrueNodes, NEW p \in A!Props
  PROVE  A!Replay(st, p) \in TrueNodes
<1>1. NodeTrue(st)
  BY DEF TrueNodes
<1>2. CASE known[p] = A!None
  <2>1. A!Replay(st, p) = st
    BY <1>2, Zenon DEF A!Replay
  <2> QED BY <2>1
<1>3. CASE known[p] # A!None
  <2>1. PICK active \in A!Values(p) : active = known[p]
    BY <1>3 DEF Known
  <2>2. A!Replay(st, p) = A!Update(st, p, active)
    BY <1>3, <2>1, Zenon DEF A!Replay
  <2>3. NodeTrue(A!Update(st, p, active))
    BY <1>1, UpdateFacts
  <2> QED BY <2>2, <2>3 DEF TrueNodes, NodeTrue
<1> QED BY <1>2, <1>3

LEMMA ReplaySteps ==
  ASSUME Known(known), NEW a \in TrueNodes, NEW w \in Seq(A!Props)
  PROVE  \E r : /\ r[0] = a
                /\ \A k \in 1 .. Len(w) : r[k] = A!Replay(r[k - 1], w[k])
                /\ A!FoldLeft(A!Replay, a, w) = r[Len(w)]
<1>1. PICK n \in Nat : n = Len(w) /\ DOMAIN w = 1 .. n
  OBVIOUS
<1> DEFINE Iter(g) == [s \in SUBSET (1 .. n) |->
                         IF s = {} THEN a ELSE A!Replay(g[s \ {A!Max(s)}], w[A!Max(s)])]
<1>2. \A s \in SUBSET (1 .. n) : s # {} => A!Max(s) \in s /\ \A j \in s : j <= A!Max(s)
  <2> SUFFICES ASSUME NEW s \in SUBSET (1 .. n), s # {}
               PROVE  A!Max(s) \in s /\ \A j \in s : j <= A!Max(s)
    OBVIOUS
  <2>1. PICK m \in s : \A j \in s : j <= m
    <3>1. \A j \in s : j \in 0 .. n
      OBVIOUS
    <3> QED BY <3>1, NatGreatest
  <2>2. \A j \in s : m >= j
    BY <2>1
  <2>3. A!Max(s) \in s /\ \A j \in s : A!Max(s) >= j
    BY <2>2, Zenon DEF A!Max
  <2> QED BY <2>3
<1>3. \E g : g = Iter(g)
  <2>1. PICK step : step = [i \in 1 .. n |-> [b \in TrueNodes |-> A!Replay(b, w[i])]]
    OBVIOUS
  <2>2. \A i \in 1 .. n : step[i] \in [TrueNodes -> TrueNodes]
    <3> SUFFICES ASSUME NEW i \in 1 .. n PROVE step[i] \in [TrueNodes -> TrueNodes]
      OBVIOUS
    <3>1. w[i] \in A!Props
      BY <1>1
    <3>2. \A b \in TrueNodes : A!Replay(b, w[i]) \in TrueNodes
      BY <3>1, ReplayTrue
    <3> QED BY <2>1, <3>2
  <2>3. PICK g : IsFold(g, TrueNodes, a, n, step)
    BY <2>2, FoldExists
  <2>4. ASSUME NEW s \in SUBSET (1 .. n)
        PROVE  g[s] = IF s = {} THEN a ELSE A!Replay(g[s \ {A!Max(s)}], w[A!Max(s)])
    <3>1. CASE s = {}
      BY <2>3, <3>1 DEF IsFold
    <3>2. CASE s # {}
      <4>1. g[s] = step[A!Max(s)][g[s \ {A!Max(s)}]]
        BY <1>2, <2>3, <3>2 DEF IsFold
      <4>2. g[s \ {A!Max(s)}] \in TrueNodes /\ A!Max(s) \in 1 .. n
        BY <1>2, <2>3, <3>2 DEF IsFold
      <4> QED BY <2>1, <3>2, <4>1, <4>2
    <3> QED BY <3>1, <3>2
  <2>5. g = Iter(g)
    BY <2>3, <2>4 DEF IsFold
  <2> QED BY <2>5
<1>4. PICK f : f = Iter(f) /\ A!FoldLeft(A!Replay, a, w) = f[1 .. n]
  <2>1. A!FoldLeft(A!Replay, a, w) = (CHOOSE g : g = [s \in SUBSET DOMAIN w |->
                         IF s = {} THEN a ELSE A!Replay(g[s \ {A!Max(s)}], w[A!Max(s)])])[DOMAIN w]
    BY Zenon DEF A!FoldLeft, A!MapThenFoldSet
  <2>2. A!FoldLeft(A!Replay, a, w) = (CHOOSE g : g = Iter(g))[1 .. n]
    BY <1>1, <2>1, Zenon
  <2> QED BY <1>3, <2>2, Zenon
<1>5. PICK r : r = [k \in 0 .. n |-> f[1 .. k]]
  OBVIOUS
<1>6. r[0] = a
  <2>1. 1 .. 0 = {} /\ {} \in SUBSET (1 .. n)
    OBVIOUS
  <2>2. f[{}] = a
    BY <1>4, <2>1
  <2> QED BY <1>5, <2>1, <2>2
<1>7. ASSUME NEW k \in 1 .. n PROVE r[k] = A!Replay(r[k - 1], w[k])
  <2>1. 1 .. k \in SUBSET (1 .. n) /\ 1 .. k # {} /\ k \in 1 .. k
    <3>1. k \in 1 .. k
      OBVIOUS
    <3>2. \A j \in 1 .. k : j \in 1 .. n
      OBVIOUS
    <3> QED BY <3>1, <3>2
  <2>2. A!Max(1 .. k) = k
    BY <1>2, <2>1
  <2>3. (1 .. k) \ {k} = 1 .. (k - 1) /\ k - 1 \in 0 .. n /\ k \in 0 .. n
    OBVIOUS
  <2>4. f[1 .. k] = A!Replay(f[(1 .. k) \ {A!Max(1 .. k)}], w[A!Max(1 .. k)])
    BY <1>4, <2>1
  <2> QED BY <1>5, <2>2, <2>3, <2>4
<1>8. r[n] = f[1 .. n]
  BY <1>5
<1> QED BY <1>1, <1>4, <1>6, <1>7, <1>8

LEMMA LoadedFacts ==
  ASSUME Known(known), NEW st, NodeTrue(st), Matches(A!Listed(st.alarms), known, {})
  PROVE  /\ NodeTrue(A!FoldLeft(A!Replay, st, SiteProperties))
         /\ Matches(A!Listed(A!FoldLeft(A!Replay, st, SiteProperties).alarms), known, A!Props)
         /\ A!FoldLeft(A!Replay, st, SiteProperties).status = st.status
<1>1. SiteProperties \in Seq(A!Props) /\ A!IsInjective(SiteProperties)
  BY AlarmsAssumption DEF A!SiteAlarmsAssumption
<1>2. PICK n \in Nat : n = Len(SiteProperties) /\ DOMAIN SiteProperties = 1 .. n
  BY <1>1, LenProperties
<1>3. st \in TrueNodes
  BY DEF TrueNodes, NodeTrue
<1>4. PICK r : /\ r[0] = st
               /\ \A k \in 1 .. n : r[k] = A!Replay(r[k - 1], SiteProperties[k])
               /\ A!FoldLeft(A!Replay, st, SiteProperties) = r[n]
  <2>1. \E r : /\ r[0] = st
               /\ \A k \in 1 .. Len(SiteProperties) : r[k] = A!Replay(r[k - 1], SiteProperties[k])
               /\ A!FoldLeft(A!Replay, st, SiteProperties) = r[Len(SiteProperties)]
    BY <1>1, <1>3, ReplaySteps, Zenon
  <2> QED BY <1>2, <2>1, Zenon
<1> DEFINE Done(k) == {SiteProperties[j] : j \in 1 .. k}
<1> DEFINE Good(k) == /\ NodeTrue(r[k]) /\ r[k].status = st.status
                      /\ Matches(A!Listed(r[k].alarms), known, Done(k))
<1>5. Good(0)
  <2>1. Done(0) = {}
    OBVIOUS
  <2> QED BY <1>4, <2>1, Zenon
<1>6. ASSUME NEW k \in 1 .. n, Good(k - 1) PROVE Good(k)
  <2>1. PICK b : b = r[k - 1]
    OBVIOUS
  <2>2. PICK p \in A!Props : p = SiteProperties[k]
    BY <1>1, <1>2, ElementOfSeq
  <2>3. PICK D : D = Done(k - 1)
    OBVIOUS
  <2>4. Done(k) = D \cup {p}
    <3>1. \A j : j \in 1 .. k <=> j \in 1 .. (k - 1) \/ j = k
      OBVIOUS
    <3>2. ASSUME NEW x PROVE x \in Done(k) <=> x \in D \/ x = p
      <4>1. x \in D <=> \E j \in 1 .. (k - 1) : x = SiteProperties[j]
        BY <2>3, Zenon
      <4>2. x \in Done(k) <=> \E j \in 1 .. k : x = SiteProperties[j]
        BY Zenon
      <4> QED BY <2>2, <3>1, <4>1, <4>2, Zenon
    <3> HIDE DEF Done
    <3> QED BY <3>2
  <2>5. D \in SUBSET A!Props
    <3>1. ASSUME NEW j \in 1 .. (k - 1) PROVE SiteProperties[j] \in A!Props
      <4>1. j \in 1 .. n
        OBVIOUS
      <4> QED BY <1>1, <1>2, <4>1, ElementOfSeq
    <3> QED BY <2>3, <3>1
  <2>6. p \notin D
    <3>1. ASSUME NEW j \in 1 .. (k - 1) PROVE SiteProperties[j] # p
      <4>1. j \in 1 .. n /\ j # k
        OBVIOUS
      <4> QED BY <1>1, <1>2, <2>2, <4>1 DEF A!IsInjective
    <3> QED BY <2>3, <3>1
  <2>7. NodeTrue(b) /\ b.status = st.status /\ Matches(A!Listed(b.alarms), known, D)
    BY <1>6, <2>1, <2>3, Zenon
  <2>8. r[k] = A!Replay(b, p)
    BY <1>4, <2>1, <2>2, Zenon
  <2> HIDE DEF Done
  <2>9. CASE known[p] = A!None
    <3>1. r[k] = b
      BY <2>8, <2>9, Zenon DEF A!Replay
    <3>2. ASSUME NEW a, a # OfflineKey
          PROVE  (\E q \in D : a \in known[q]) <=> (\E q \in D \cup {p} : a \in known[q])
      <4>1. a \notin known[p]
        BY <2>9, <3>2 DEF A!None
      <4> QED BY <4>1
    <3>3. Matches(A!Listed(b.alarms), known, D \cup {p})
      BY <2>7, <3>2, Zenon DEF Matches
    <3> QED BY <2>4, <2>7, <3>1, <3>3, Zenon
  <2>10. CASE known[p] # A!None
    <3>1. PICK active \in A!Values(p) : active = known[p]
      BY <2>10 DEF Known
    <3>2. PICK new : new = A!Update(b, p, active)
      OBVIOUS
    <3>3. r[k] = new
      BY <2>8, <2>10, <3>1, <3>2, Zenon DEF A!Replay
    <3>4. /\ NodeTrue(new) /\ new.status = b.status
          /\ A!Listed(new.alarms) = (A!Listed(b.alarms) \ A!ToSet(AlarmsOfProperty[p])) \cup active
      BY <2>7, <3>2, UpdateFacts
    <3>5. Matches((A!Listed(b.alarms) \ A!ToSet(AlarmsOfProperty[p])) \cup active, known, D \cup {p})
      BY <2>5, <2>7, <3>1, MatchesSteps, Zenon
    <3>6. Matches(A!Listed(new.alarms), known, D \cup {p})
      BY <3>4, <3>5, Zenon
    <3> QED BY <2>4, <2>7, <3>3, <3>4, <3>6, Zenon
  <2> QED BY <2>9, <2>10
<1>7. Good(n)
  <2> DEFINE Below == {k \in Nat : k <= n => Good(k)}
  <2>1. 0 \in Below
    BY <1>5
  <2>2. ASSUME NEW k \in Nat, k \in Below PROVE k + 1 \in Below
    <3>1. CASE k + 1 <= n
      <4>1. k + 1 \in 1 .. n /\ (k + 1) - 1 = k /\ k + 1 \in Nat /\ k <= n
        BY <3>1
      <4>2. Good((k + 1) - 1)
        BY <2>2, <4>1, Zenon
      <4> HIDE DEF Good
      <4>3. Good(k + 1)
        BY <1>6, <4>1, <4>2, Zenon
      <4> QED BY <4>1, <4>3, Zenon
    <3>2. CASE ~(k + 1 <= n)
      BY <3>2
    <3> QED BY <3>1, <3>2
  <2> HIDE DEF Below
  <2>3. Nat \subseteq Below
    BY <2>1, <2>2, NatInSet, Zenon
  <2>4. n \in Below
    BY <2>3
  <2>5. n <= n
    OBVIOUS
  <2> QED BY <2>4, <2>5, Zenon DEF Below
<1>8. Done(n) = A!Props
  BY <1>2, Zenon DEF A!Props, A!ToSet
<1> QED BY <1>4, <1>7, <1>8, Zenon

(* There are finitely many alarms, and a list that names none twice is no  *)
(* longer than their number.                                               *)
LEMMA SequenceFinite ==
  ASSUME NEW S, NEW w \in Seq(S)
  PROVE  IsFiniteSet(A!ToSet(w))
<1>1. PICK n \in Nat : n = Len(w)
  BY LenProperties
<1>2. DOMAIN w = 1 .. n
  BY <1>1, LenProperties
<1>3. IsFiniteSet(1 .. n)
  <2>1. n \in Int /\ 1 \in Int
    OBVIOUS
  <2> QED BY <2>1, FS_Interval
<1>4. PICK all : all = A!ToSet(w)
  OBVIOUS
<1>5. w \in Surjection(1 .. n, all)
  <2>1. all = {w[i] : i \in 1 .. n}
    BY <1>2, <1>4 DEF A!ToSet
  <2>2. w \in [1 .. n -> all]
    BY <1>2, <2>1, LenProperties
  <2>3. \A t \in all : \E i \in 1 .. n : w[i] = t
    BY <2>1
  <2> QED BY <2>2, <2>3 DEF Surjection
<1> QED BY <1>3, <1>4, <1>5, FS_Surjection

LEMMA AlarmsFinite == IsFiniteSet(A!Names)
<1>1. IsFiniteSet(A!Props)
  <2>1. SiteProperties \in Seq(A!Props)
    BY AlarmsAssumption DEF A!SiteAlarmsAssumption
  <2> QED BY <2>1, SequenceFinite DEF A!Props
<1>2. PICK all : all = {A!ToSet(AlarmsOfProperty[p]) : p \in A!Props}
  OBVIOUS
<1>3. IsFiniteSet(all)
  <2>1. PICK f : f = [p \in A!Props |-> A!ToSet(AlarmsOfProperty[p])]
    OBVIOUS
  <2>2. f \in Surjection(A!Props, all)
    <3>1. f \in [A!Props -> all]
      BY <1>2, <2>1
    <3>2. \A t \in all : \E p \in A!Props : f[p] = t
      BY <1>2, <2>1
    <3> QED BY <3>1, <3>2 DEF Surjection
  <2> QED BY <1>1, <2>2, FS_Surjection
<1>4. ASSUME NEW t \in all PROVE IsFiniteSet(t)
  <2>1. PICK p \in A!Props : t = A!ToSet(AlarmsOfProperty[p])
    BY <1>2
  <2>2. AlarmsOfProperty[p] \in Seq(A!Names)
    BY AlarmsAssumption DEF A!SiteAlarmsAssumption
  <2> QED BY <2>1, <2>2, SequenceFinite
<1>5. A!Names = UNION all
  BY <1>2, Zenon DEF A!Names
<1> QED BY <1>3, <1>4, <1>5, FS_UNION

LEMMA ListShort ==
  ASSUME NEW as \in AlarmLists, Distinct(as)
  PROVE  Len(as) <= A!Cardinality(A!Names) + 1
<1>1. as \in Seq(A!Alarm)
  BY DEF AlarmLists
<1>2. PICK n \in Nat : n = Len(as)
  BY <1>1, LenProperties
<1>3. IsFiniteSet(1 .. n) /\ Cardinality(1 .. n) = n
  <2>1. n \in Int /\ 1 \in Int
    OBVIOUS
  <2>2. IsFiniteSet(1 .. n) /\ Cardinality(1 .. n) = IF 1 > n THEN 0 ELSE n - 1 + 1
    BY <2>1, FS_Interval
  <2> QED BY <2>2
<1>4. PICK all : all = A!Names \cup {OfflineKey}
  OBVIOUS
<1>5. PICK m \in Nat : m = Cardinality(A!Names)
  BY AlarmsFinite, FS_CardinalityType
<1>6. IsFiniteSet(all) /\ Cardinality(all) = m + 1
  <2>1. OfflineKey \notin A!Names
    BY AlarmsAssumption DEF A!SiteAlarmsAssumption
  <2> QED BY <1>4, <1>5, <2>1, AlarmsFinite, FS_AddElement
<1>7. PICK f : f = [i \in 1 .. n |-> as[i].alarm]
  OBVIOUS
<1>8. f \in Injection(1 .. n, all)
  <2>1. ASSUME NEW i \in 1 .. n PROVE f[i] = as[i].alarm /\ f[i] \in all
    <3>1. as[i] \in A!Alarm
      BY <1>1, <1>2, ElementOfSeq
    <3>2. as[i].alarm \in all
      BY <1>4, <3>1 DEF A!Alarm
    <3> QED BY <1>7, <3>2
  <2>2. f \in [1 .. n -> all]
    BY <1>7, <2>1
  <2>3. \A i, j \in 1 .. n : f[i] = f[j] => i = j
    BY <1>2, <2>1, Zenon DEF Distinct
  <2> QED BY <2>2, <2>3 DEF Injection, IsInjective
<1>9. Cardinality(1 .. n) <= Cardinality(all)
  BY <1>3, <1>6, <1>8, FS_Injection
<1>10. A!Cardinality(A!Names) = m
  BY <1>5 DEF A!Cardinality, Cardinality
<1> QED BY <1>2, <1>3, <1>6, <1>9, <1>10

LEMMA RemovedCall ==
  ASSUME NEW S, NEW w \in Seq(S), NEW i \in 1 .. Len(w)
  PROVE  A!RemoveAt(w, i) \in Seq(S) /\ Len(A!RemoveAt(w, i)) <= Len(w)
<1>1. PICK n \in Nat : n = Len(w)
  BY LenProperties
<1>2. \A j \in 1 .. n : w[j] \in S
  BY <1>1, ElementOfSeq
<1>3. i \in 1 .. n
  BY <1>1
<1>4. PICK u : u = SubSeq(w, 1, i - 1)
  OBVIOUS
<1>5. PICK v : v = SubSeq(w, i + 1, n)
  OBVIOUS
<1>6. u \in Seq(S) /\ Len(u) = IF 1 <= i - 1 THEN (i - 1) - 1 + 1 ELSE 0
  <2>1. 1 \in Int /\ i - 1 \in Int /\ \A j \in 1 .. (i - 1) : w[j] \in S
    BY <1>2, <1>3
  <2> QED BY <1>4, <2>1, SubSeqProperties
<1>7. v \in Seq(S) /\ Len(v) = IF i + 1 <= n THEN n - (i + 1) + 1 ELSE 0
  <2>1. i + 1 \in Int /\ n \in Int /\ \A j \in (i + 1) .. n : w[j] \in S
    BY <1>2, <1>3
  <2> QED BY <1>5, <2>1, SubSeqProperties
<1>8. u \o v \in Seq(S) /\ Len(u \o v) = Len(u) + Len(v)
  BY <1>6, <1>7, ConcatProperties
<1>9. A!RemoveAt(w, i) = u \o v
  BY <1>1, <1>4, <1>5, Zenon DEF A!RemoveAt
<1>10. Len(u) + Len(v) <= n
  BY <1>3, <1>6, <1>7
<1> QED BY <1>1, <1>8, <1>9, <1>10, Zenon

-----------------------------------------------------------------------------
(* The inductive invariant: that of the node as above; the list agrees with *)
(* the last values once the type info is there, and holds no alarm of a    *)
(* property before; and nothing counts as seen that is stale.              *)
NodeInv(as, worst, state) ==
  /\ as \in AlarmLists /\ Distinct(as)
  /\ worst \in {A!Invalid} \cup {SeverityOf[a] : a \in A!Names \cup {OfflineKey}}
  /\ state \in {"Unknown", "Offline", "Online"}
  /\ OfflineKey \in A!Listed(as) <=> state = "Offline"

Signalled(out) == out \subseteq {"onlinestatuschng", "alarmmod", "overall"}
CallsInv(w) == w \in Seq(SUBSET {"answer", "timeout"}) /\ Len(w) <= DirCalls
LogInv(as, values, ready) ==
  Known(values) /\ Matches(A!Listed(as), values, IF ready THEN A!Props ELSE {})
SeenInv(seen, as, ready) ==
  /\ seen \subseteq A!Names /\ seen \cap A!Stale(as) = {}
  /\ ~ready => seen = {}

AlarmsInv ==
  /\ NodeInv(alarms, overall, status) /\ Signalled(alarmsSent)
  /\ loaded \in BOOLEAN /\ alive \in BOOLEAN /\ late \in BOOLEAN
  /\ CallsInv(calls)
  /\ LogInv(alarms, known, loaded)
  /\ SeenInv(fresh, alarms, loaded)

LEMMA NodeNow ==
  ASSUME AlarmsInv
  PROVE  NodeTrue(A!NodeState) /\ A!NodeState.alarms = alarms /\ A!NodeState.status = status
BY DEF AlarmsInv, NodeInv, NodeTrue, NodeStates, A!NodeState

LEMMA NodeThen ==
  ASSUME NEW st, NodeTrue(st)
  PROVE  NodeInv(st.alarms, st.overall, st.status) /\ Signalled(st.sent)
<1>1. st \in NodeStates
  BY DEF NodeTrue
<1>2. /\ st.overall \in {A!Invalid} \cup {SeverityOf[a] : a \in A!Names \cup {OfflineKey}}
      /\ st.alarms \in AlarmLists /\ st.status \in {"Unknown", "Offline", "Online"}
      /\ st.sent \subseteq {"onlinestatuschng", "alarmmod", "overall"}
  BY <1>1 DEF NodeStates
<1> QED BY <1>2, Zenon DEF NodeInv, NodeTrue, Signalled

LEMMA InitAlarmsInv == A!Init => AlarmsInv
<1> SUFFICES ASSUME A!Init PROVE AlarmsInv
  OBVIOUS
<1>1. /\ alarms = <<>> /\ overall = A!Invalid /\ status = "Unknown" /\ loaded = FALSE
      /\ calls = <<>> /\ alive = TRUE /\ late = FALSE /\ alarmsSent = {} /\ fresh = {}
      /\ known \in [A!Props -> KnownValues]
      /\ \A p \in A!Props : known[p] \in A!Values(p) \cup {A!None}
  BY DEF A!Init, KnownValues
<1>2. alarms \in AlarmLists /\ Len(alarms) = 0 /\ calls \in Seq(SUBSET {"answer", "timeout"}) /\ Len(calls) = 0
  BY <1>1 DEF AlarmLists
<1>3. \A i \in 1 .. Len(alarms) : FALSE
  BY <1>2
<1>4. Distinct(alarms) /\ A!Listed(alarms) = {} /\ A!Stale(alarms) = {}
  BY <1>3 DEF Distinct, A!Listed, A!Stale
<1>5. NodeInv(alarms, overall, status)
  BY <1>1, <1>2, <1>4 DEF NodeInv
<1>6. CallsInv(calls)
  BY <1>2, AlarmsAssumption DEF CallsInv, A!SiteAlarmsAssumption
<1>7. LogInv(alarms, known, loaded)
  BY <1>1, <1>4 DEF LogInv, Known, Matches
<1>8. SeenInv(fresh, alarms, loaded)
  BY <1>1, <1>4 DEF SeenInv
<1>9. Signalled(alarmsSent) /\ loaded \in BOOLEAN /\ alive \in BOOLEAN /\ late \in BOOLEAN
  BY <1>1 DEF Signalled
<1> QED BY <1>5, <1>6, <1>7, <1>8, <1>9 DEF AlarmsInv

LEMMA AlarmsInvTrue == AlarmsInv => AlarmsTrue
<1> SUFFICES ASSUME AlarmsInv PROVE AlarmsTrue
  OBVIOUS
<1>1. NodeInv(alarms, overall, status)
  BY DEF AlarmsInv
<1>2. A!TypeOK
  <2>1. alarms \in Seq(A!Alarm) /\ Len(alarms) <= A!Cardinality(A!Names) + 1
    BY <1>1, ListShort DEF NodeInv, AlarmLists
  <2>2. /\ overall \in {A!Invalid} \cup {SeverityOf[a] : a \in A!Names \cup {OfflineKey}}
        /\ status \in {"Unknown", "Offline", "Online"}
    BY <1>1 DEF NodeInv
  <2>3. loaded \in BOOLEAN /\ alive \in BOOLEAN /\ late \in BOOLEAN
    BY DEF AlarmsInv
  <2>4. calls \in Seq(SUBSET {"answer", "timeout"}) /\ Len(calls) <= DirCalls
    BY DEF AlarmsInv, CallsInv
  <2>5. \A p \in A!Props : known[p] \in A!Values(p) \cup {A!None}
    BY DEF AlarmsInv, LogInv, Known
  <2>6. alarmsSent \subseteq {"onlinestatuschng", "alarmmod", "overall"} /\ fresh \subseteq A!Names
    BY DEF AlarmsInv, Signalled, SeenInv
  <2> QED BY <2>1, <2>2, <2>3, <2>4, <2>5, <2>6 DEF A!TypeOK
<1>3. A!AlarmsMatch
  <2>1. PICK n \in Nat : n = Len(alarms)
    <3>1. alarms \in Seq(A!Alarm)
      BY <1>1 DEF NodeInv, AlarmLists
    <3> QED BY <3>1, LenProperties
  <2>2. A!IsInjective([i \in 1 .. Len(alarms) |-> alarms[i].alarm])
    <3>1. \A i, j \in 1 .. Len(alarms) : alarms[i].alarm = alarms[j].alarm => i = j
      BY <1>1, Zenon DEF NodeInv, Distinct
    <3> QED BY <3>1, Zenon DEF A!IsInjective
  <2>3. ASSUME loaded
        PROVE  A!Listed(alarms) \ {OfflineKey}
                 = UNION {known[p] : p \in {q \in A!Props : known[q] # A!None}}
    <3>1. Known(known) /\ Matches(A!Listed(alarms), known, A!Props)
      BY <2>3 DEF AlarmsInv, LogInv
    <3>2. ASSUME NEW a, a \in A!Listed(alarms), a # OfflineKey
          PROVE  \E p \in A!Props : known[p] # A!None /\ a \in known[p]
      <4>1. PICK p \in A!Props : a \in known[p]
        BY <3>1, <3>2, Zenon DEF Matches
      <4>2. known[p] # A!None
        BY <3>2, <4>1 DEF A!None
      <4> QED BY <4>1, <4>2
    <3>3. ASSUME NEW p \in A!Props, known[p] # A!None, NEW a \in known[p]
          PROVE  a \in A!Listed(alarms) /\ a # OfflineKey
      <4>1. known[p] \in A!Values(p)
        BY <3>1, <3>3 DEF Known
      <4>2. a \in A!Names
        BY <4>1 DEF A!Values, A!Names
      <4>3. a # OfflineKey
        BY <4>2, AlarmsAssumption DEF A!SiteAlarmsAssumption
      <4> QED BY <3>1, <4>3, Zenon DEF Matches
    <3> QED BY <3>2, <3>3
  <2> QED BY <2>2, <2>3, Zenon DEF A!AlarmsMatch
<1>4. A!OfflineAlarm
  BY <1>1 DEF NodeInv, A!OfflineAlarm
<1>5. A!FreshNotStale
  BY DEF AlarmsInv, SeenInv, A!FreshNotStale
<1> QED BY <1>2, <1>3, <1>4, <1>5 DEF AlarmsTrue

LEMMA ValueStep ==
  ASSUME AlarmsInv, NEW p \in A!Props, NEW active \in A!Values(p), A!Value(p, active)
  PROVE  AlarmsInv'
<1>1. PICK n : n = A!NodeState
  OBVIOUS
<1>2. NodeTrue(n) /\ n.alarms = alarms /\ n.status = status
  BY <1>1, NodeNow
<1>3. PICK on : on = A!Online(n)
  OBVIOUS
<1>4. /\ NodeTrue(on) /\ on.status = "Online"
      /\ A!Listed(on.alarms) = A!Listed(alarms) \ {OfflineKey}
      /\ A!Stale(on.alarms) \subseteq A!Stale(alarms)
  <2>1. /\ NodeTrue(on) /\ on.status = "Online"
        /\ A!Listed(on.alarms) = A!Listed(n.alarms) \ {OfflineKey}
        /\ A!Stale(on.alarms) \subseteq A!Stale(n.alarms)
    BY <1>2, <1>3, OnlineFacts, Zenon
  <2> QED BY <1>2, <2>1, Zenon
<1>5. PICK st : /\ st = (IF loaded THEN A!Update(on, p, active) ELSE on)
                /\ alarms' = st.alarms /\ overall' = st.overall
                /\ alarmsSent' = st.sent /\ status' = st.status
  BY <1>1, <1>3, Zenon DEF A!Value
<1>6. /\ known' = [known EXCEPT ![p] = active] /\ late' = FALSE
      /\ fresh' = fresh \cup (IF loaded THEN active ELSE {})
      /\ loaded' = loaded /\ calls' = calls /\ alive' = alive
  BY DEF A!Value
<1>7. Known(known) /\ Matches(A!Listed(alarms), known, IF loaded THEN A!Props ELSE {})
  BY DEF AlarmsInv, LogInv
<1>8. Known(known')
  <2>1. active \in KnownValues
    BY DEF KnownValues
  <2> QED BY <1>6, <1>7, <2>1 DEF Known
<1>9. PICK L : L = A!Listed(on.alarms)
  OBVIOUS
<1>10. Matches(L, known, IF loaded THEN A!Props ELSE {})
  <2>1. ASSUME NEW a, a # OfflineKey PROVE a \in L <=> a \in A!Listed(alarms)
    BY <1>4, <1>9, <2>1
  <2> QED BY <1>7, <2>1, Zenon DEF Matches
<1>11. active \subseteq A!Names
  BY DEF A!Values, A!Names
<1>12. fresh \subseteq A!Names /\ fresh \cap A!Stale(alarms) = {} /\ (~loaded => fresh = {})
  BY DEF AlarmsInv, SeenInv
<1>13. CASE loaded
  <2>1. /\ NodeTrue(st)
        /\ A!Listed(st.alarms) = (L \ A!ToSet(AlarmsOfProperty[p])) \cup active
        /\ A!Stale(st.alarms) \subseteq A!Stale(on.alarms) \ active
    <3>1. PICK up : up = A!Update(on, p, active)
      OBVIOUS
    <3>2. st = up
      BY <1>5, <1>13, <3>1, Zenon
    <3>3. /\ NodeTrue(up)
          /\ A!Listed(up.alarms) = (A!Listed(on.alarms) \ A!ToSet(AlarmsOfProperty[p])) \cup active
          /\ A!Stale(up.alarms) \subseteq A!Stale(on.alarms) \ active
      BY <1>4, <3>1, UpdateFacts, SMTT(30)
    <3> QED BY <1>9, <3>2, <3>3, Zenon
  <2>2. PICK after : after = [known EXCEPT ![p] = active]
    OBVIOUS
  <2>3. after[p] = active /\ \A q \in A!Props : q # p => after[q] = known[q]
    BY <1>7, <2>2 DEF Known
  <2>4. Matches(L, known, A!Props)
    BY <1>10, <1>13, Zenon
  <2>5. A!Props \in SUBSET A!Props
    OBVIOUS
  <2>6. Matches((L \ A!ToSet(AlarmsOfProperty[p])) \cup active, after, A!Props \cup {p})
    BY <1>7, <2>3, <2>4, <2>5, MatchesSteps, Zenon
  <2>7. A!Props \cup {p} = A!Props
    OBVIOUS
  <2>8. Matches(A!Listed(alarms'), known', A!Props)
    BY <1>5, <1>6, <2>1, <2>2, <2>6, <2>7, Zenon
  <2>9. LogInv(alarms', known', loaded')
    BY <1>6, <1>8, <1>13, <2>8, Zenon DEF LogInv
  <2>10. SeenInv(fresh', alarms', loaded')
    BY <1>4, <1>5, <1>6, <1>11, <1>12, <1>13, <2>1 DEF SeenInv
  <2>11. NodeInv(alarms', overall', status') /\ Signalled(alarmsSent')
    BY <1>5, <2>1, NodeThen, Zenon
  <2> QED BY <1>6, <2>9, <2>10, <2>11 DEF AlarmsInv, CallsInv
<1>14. CASE ~loaded
  <2>1. st = on
    BY <1>5, <1>14, Zenon
  <2>2. Matches(L, known', {})
    BY <1>10, <1>14, Zenon DEF Matches
  <2>3. LogInv(alarms', known', loaded')
    BY <1>5, <1>6, <1>8, <1>9, <1>14, <2>1, <2>2, Zenon DEF LogInv
  <2>4. SeenInv(fresh', alarms', loaded')
    BY <1>4, <1>5, <1>6, <1>12, <1>14, <2>1 DEF SeenInv
  <2>5. NodeInv(alarms', overall', status') /\ Signalled(alarmsSent')
    BY <1>4, <1>5, <2>1, NodeThen, Zenon
  <2> QED BY <1>6, <2>3, <2>4, <2>5 DEF AlarmsInv, CallsInv
<1> QED BY <1>13, <1>14

LEMMA LoadStep ==
  ASSUME AlarmsInv, A!Load
  PROVE  AlarmsInv'
<1>1. PICK n : n = A!NodeState
  OBVIOUS
<1>2. NodeTrue(n) /\ n.alarms = alarms /\ n.status = status
  BY <1>1, NodeNow
<1>3. PICK st : st = A!FoldLeft(A!Replay, n, SiteProperties)
  OBVIOUS
<1>4. /\ ~loaded /\ loaded' = TRUE
      /\ alarms' = st.alarms /\ overall' = st.overall /\ alarmsSent' = st.sent /\ status' = st.status
      /\ fresh' = IF st.status = "Offline" /\ status # "Offline" THEN {} ELSE fresh
  BY <1>1, <1>3, Zenon DEF A!Load, A!Becomes
<1>5. known' = known /\ calls' = calls /\ alive' = alive /\ late' = late
  BY DEF A!Load, A!env
<1>6. Known(known) /\ Matches(A!Listed(alarms), known, {}) /\ fresh = {}
  <2>1. ~loaded
    BY <1>4
  <2> QED BY <2>1, Zenon DEF AlarmsInv, LogInv, SeenInv
<1>7. /\ NodeTrue(st) /\ Matches(A!Listed(st.alarms), known, A!Props)
  <2>1. Matches(A!Listed(n.alarms), known, {})
    BY <1>2, <1>6, Zenon
  <2> QED BY <1>2, <1>3, <1>6, <2>1, LoadedFacts, Zenon
<1>8. NodeInv(alarms', overall', status') /\ Signalled(alarmsSent')
  BY <1>4, <1>7, NodeThen, Zenon
<1>9. LogInv(alarms', known', loaded')
  BY <1>4, <1>5, <1>6, <1>7, Zenon DEF LogInv
<1>10. SeenInv(fresh', alarms', loaded')
  BY <1>4, <1>6 DEF SeenInv
<1> QED BY <1>4, <1>5, <1>8, <1>9, <1>10 DEF AlarmsInv, CallsInv

LEMMA DirResultStep ==
  ASSUME AlarmsInv, NEW i \in 1 .. DirCalls, A!DirResult(i)
  PROVE  AlarmsInv'
<1>1. PICK n : n = A!NodeState
  OBVIOUS
<1>2. NodeTrue(n) /\ n.alarms = alarms /\ n.status = status
  BY <1>1, NodeNow
<1>3. PICK outcome : A!Becomes(A!Result(outcome))
  BY Zenon DEF A!DirResult
<1>4. PICK st : st = A!Result(outcome)
  OBVIOUS
<1>5. /\ alarms' = st.alarms /\ overall' = st.overall /\ alarmsSent' = st.sent /\ status' = st.status
      /\ fresh' = IF st.status = "Offline" /\ status # "Offline" THEN {} ELSE fresh
  BY <1>3, <1>4, Zenon DEF A!Becomes
<1>6. /\ i \in 1 .. Len(calls) /\ calls' = A!RemoveAt(calls, i)
      /\ loaded' = loaded /\ alive' = alive /\ late' = late /\ known' = known
  BY DEF A!DirResult
<1>7. CallsInv(calls')
  <2>1. calls \in Seq(SUBSET {"answer", "timeout"}) /\ Len(calls) <= DirCalls
    BY DEF AlarmsInv, CallsInv
  <2>2. calls' \in Seq(SUBSET {"answer", "timeout"}) /\ Len(calls') <= Len(calls)
    BY <1>6, <2>1, RemovedCall, Zenon
  <2>3. PICK m \in Nat, k \in Nat : m = Len(calls) /\ k = Len(calls')
    BY <2>1, <2>2, LenProperties
  <2>4. DirCalls \in Nat
    BY AlarmsAssumption DEF A!SiteAlarmsAssumption
  <2>5. Len(calls') <= DirCalls
    BY <2>1, <2>2, <2>3, <2>4
  <2> QED BY <2>2, <2>5, Zenon DEF CallsInv
<1>8. /\ Known(known) /\ Matches(A!Listed(alarms), known, IF loaded THEN A!Props ELSE {})
      /\ fresh \subseteq A!Names /\ fresh \cap A!Stale(alarms) = {} /\ (~loaded => fresh = {})
  BY DEF AlarmsInv, LogInv, SeenInv
<1>9. /\ NodeTrue(st)
      /\ \A a : a # OfflineKey => (a \in A!Listed(st.alarms) <=> a \in A!Listed(alarms))
      /\ (st.status = "Offline" /\ status # "Offline") \/ A!Stale(st.alarms) \subseteq A!Stale(alarms)
  <2>1. CASE outcome = "timeout"
    <3>1. st = A!Offline(n)
      BY <1>1, <1>4, <2>1, Zenon DEF A!Result
    <3>2. /\ NodeTrue(st) /\ st.status = "Offline"
          /\ A!Listed(st.alarms) = A!Listed(n.alarms) \cup {OfflineKey}
          /\ n.status = "Offline" => st = n
      BY <1>2, <3>1, OfflineFacts, Zenon
    <3> QED BY <1>2, <3>2
  <2>2. CASE outcome # "timeout"
    <3>1. st = A!Online(n)
      BY <1>1, <1>4, <2>2, Zenon DEF A!Result
    <3>2. /\ NodeTrue(st)
          /\ A!Listed(st.alarms) = A!Listed(n.alarms) \ {OfflineKey}
          /\ A!Stale(st.alarms) \subseteq A!Stale(n.alarms)
      BY <1>2, <3>1, OnlineFacts, Zenon
    <3> QED BY <1>2, <3>2
  <2> QED BY <2>1, <2>2
<1>10. NodeInv(alarms', overall', status') /\ Signalled(alarmsSent')
  BY <1>5, <1>9, NodeThen, Zenon
<1>11. LogInv(alarms', known', loaded')
  BY <1>5, <1>6, <1>8, <1>9, Zenon DEF LogInv, Matches
<1>12. SeenInv(fresh', alarms', loaded')
  BY <1>5, <1>6, <1>8, <1>9 DEF SeenInv
<1>13. loaded' \in BOOLEAN /\ alive' \in BOOLEAN /\ late' \in BOOLEAN
  BY <1>6 DEF AlarmsInv
<1> QED BY <1>7, <1>10, <1>11, <1>12, <1>13 DEF AlarmsInv

LEMMA SiteSteps ==
  ASSUME AlarmsInv, A!Tick \/ A!Stop \/ A!Start
  PROVE  AlarmsInv'
<1>1. calls \in Seq(SUBSET {"answer", "timeout"}) /\ Len(calls) <= DirCalls
  BY DEF AlarmsInv, CallsInv
<1>2. DirCalls \in Nat
  BY AlarmsAssumption DEF A!SiteAlarmsAssumption
<1>3. PICK n \in Nat : n = Len(calls)
  BY <1>1, LenProperties
<1>4. /\ alarms' = alarms /\ overall' = overall /\ status' = status /\ alarmsSent' = {}
      /\ loaded' = loaded /\ known' = known /\ fresh' = fresh
  BY DEF A!Tick, A!Stop, A!Start
<1>5. alive' \in BOOLEAN /\ late' \in BOOLEAN
  BY DEF A!Tick, A!Stop, A!Start, AlarmsInv
<1>6. CallsInv(calls')
  <2>1. CASE A!Tick
    <3>1. PICK c : c = {IF alive THEN "answer" ELSE "timeout"}
      OBVIOUS
    <3>2. calls' = Append(calls, c) /\ n < DirCalls
      BY <1>3, <2>1, <3>1, Zenon DEF A!Tick
    <3>3. c \in SUBSET {"answer", "timeout"}
      BY <3>1
    <3>4. Append(calls, c) \in Seq(SUBSET {"answer", "timeout"}) /\ Len(Append(calls, c)) = Len(calls) + 1
      BY <1>1, <3>3, AppendProperties
    <3>5. n + 1 <= DirCalls
      BY <1>2, <3>2
    <3> QED BY <1>3, <3>2, <3>4, <3>5, Zenon DEF CallsInv
  <2>2. CASE A!Stop
    <3>1. calls' = [i \in 1 .. n |-> calls[i] \cup {"timeout"}]
      BY <1>3, <2>2, Zenon DEF A!Stop
    <3>2. \A i \in 1 .. n : calls[i] \cup {"timeout"} \in SUBSET {"answer", "timeout"}
      <4> SUFFICES ASSUME NEW i \in 1 .. n
                   PROVE  calls[i] \cup {"timeout"} \in SUBSET {"answer", "timeout"}
        OBVIOUS
      <4>1. calls[i] \in SUBSET {"answer", "timeout"}
        BY <1>1, <1>3, ElementOfSeq
      <4> QED BY <4>1
    <3>3. PICK w : w = calls'
      OBVIOUS
    <3>4. w \in [1 .. n -> SUBSET {"answer", "timeout"}]
      BY <3>1, <3>2, <3>3
    <3>5. w \in Seq(SUBSET {"answer", "timeout"}) /\ Len(w) = n
      BY <3>4, SeqDef
    <3> QED BY <1>1, <1>3, <3>3, <3>5, Zenon DEF CallsInv
  <2>3. CASE A!Start
    <3>1. calls' = calls
      BY <2>3 DEF A!Start
    <3> QED BY <1>1, <3>1 DEF CallsInv
  <2> QED BY <2>1, <2>2, <2>3
<1> QED BY <1>4, <1>5, <1>6 DEF AlarmsInv, Signalled

LEMMA AlarmsInvStep == AlarmsInv /\ [MCNext]_allVars => AlarmsInv'
<1>1. ASSUME AlarmsInv, A!Next PROVE AlarmsInv'
  <2>1. CASE A!SomeValue
    BY <1>1, <2>1, ValueStep DEF A!SomeValue
  <2>2. CASE A!Load
    BY <1>1, <2>2, LoadStep
  <2>3. CASE \E i \in 1 .. DirCalls : A!DirResult(i)
    BY <1>1, <2>3, DirResultStep
  <2>4. CASE A!Tick \/ A!Stop \/ A!Start
    BY <1>1, <2>4, SiteSteps
  <2> QED BY <1>1, <2>1, <2>2, <2>3, <2>4 DEF A!Next
<1>2. ASSUME AlarmsInv, UNCHANGED aVars PROVE AlarmsInv'
  <2>1. /\ alarms' = alarms /\ overall' = overall /\ status' = status /\ loaded' = loaded
        /\ calls' = calls /\ alive' = alive /\ late' = late /\ known' = known
        /\ alarmsSent' = alarmsSent /\ fresh' = fresh
    BY <1>2 DEF aVars
  <2> QED BY <1>2, <2>1 DEF AlarmsInv
<1>3. MCNext => A!Next \/ UNCHANGED aVars
  BY DEF MCNext
<1> QED BY <1>1, <1>2, <1>3 DEF allVars

(* The table of alarms tells the truth, for any properties and alarms of   *)
(* them and however values, the type info, dir calls that time out or are  *)
(* answered late, and stops of the site are interleaved.                   *)
THEOREM AlarmsTold == MCSpec => []AlarmsTrue
<1>1. MCInit => AlarmsInv
  BY InitAlarmsInv DEF MCInit
<1> QED BY <1>1, AlarmsInvStep, AlarmsInvTrue, PTL DEF MCSpec

-----------------------------------------------------------------------------
(* The signal alarmmod.  A step from one node state to another keeps the   *)
(* signals, and sends alarmmod unless the list holds the same.             *)
Modified(st, new) ==
  /\ st.sent \subseteq new.sent
  /\ "alarmmod" \in new.sent \/ A!ToSet(new.alarms) = A!ToSet(st.alarms)

LEMMA OnlineModified ==
  ASSUME NEW st, NodeTrue(st)
  PROVE  Modified(st, A!Online(st))
<1>1. CASE st.status = "Online"
  <2>1. A!Online(st) = st
    BY <1>1, Zenon DEF A!Online
  <2> QED BY <2>1, Zenon DEF Modified
<1>2. CASE st.status # "Online"
  <2>1. st \in NodeStates
    BY DEF NodeTrue
  <2>2. PICK as : as = A!Without(st.alarms, {OfflineKey})
    OBVIOUS
  <2>3. PICK out : out = st.sent \cup {"onlinestatuschng"} \cup
                           (IF OfflineKey \in A!Listed(st.alarms) THEN {"alarmmod"} ELSE {})
    OBVIOUS
  <2>4. PICK new : new = A!Online(st)
    OBVIOUS
  <2>5. new = [st EXCEPT !.alarms = as, !.status = "Online", !.sent = out]
    BY <1>2, <2>2, <2>3, <2>4, Zenon DEF A!Online
  <2>6. new.alarms = as /\ new.sent = out
    BY <2>1, <2>5 DEF NodeStates
  <2>7. CASE OfflineKey \in A!Listed(st.alarms)
    <3>1. st.sent \subseteq out /\ "alarmmod" \in out
      BY <2>3, <2>7
    <3> QED BY <2>4, <2>6, <3>1, Zenon DEF Modified
  <2>8. CASE OfflineKey \notin A!Listed(st.alarms)
    <3>1. PICK al \in Seq(A!Alarm) : al = st.alarms
      BY <2>1, NodeParts DEF AlarmLists
    <3>2. PICK I : I = {i \in 1 .. Len(al) : al[i].alarm \notin {OfflineKey}}
      OBVIOUS
    <3>3. I = 1 .. Len(al)
      <4>1. ASSUME NEW i \in 1 .. Len(al) PROVE al[i].alarm # OfflineKey
        <5>1. ~NamedIn(al, 1 .. Len(al), OfflineKey)
          BY <2>8, <3>1, ListedAt, Zenon
        <5> QED BY <5>1, Zenon DEF NamedIn
      <4> QED BY <3>2, <4>1
    <3>4. as = A!Picked(al, I) /\ I \in SUBSET (1 .. Len(al))
      BY <2>2, <3>1, <3>2, <3>3, Zenon DEF A!Without
    <3>5. as \in Seq(A!Alarm) /\ Picks(as, al, I)
      BY <3>4, PickedFacts
    <3>6. PICK pos : PicksAt(pos, as, al, I)
      BY <3>5, Zenon DEF Picks
    <3>7. DOMAIN as = 1 .. Len(as) /\ DOMAIN al = 1 .. Len(al)
      BY <3>5, LenProperties
    <3>8. ASSUME NEW x, x \in A!ToSet(as) PROVE x \in A!ToSet(al)
      <4>1. PICK k \in 1 .. Len(as) : x = as[k]
        BY <3>7, <3>8, Zenon DEF A!ToSet
      <4>2. pos[k] \in 1 .. Len(al) /\ x = al[pos[k]]
        BY <3>3, <3>6, <4>1 DEF PicksAt
      <4> QED BY <3>7, <4>2, Zenon DEF A!ToSet
    <3>9. ASSUME NEW x, x \in A!ToSet(al) PROVE x \in A!ToSet(as)
      <4>1. PICK i \in 1 .. Len(al) : x = al[i]
        BY <3>7, <3>9, Zenon DEF A!ToSet
      <4>2. PICK k \in 1 .. Len(as) : pos[k] = i
        BY <3>3, <3>6, Zenon DEF PicksAt
      <4>3. as[k] = x
        BY <3>6, <4>1, <4>2, Zenon DEF PicksAt
      <4> QED BY <3>7, <4>3, Zenon DEF A!ToSet
    <3>10. A!ToSet(as) = A!ToSet(al)
      BY <3>8, <3>9
    <3>11. st.sent \subseteq out
      BY <2>3
    <3> QED BY <2>4, <2>6, <3>1, <3>10, <3>11, Zenon DEF Modified
  <2> QED BY <2>7, <2>8
<1> QED BY <1>1, <1>2

LEMMA OfflineModified ==
  ASSUME NEW st, NodeTrue(st)
  PROVE  Modified(st, A!Offline(st))
<1>1. CASE st.status = "Offline"
  <2>1. A!Offline(st) = st
    BY <1>1, Zenon DEF A!Offline
  <2> QED BY <2>1, Zenon DEF Modified
<1>2. CASE st.status # "Offline"
  <2>1. st \in NodeStates
    BY DEF NodeTrue
  <2>2. PICK as : as = Append(Staled(st.alarms), [alarm |-> OfflineKey, stale |-> FALSE])
    OBVIOUS
  <2>3. PICK out : out = st.sent \cup {"onlinestatuschng", "alarmmod"}
    OBVIOUS
  <2>4. PICK new : new = A!Offline(st)
    OBVIOUS
  <2>5. new = [st EXCEPT !.alarms = as, !.status = "Offline", !.sent = out]
    BY <1>2, <2>2, <2>3, <2>4, Zenon DEF A!Offline, Staled
  <2>6. new.sent = out
    BY <2>1, <2>5 DEF NodeStates
  <2>7. st.sent \subseteq out /\ "alarmmod" \in out
    BY <2>3
  <2> QED BY <2>4, <2>6, <2>7, Zenon DEF Modified
<1> QED BY <1>1, <1>2

LEMMA UpdateModified ==
  ASSUME NEW st, NodeTrue(st), NEW p \in A!Props, NEW active \in A!Values(p)
  PROVE  Modified(st, A!Update(st, p, active))
<1>1. PICK changed : changed = A!Changed(st, p, active)
  OBVIOUS
<1>2. st \in NodeStates
  BY DEF NodeTrue
<1>3. PICK old : old = A!Refreshed(st.alarms, active)
  OBVIOUS
<1>4. PICK mod : mod = IF changed # {} \/ active \cap A!Stale(st.alarms) # {} THEN {"alarmmod"} ELSE {}
  OBVIOUS
<1>5. PICK new : new = A!Update(st, p, active)
  OBVIOUS
<1>6. st.sent \cup mod \subseteq new.sent
  <2>1. CASE changed = {}
    <3>1. PICK out : out = st.sent \cup mod
      OBVIOUS
    <3>2. new = [st EXCEPT !.alarms = old, !.sent = out]
      BY <1>1, <1>3, <1>4, <1>5, <2>1, <3>1, Zenon DEF A!Update
    <3> QED BY <1>2, <3>1, <3>2 DEF NodeStates
  <2>2. CASE changed # {}
    <3>1. PICK as : as = A!Sorted[A!Updated(old, p, changed, active)]
      OBVIOUS
    <3>2. PICK worst : worst = A!Worst(as)
      OBVIOUS
    <3>3. PICK out : out = st.sent \cup mod \cup (IF worst # st.overall THEN {"overall"} ELSE {})
      OBVIOUS
    <3>4. new = [st EXCEPT !.alarms = as, !.overall = worst, !.sent = out]
      BY <1>1, <1>3, <1>4, <1>5, <2>2, <3>1, <3>2, <3>3, Zenon DEF A!Update
    <3>5. st.sent \cup mod \subseteq out
      BY <3>3
    <3> QED BY <1>2, <3>4, <3>5 DEF NodeStates
  <2> QED BY <2>1, <2>2
<1>7. CASE mod = {"alarmmod"}
  <2>1. st.sent \subseteq new.sent /\ "alarmmod" \in new.sent
    BY <1>6, <1>7
  <2> QED BY <1>5, <2>1, Zenon DEF Modified
<1>8. CASE changed = {} /\ active \cap A!Stale(st.alarms) = {}
  <2>1. PICK out : out = st.sent \cup mod
    OBVIOUS
  <2>2. new = [st EXCEPT !.alarms = old, !.sent = out]
    BY <1>1, <1>3, <1>4, <1>5, <1>8, <2>1, Zenon DEF A!Update
  <2>3. new.alarms = old
    BY <1>2, <2>2 DEF NodeStates
  <2>4. PICK al \in Seq(A!Alarm) : al = st.alarms
    BY <1>2, NodeParts DEF AlarmLists
  <2>5. PICK n \in Nat : n = Len(al) /\ DOMAIN al = 1 .. n
    BY LenProperties
  <2>6. old = [i \in 1 .. n |-> [al[i] EXCEPT !.stale = al[i].stale /\ al[i].alarm \notin active]]
    BY <1>3, <2>4, <2>5, Zenon DEF A!Refreshed
  <2>7. ASSUME NEW i \in 1 .. n PROVE old[i] = al[i]
    <3>1. PICK b : b = (al[i].stale /\ al[i].alarm \notin active)
      OBVIOUS
    <3>2. old[i] = [al[i] EXCEPT !.stale = b]
      BY <2>6, <3>1, Zenon
    <3>3. al[i] \in A!Alarm
      BY <2>5, ElementOfSeq
    <3>4. al[i] \in [alarm : A!Names \cup {OfflineKey}, stale : BOOLEAN]
      BY <3>3 DEF A!Alarm
    <3>5. al[i].stale => al[i].alarm \notin active
      <4>1. ASSUME al[i].stale PROVE al[i].alarm \in A!Stale(al)
        <5>1. StaleIn(al, 1 .. Len(al), al[i].alarm)
          BY <2>5, <4>1, Zenon DEF StaleIn
        <5> QED BY <5>1, StaleAt, Zenon
      <4> QED BY <1>8, <2>4, <4>1
    <3>6. al[i].stale \in BOOLEAN
      BY <3>4
    <3>7. b = al[i].stale
      BY <3>1, <3>5, <3>6, Zenon
    <3>8. [al[i] EXCEPT !.stale = al[i].stale] = al[i]
      BY <3>4
    <3> QED BY <3>2, <3>7, <3>8, Zenon
  <2>8. DOMAIN old = 1 .. n
    BY <2>6
  <2>9. A!ToSet(old) = A!ToSet(al)
    BY <2>5, <2>7, <2>8 DEF A!ToSet
  <2>10. st.sent \subseteq new.sent
    BY <1>6
  <2> QED BY <1>5, <2>3, <2>4, <2>9, <2>10, Zenon DEF Modified
<1> QED BY <1>4, <1>7, <1>8

LEMMA LoadedModified ==
  ASSUME Known(known), NEW st, NodeTrue(st)
  PROVE  Modified(st, A!FoldLeft(A!Replay, st, SiteProperties))
<1>1. SiteProperties \in Seq(A!Props)
  BY AlarmsAssumption DEF A!SiteAlarmsAssumption
<1>2. PICK n \in Nat : n = Len(SiteProperties)
  BY <1>1, LenProperties
<1>3. st \in TrueNodes
  BY DEF TrueNodes, NodeTrue
<1>4. PICK r : /\ r[0] = st
               /\ \A k \in 1 .. n : r[k] = A!Replay(r[k - 1], SiteProperties[k])
               /\ A!FoldLeft(A!Replay, st, SiteProperties) = r[n]
  <2>1. \E r : /\ r[0] = st
               /\ \A k \in 1 .. Len(SiteProperties) : r[k] = A!Replay(r[k - 1], SiteProperties[k])
               /\ A!FoldLeft(A!Replay, st, SiteProperties) = r[Len(SiteProperties)]
    BY <1>1, <1>3, ReplaySteps, Zenon
  <2> QED BY <1>2, <2>1, Zenon
<1> DEFINE Good(k) == r[k] \in TrueNodes /\ Modified(st, r[k])
<1>5. Good(0)
  BY <1>3, <1>4, Zenon DEF Modified
<1>6. ASSUME NEW k \in 1 .. n, Good(k - 1) PROVE Good(k)
  <2>1. PICK b : b = r[k - 1]
    OBVIOUS
  <2>2. PICK p \in A!Props : p = SiteProperties[k]
    BY <1>1, <1>2, ElementOfSeq
  <2>3. b \in TrueNodes /\ NodeTrue(b) /\ Modified(st, b)
    BY <1>6, <2>1 DEF TrueNodes
  <2>4. PICK new : new = A!Replay(b, p)
    OBVIOUS
  <2>5. r[k] = new
    BY <1>4, <2>1, <2>2, <2>4, Zenon
  <2>6. new \in TrueNodes
    BY <2>3, <2>4, ReplayTrue
  <2>7. CASE known[p] = A!None
    <3>1. new = b
      BY <2>4, <2>7, Zenon DEF A!Replay
    <3> QED BY <2>3, <2>5, <2>6, <3>1, Zenon
  <2>8. CASE known[p] # A!None
    <3>1. PICK active \in A!Values(p) : active = known[p]
      BY <2>8 DEF Known
    <3>2. new = A!Update(b, p, active)
      BY <2>4, <2>8, <3>1, Zenon DEF A!Replay
    <3>3. Modified(b, new)
      BY <2>3, <3>2, UpdateModified, Zenon
    <3>4. Modified(st, new)
      BY <2>3, <3>3 DEF Modified
    <3> QED BY <2>5, <2>6, <3>4, Zenon
  <2> QED BY <2>7, <2>8
<1>7. Good(n)
  <2> DEFINE Below == {k \in Nat : k <= n => Good(k)}
  <2>1. 0 \in Below
    BY <1>5
  <2>2. ASSUME NEW k \in Nat, k \in Below PROVE k + 1 \in Below
    <3>1. CASE k + 1 <= n
      <4>1. k + 1 \in 1 .. n /\ (k + 1) - 1 = k /\ k + 1 \in Nat /\ k <= n
        BY <3>1
      <4>2. Good((k + 1) - 1)
        BY <2>2, <4>1, Zenon
      <4> HIDE DEF Good
      <4>3. Good(k + 1)
        BY <1>6, <4>1, <4>2, Zenon
      <4> QED BY <4>1, <4>3, Zenon
    <3>2. CASE ~(k + 1 <= n)
      BY <3>2
    <3> QED BY <3>1, <3>2
  <2> HIDE DEF Below
  <2>3. Nat \subseteq Below
    BY <2>1, <2>2, NatInSet, Zenon
  <2>4. n \in Below
    BY <2>3
  <2>5. n <= n
    OBVIOUS
  <2> QED BY <2>4, <2>5, Zenon DEF Below
<1> QED BY <1>4, <1>7, Zenon

LEMMA BecomesModified ==
  ASSUME AlarmsInv, NEW st, Modified(A!NodeState, st), alarms' = st.alarms, alarmsSent' = st.sent,
         A!ToSet(alarms') # A!ToSet(alarms)
  PROVE  "alarmmod" \in alarmsSent'
<1>1. A!NodeState.alarms = alarms
  BY NodeNow
<1> QED BY <1>1, Zenon DEF Modified

LEMMA StepModified ==
  ASSUME AlarmsInv, A!Next, A!ToSet(alarms') # A!ToSet(alarms)
  PROVE  "alarmmod" \in alarmsSent'
<1>1. PICK n : n = A!NodeState
  OBVIOUS
<1>2. NodeTrue(n)
  BY <1>1, NodeNow
<1>3. ASSUME NEW p \in A!Props, NEW active \in A!Values(p), A!Value(p, active)
      PROVE  "alarmmod" \in alarmsSent'
  <2>1. PICK on : on = A!Online(n)
    OBVIOUS
  <2>2. PICK st : /\ st = (IF loaded THEN A!Update(on, p, active) ELSE on)
                  /\ alarms' = st.alarms /\ alarmsSent' = st.sent
    BY <1>1, <1>3, <2>1, Zenon DEF A!Value
  <2>3. NodeTrue(on) /\ Modified(n, on)
    BY <1>2, <2>1, OnlineFacts, OnlineModified
  <2>4. CASE loaded
    <3>1. PICK new : new = A!Update(on, p, active)
      OBVIOUS
    <3>2. Modified(on, new)
      BY <2>3, <3>1, UpdateModified
    <3>3. Modified(n, new)
      BY <2>3, <3>2 DEF Modified
    <3>4. st = new
      BY <2>2, <2>4, <3>1, Zenon
    <3> QED BY <1>1, <2>2, <3>3, <3>4, BecomesModified, Zenon
  <2>5. CASE ~loaded
    <3>1. st = on
      BY <2>2, <2>5, Zenon
    <3> QED BY <1>1, <2>2, <2>3, <3>1, BecomesModified, Zenon
  <2> QED BY <2>4, <2>5
<1>4. CASE A!Load
  <2>1. PICK st : st = A!FoldLeft(A!Replay, n, SiteProperties)
    OBVIOUS
  <2>2. alarms' = st.alarms /\ alarmsSent' = st.sent
    BY <1>1, <1>4, <2>1, Zenon DEF A!Load, A!Becomes
  <2>3. Known(known)
    BY DEF AlarmsInv, LogInv
  <2>4. Modified(n, st)
    BY <1>2, <2>1, <2>3, LoadedModified
  <2> QED BY <1>1, <2>2, <2>4, BecomesModified, Zenon
<1>5. CASE \E i \in 1 .. DirCalls : A!DirResult(i)
  <2>1. PICK outcome : A!Becomes(A!Result(outcome))
    BY <1>5, Zenon DEF A!DirResult
  <2>2. PICK st : st = A!Result(outcome)
    OBVIOUS
  <2>3. alarms' = st.alarms /\ alarmsSent' = st.sent
    BY <2>1, <2>2, Zenon DEF A!Becomes
  <2>4. st = A!Offline(n) \/ st = A!Online(n)
    BY <1>1, <2>2, Zenon DEF A!Result
  <2>5. Modified(n, st)
    BY <1>2, <2>4, OnlineModified, OfflineModified
  <2> QED BY <1>1, <2>3, <2>5, BecomesModified, Zenon
<1>6. CASE A!Tick \/ A!Stop \/ A!Start
  BY <1>6 DEF A!Tick, A!Stop, A!Start
<1> QED BY <1>3, <1>4, <1>5, <1>6 DEF A!Next, A!SomeValue

(* No client misses a change of the table of alarms: whatever changes it,  *)
(* a value, the type info, an outage or its end, alarmmod is sent with it, *)
(* and also when an alarm that stays goes or ceases to be stale.           *)
THEOREM AlarmModTold == MCSpec => A!AlarmModSent
<1> DEFINE Sent == A!ToSet(alarms') # A!ToSet(alarms) => "alarmmod" \in alarmsSent'
<1>1. MCInit => AlarmsInv
  BY InitAlarmsInv DEF MCInit
<1>2. AlarmsInv /\ [MCNext]_allVars => AlarmsInv'
  BY AlarmsInvStep
<1>3. ASSUME AlarmsInv, [MCNext]_allVars PROVE Sent
  <2>1. CASE A!Next
    BY <1>3, <2>1, StepModified
  <2>2. CASE UNCHANGED aVars
    BY <2>2 DEF aVars
  <2> QED BY <1>3, <2>1, <2>2 DEF MCNext, allVars
<1> HIDE DEF Sent
<1>4. AlarmsInv /\ [MCNext]_allVars => [Sent]_(A!vars)
  BY <1>3
<1>5. MCSpec => [][Sent]_(A!vars)
  BY <1>1, <1>2, <1>4, PTL DEF MCSpec
<1> QED BY <1>5 DEF A!AlarmModSent, Sent

-----------------------------------------------------------------------------
(* SitesTree.                                                              *)

Words == Seq(STRING)

LEMMA PrefixAt ==
  ASSUME NEW p \in Words, NEW q \in Words
  PROVE  T!IsPrefix(p, q) <=> Len(p) <= Len(q) /\ \A i \in 1 .. Len(p) : p[i] = q[i]
<1>1. PICK n \in Nat : n = Len(p) /\ DOMAIN p = 1 .. n
  BY DEF Words
<1>2. PICK m \in Nat : m = Len(q) /\ DOMAIN q = 1 .. m
  BY DEF Words
<1>3. CASE n <= m
  <2>1. PICK h : h = SubSeq(q, 1, n)
    OBVIOUS
  <2>2. /\ h \in Seq(STRING) /\ Len(h) = n
        /\ \A i \in 1 .. n : h[i] = q[i]
    <3>1. \A i \in 1 .. n : q[i] \in STRING
      BY <1>2, <1>3 DEF Words
    <3>2. /\ SubSeq(q, 1, n) \in Seq(STRING)
          /\ Len(SubSeq(q, 1, n)) = IF 1 <= n THEN n - 1 + 1 ELSE 0
          /\ \A i \in 1 .. n - 1 + 1 : SubSeq(q, 1, n)[i] = q[1 + i - 1]
      <4>1. 1 \in Int /\ n \in Int
        OBVIOUS
      <4> QED BY <3>1, <4>1, SubSeqProperties
    <3> QED BY <2>1, <3>2
  <2>3. h = p <=> \A i \in 1 .. n : p[i] = q[i]
    <3>1. ASSUME \A i \in 1 .. n : p[i] = q[i] PROVE h = p
      <4>1. Len(h) = Len(p) /\ \A i \in 1 .. Len(h) : h[i] = p[i]
        BY <1>1, <2>2, <3>1
      <4> QED BY <2>2, <4>1, SeqEqual DEF Words
    <3>2. ASSUME h = p PROVE \A i \in 1 .. n : p[i] = q[i]
      BY <2>2, <3>2
    <3> QED BY <3>1, <3>2
  <2> QED BY <1>1, <1>2, <1>3, <2>1, <2>3 DEF T!IsPrefix
<1>4. CASE n > m
  BY <1>1, <1>2, <1>4 DEF T!IsPrefix
<1> QED BY <1>3, <1>4

LEMMA JoinedAt ==
  ASSUME NEW p \in Words, NEW q \in Words
  PROVE  /\ p \o q \in Words /\ Len(p \o q) = Len(p) + Len(q)
         /\ \A i \in 1 .. Len(p) : (p \o q)[i] = p[i]
         /\ \A i \in 1 .. Len(q) : (p \o q)[Len(p) + i] = q[i]
<1>1. PICK n \in Nat : n = Len(p)
  BY DEF Words
<1>2. PICK m \in Nat : m = Len(q)
  BY DEF Words
<1>3. /\ p \o q \in Seq(STRING) /\ Len(p \o q) = n + m
      /\ \A i \in 1 .. n + m : (p \o q)[i] = IF i <= n THEN p[i] ELSE q[i - n]
  BY <1>1, <1>2, ConcatProperties DEF Words
<1>4. \A i \in 1 .. n : (p \o q)[i] = p[i]
  BY <1>3
<1>5. \A i \in 1 .. m : (p \o q)[n + i] = q[i]
  <2> SUFFICES ASSUME NEW i \in 1 .. m PROVE (p \o q)[n + i] = q[i]
    OBVIOUS
  <2>1. n + i \in 1 .. n + m /\ ~(n + i <= n) /\ n + i - n = i
    OBVIOUS
  <2> QED BY <1>3, <2>1
<1> QED BY <1>1, <1>2, <1>3, <1>4, <1>5 DEF Words

LEMMA RestAt ==
  ASSUME NEW p \in Words, NEW q \in Words, T!IsPrefix(p, q)
  PROVE  /\ SubSeq(q, Len(p) + 1, Len(q)) \in Words
         /\ p \o SubSeq(q, Len(p) + 1, Len(q)) = q
<1>1. PICK n \in Nat : n = Len(p)
  BY DEF Words
<1>2. PICK m \in Nat : m = Len(q)
  BY DEF Words
<1>3. n <= m /\ \A i \in 1 .. n : p[i] = q[i]
  BY <1>1, <1>2, PrefixAt
<1>4. PICK r : r = SubSeq(q, n + 1, m)
  OBVIOUS
<1>5. r \in Words /\ Len(r) = m - n /\ \A i \in 1 .. m - n : r[i] = q[n + i]
  <2>1. \A i \in n + 1 .. m : q[i] \in STRING
    BY <1>2 DEF Words
  <2>2. /\ SubSeq(q, n + 1, m) \in Seq(STRING)
        /\ Len(SubSeq(q, n + 1, m)) = IF n + 1 <= m THEN m - (n + 1) + 1 ELSE 0
        /\ \A i \in 1 .. m - (n + 1) + 1 : SubSeq(q, n + 1, m)[i] = q[n + 1 + i - 1]
    <3>1. n + 1 \in Int /\ m \in Int
      OBVIOUS
    <3> QED BY <2>1, <3>1, SubSeqProperties
  <2>3. \A i \in 1 .. m - n : i \in 1 .. m - (n + 1) + 1 /\ n + 1 + i - 1 = n + i
    OBVIOUS
  <2> QED BY <1>3, <1>4, <2>2, <2>3 DEF Words
<1>6. /\ p \o r \in Words /\ Len(p \o r) = m
      /\ \A i \in 1 .. n : (p \o r)[i] = p[i]
      /\ \A i \in 1 .. m - n : (p \o r)[n + i] = r[i]
  BY <1>1, <1>3, <1>5, JoinedAt
<1>7. ASSUME NEW i \in 1 .. m PROVE (p \o r)[i] = q[i]
  <2>1. CASE i <= n
    BY <1>3, <1>6, <2>1
  <2>2. CASE i > n
    <3>1. PICK k \in 1 .. m - n : i = n + k
      <4>1. i - n \in 1 .. m - n /\ i = n + (i - n)
        BY <2>2
      <4> QED BY <4>1
    <3> QED BY <1>5, <1>6, <3>1
  <2>3. i <= n \/ i > n
    OBVIOUS
  <2> QED BY <2>1, <2>2, <2>3, Zenon
<1>8. p \o r = q
  BY <1>2, <1>6, <1>7, SeqEqual DEF Words
<1> QED BY <1>1, <1>2, <1>4, <1>5, <1>8

LEMMA PrefixFacts ==
  ASSUME NEW p \in Words, NEW q \in Words
  PROVE  /\ T!IsPrefix(p, p \o q) /\ (q # <<>> => p \o q # p)
         /\ \A r \in Words : T!IsPrefix(p, r) /\ T!IsPrefix(q, r) =>
              T!IsPrefix(p, q) \/ T!IsPrefix(q, p)
<1>1. T!IsPrefix(p, p \o q)
  <2>1. PICK r \in Words : r = p \o q
    BY JoinedAt
  <2>2. Len(p) \in Nat /\ Len(q) \in Nat
    BY DEF Words
  <2>3. Len(p) <= Len(r) /\ \A i \in 1 .. Len(p) : p[i] = r[i]
    BY <2>1, <2>2, JoinedAt
  <2> QED BY <2>1, <2>3, PrefixAt
<1>2. ASSUME q # <<>> PROVE p \o q # p
  <2>1. Len(p) \in Nat /\ Len(q) \in Nat /\ Len(q) # 0
    BY <1>2, EmptySeq DEF Words
  <2>2. Len(p \o q) = Len(p) + Len(q)
    BY JoinedAt
  <2> QED BY <2>1, <2>2
<1>3. ASSUME NEW r \in Words, T!IsPrefix(p, r), T!IsPrefix(q, r)
      PROVE  T!IsPrefix(p, q) \/ T!IsPrefix(q, p)
  <2>1. Len(p) \in Nat /\ Len(q) \in Nat
    BY DEF Words
  <2>2. /\ \A i \in 1 .. Len(p) : p[i] = r[i]
        /\ \A i \in 1 .. Len(q) : q[i] = r[i]
    BY <1>3, PrefixAt
  <2>3. CASE Len(p) <= Len(q)
    <3>1. \A i \in 1 .. Len(p) : p[i] = q[i]
      BY <2>1, <2>2, <2>3
    <3> QED BY <2>3, <3>1, PrefixAt
  <2>4. CASE Len(q) <= Len(p)
    <3>1. \A i \in 1 .. Len(q) : q[i] = p[i]
      BY <2>1, <2>2, <2>4
    <3> QED BY <2>4, <3>1, PrefixAt
  <2> QED BY <2>1, <2>3, <2>4
<1> QED BY <1>1, <1>2, <1>3

LEMMA NodesAreWords == T!HpNodes \subseteq Words /\ T!SiteNodes \subseteq T!HpNodes /\ T!Slaves \subseteq T!HpNodes
<1>1. TreePaths \subseteq Words
  BY LogsAssumption DEF T!SitesTreeAssumption, Words
<1> QED BY <1>1 DEF T!HpNodes, T!SiteNodes, T!Slaves

LEMMA LongestFound ==
  ASSUME NEW s \in T!SiteNodes, NEW path \in Words, T!IsPrefix(s, path)
  PROVE  T!LongestPrefix(path) # {}
<1>1. PICK n \in Nat : n = Len(path)
  BY DEF Words
<1>2. PICK D : D = {t \in T!SiteNodes : T!IsPrefix(t, path)}
  OBVIOUS
<1>3. ASSUME NEW t \in D PROVE Len(t) \in 0 .. n
  <2>1. t \in Words
    BY <1>2, NodesAreWords
  <2>2. Len(t) \in Nat
    BY <2>1 DEF Words
  <2>3. Len(t) <= n
    BY <1>1, <1>2, <2>1, PrefixAt
  <2> QED BY <2>2, <2>3
<1>4. PICK lens : lens = {Len(t) : t \in D}
  OBVIOUS
<1>5. lens \in SUBSET (0 .. n) /\ lens # {}
  BY <1>2, <1>3, <1>4
<1>6. PICK l \in lens : \A k \in lens : k <= l
  BY <1>5, NatGreatest
<1>7. PICK t \in D : l = Len(t)
  BY <1>4, <1>6
<1>8. \A u \in D : Len(u) <= Len(t)
  BY <1>4, <1>6, <1>7
<1>9. t \in T!LongestPrefix(path)
  BY <1>2, <1>7, <1>8 DEF T!LongestPrefix
<1> QED BY <1>9

(* What is in the dirty logs and in the directories, and whose it is.      *)
DirtyRight(d) ==
  \E path \in Words : \E s \in T!LongestPrefix(path) :
    d = [dir |-> s, rel |-> SubSeq(path, Len(s) + 1, Len(path)), path |-> path]

FileRight(f) ==
  \E slave \in T!Slaves, s \in T!SiteNodes :
    T!IsPrefix(slave, s) /\ f = [dir |-> s, by |-> slave, of |-> s]

TreeInv ==
  /\ kind \in [TreePaths -> T!Kinds]
  /\ \A d \in dirty : DirtyRight(d)
  /\ \A f \in slaveFiles : FileRight(f)

LEMMA InitTreeInv == ASSUME T!Init PROVE TreeInv
  BY DEF T!Init, TreeInv

(* A path of a value below a subscribed slave has an owner: the path is no *)
(* slave itself, for there is a site above it.                             *)
LEMMA OwnerFound ==
  ASSUME NEW s \in T!SiteNodes, NEW p \in TreeProperties \ {<<>>},
         NEW sub \in T!Subscribed, T!IsPrefix(sub, s)
  PROVE  T!Owners(s \o p) # {}
<1>1. p \in Words /\ s \in Words /\ sub \in Words /\ sub \in T!Slaves
  BY NodesAreWords, LogsAssumption DEF T!SitesTreeAssumption, Words, T!Subscribed
<1>2. PICK path \in Words : path = s \o p
  BY <1>1, JoinedAt
<1>3. T!IsPrefix(s, path) /\ path # s
  BY <1>1, <1>2, PrefixFacts
<1>4. T!IsPrefix(sub, path)
  <2>1. Len(sub) \in Nat /\ Len(s) \in Nat /\ Len(path) \in Nat
    BY <1>1 DEF Words
  <2>2. Len(sub) <= Len(s) /\ \A i \in 1 .. Len(sub) : sub[i] = s[i]
    BY <1>1, PrefixAt
  <2>3. Len(s) <= Len(path) /\ \A i \in 1 .. Len(s) : s[i] = path[i]
    BY <1>1, <1>3, PrefixAt
  <2>4. Len(sub) <= Len(path) /\ \A i \in 1 .. Len(sub) : sub[i] = path[i]
    BY <2>1, <2>2, <2>3
  <2> QED BY <1>1, <2>4, PrefixAt
<1>5. T!StartsWith(path, sub)
  BY <1>4 DEF T!StartsWith
<1>6. path \notin T!Slaves
  <2>1. s \in T!HpNodes
    BY NodesAreWords
  <2> QED BY <1>3, <2>1 DEF T!Slaves
<1>7. T!LongestPrefix(path) # {}
  BY <1>3, LongestFound
<1>8. T!Owners(path) = T!LongestPrefix(path)
  <2>1. sub \in {x \in T!Slaves : T!StartsWith(path, x)} /\ sub # path
    BY <1>1, <1>5, <1>6
  <2>2. {x \in T!Slaves : T!StartsWith(path, x)} \notin {{}, {path}}
    BY <2>1
  <2> QED BY <2>2, Zenon DEF T!Owners
<1> QED BY <1>2, <1>7, <1>8

LEMMA TreeInvTrue == ASSUME TreeInv PROVE T!TypeOK /\ T!OneHome
<1>1. ASSUME NEW d \in dirty
      PROVE  /\ d.dir \in T!SiteNodes
             /\ d.path = d.dir \o d.rel
             /\ \A t \in T!SiteNodes : T!IsPrefix(t, d.path) => Len(t) <= Len(d.dir)
  <2>1. DirtyRight(d)
    BY DEF TreeInv
  <2>2. PICK path \in Words : \E s \in T!LongestPrefix(path) :
          d = [dir |-> s, rel |-> SubSeq(path, Len(s) + 1, Len(path)), path |-> path]
    BY <2>1 DEF DirtyRight
  <2>3. PICK s \in T!LongestPrefix(path) :
          d = [dir |-> s, rel |-> SubSeq(path, Len(s) + 1, Len(path)), path |-> path]
    BY <2>2
  <2>4. /\ s \in T!SiteNodes /\ T!IsPrefix(s, path)
        /\ \A t \in T!SiteNodes : T!IsPrefix(t, path) => Len(t) <= Len(s)
    BY DEF T!LongestPrefix
  <2>5. s \in Words
    BY <2>4, NodesAreWords
  <2>6. path = s \o SubSeq(path, Len(s) + 1, Len(path))
    BY <2>4, <2>5, RestAt
  <2> QED BY <2>3, <2>4, <2>6
<1>2. ASSUME NEW f \in slaveFiles
      PROVE  /\ f.by \in T!Slaves /\ f.of \in T!SiteNodes /\ T!IsPrefix(f.by, f.of)
             /\ f = [dir |-> f.of, by |-> f.by, of |-> f.of]
  BY DEF TreeInv, FileRight
<1>3. ASSUME NEW f \in slaveFiles, NEW g \in slaveFiles, f.of = g.of PROVE f = g
  <2>1. f.by \in Words /\ g.by \in Words /\ f.of \in Words /\ f.by \in T!HpNodes /\ g.by \in T!HpNodes
    BY <1>2, NodesAreWords
  <2>2. T!IsPrefix(f.by, g.by) \/ T!IsPrefix(g.by, f.by)
    BY <1>2, <1>3, <2>1, PrefixFacts
  <2>3. f.by = g.by
    BY <1>2, <2>1, <2>2 DEF T!Slaves
  <2> QED BY <1>2, <1>3, <2>3
<1>4. T!TypeOK
  BY <1>1, <1>2 DEF T!TypeOK, TreeInv
<1>5. ASSUME NEW d \in dirty
      PROVE  \E s \in T!SiteNodes : /\ d.dir = T!JournalCacheDir(s) /\ d.path = s \o d.rel
                                    /\ \A t \in T!SiteNodes : T!IsPrefix(t, d.path) => Len(t) <= Len(s)
  BY <1>1, Zenon DEF T!JournalCacheDir
<1>6. ASSUME NEW f \in slaveFiles PROVE f.dir = T!JournalCacheDir(f.of) /\ f.of \in T!SiteNodes
  BY <1>2 DEF T!JournalCacheDir
<1>7. T!OneHome
  BY <1>3, <1>5, <1>6, OwnerFound, Zenon DEF T!OneHome
<1> QED BY <1>4, <1>7

LEMMA TreeInvStep == ASSUME TreeInv, T!Next PROVE TreeInv'
<1>1. UNCHANGED kind
  BY DEF T!Next, T!Notification, T!SyncSlave
<1>2. /\ T!SiteNodes' = T!SiteNodes /\ T!Slaves' = T!Slaves
      /\ \A path : T!LongestPrefix(path)' = T!LongestPrefix(path)
  BY <1>1 DEF T!SiteNodes, T!Slaves, T!HpNodes, T!LongestPrefix
<1>3. \A x : DirtyRight(x)' <=> DirtyRight(x)
  BY <1>2 DEF DirtyRight
<1>4. \A x : FileRight(x)' <=> FileRight(x)
  BY <1>2 DEF FileRight
<1>5. CASE T!Notification
  <2>1. UNCHANGED slaveFiles
    BY <1>5 DEF T!Notification
  <2>2. PICK s \in T!SiteNodes, p \in TreeProperties : T!OnRpcMessageReceived(s \o p)
    BY <1>5 DEF T!Notification
  <2>3. s \in Words /\ p \in Words
    BY NodesAreWords, LogsAssumption DEF T!SitesTreeAssumption, Words
  <2>4. PICK path \in Words : path = s \o p
    BY <2>3, JoinedAt
  <2>5. PICK o \in T!Owners(path) :
          IF o = path THEN UNCHANGED dirty
          ELSE dirty' = dirty \cup {[dir |-> o, rel |-> SubSeq(path, Len(o) + 1, Len(path)), path |-> path]}
    BY <2>2, <2>4, Zenon DEF T!OnRpcMessageReceived
  <2>6. o \in T!LongestPrefix(path)
    BY DEF T!Owners
  <2>7. DirtyRight([dir |-> o, rel |-> SubSeq(path, Len(o) + 1, Len(path)), path |-> path])
    BY <2>6, Zenon DEF DirtyRight
  <2>8. \A d \in dirty' : DirtyRight(d)
    BY <2>5, <2>7 DEF TreeInv
  <2> QED BY <1>1, <1>3, <1>4, <2>1, <2>8 DEF TreeInv
<1>6. CASE T!SyncSlave
  <2>1. UNCHANGED dirty
    BY <1>6 DEF T!SyncSlave
  <2>2. PICK slave \in T!Slaves :
          slaveFiles' = slaveFiles \cup {[dir |-> slave \o j, by |-> slave, of |-> slave \o j] : j \in T!Journals(slave)}
    BY <1>6 DEF T!SyncSlave
  <2>3. slave \in Words
    BY NodesAreWords
  <2>4. ASSUME NEW j \in T!Journals(slave)
        PROVE  slave \o j \in T!SiteNodes /\ T!IsPrefix(slave, slave \o j)
    <3>1. CASE slave \in T!SiteNodes
      <4>1. j = <<>>
        BY <3>1 DEF T!Journals
      <4>2. slave \o <<>> = slave
        BY <2>3, ConcatEmptySeq DEF Words
      <4>3. <<>> \in Words
        BY DEF Words
      <4>4. T!IsPrefix(slave, slave \o <<>>)
        BY <2>3, <4>3, PrefixFacts
      <4> QED BY <3>1, <4>1, <4>2, <4>4
    <3>2. CASE slave \notin T!SiteNodes
      <4>1. PICK s \in T!SiteNodes : T!IsPrefix(slave, s) /\ j = SubSeq(s, Len(slave) + 1, Len(s))
        BY <3>2 DEF T!Journals
      <4>2. s \in Words
        BY NodesAreWords
      <4>3. slave \o j = s
        BY <2>3, <4>1, <4>2, RestAt
      <4> QED BY <4>1, <4>3
    <3> QED BY <3>1, <3>2
  <2>5. ASSUME NEW j \in T!Journals(slave)
        PROVE  FileRight([dir |-> slave \o j, by |-> slave, of |-> slave \o j])
    <3>1. PICK s \in T!SiteNodes : s = slave \o j /\ T!IsPrefix(slave, s)
      BY <2>4
    <3> QED BY <3>1, Zenon DEF FileRight
  <2>6. \A f \in slaveFiles' : FileRight(f)
    BY <2>2, <2>5 DEF TreeInv
  <2> QED BY <1>1, <1>3, <1>4, <2>1, <2>6 DEF TreeInv
<1> QED BY <1>5, <1>6 DEF T!Next

(***************************************************************************)
(* GetLog, for any paths, times and number of entries.                     *)
(***************************************************************************)
(* The last record of its path among those at the positions of I, and what *)
(* a record says of its path.                                              *)
IsLast(rs, I, i) == i \in I /\ \A j \in I : rs[j].path = rs[i].path => j <= i
Said(rs, i) == <<rs[i].path, rs[i].value>>

LEMMA InState ==
  ASSUME NEW rs, NEW I, NEW x
  PROVE  x \in G!State(rs, I) <=> \E i : IsLast(rs, I, i) /\ x = Said(rs, i)
  BY DEF G!State, IsLast, Said

LEMMA LastRecord ==
  ASSUME NEW rs, NEW n \in Nat, NEW I \in SUBSET (1 .. n), NEW k \in I
  PROVE  \E i : IsLast(rs, I, i) /\ rs[i].path = rs[k].path
<1>1. PICK s : s = {j \in I : rs[j].path = rs[k].path}
  OBVIOUS
<1>2. s \in SUBSET (0 .. n) /\ s # {}
  <2>1. k \in s /\ s \subseteq I
    BY <1>1
  <2>2. I \subseteq 0 .. n
    OBVIOUS
  <2> QED BY <2>1, <2>2
<1>3. PICK i \in s : \A j \in s : j <= i
  BY <1>2, NatGreatest
<1>4. i \in I /\ rs[i].path = rs[k].path
  BY <1>1
<1>5. \A j \in I : rs[j].path = rs[i].path => j <= i
  BY <1>1, <1>3, <1>4
<1> QED BY <1>4, <1>5 DEF IsLast

(* Records that others of the same path follow say nothing of the state.   *)
LEMMA SameState ==
  ASSUME NEW rs, NEW n \in Nat, NEW I \in SUBSET (1 .. n), NEW J \in SUBSET I,
         \A i \in I \ J : \E j \in J : rs[j].path = rs[i].path /\ i <= j
  PROVE  G!State(rs, I) = G!State(rs, J)
<1>1. ASSUME NEW i, IsLast(rs, I, i) PROVE IsLast(rs, J, i)
  <2>1. i \in I /\ \A j \in I : rs[j].path = rs[i].path => j <= i
    BY <1>1 DEF IsLast
  <2>2. i \in J
    <3> SUFFICES ASSUME i \notin J PROVE FALSE
      OBVIOUS
    <3>1. PICK j \in J : rs[j].path = rs[i].path /\ i <= j
      BY <2>1
    <3>2. j <= i /\ i \in Nat /\ j \in Nat
      BY <2>1, <3>1
    <3>3. i = j
      BY <3>1, <3>2
    <3> QED BY <3>3
  <2> QED BY <2>1, <2>2 DEF IsLast
<1>2. ASSUME NEW i, IsLast(rs, J, i) PROVE IsLast(rs, I, i)
  <2>1. i \in J /\ \A j \in J : rs[j].path = rs[i].path => j <= i
    BY <1>2 DEF IsLast
  <2>2. ASSUME NEW k \in I, rs[k].path = rs[i].path PROVE k <= i
    <3>1. CASE k \in J
      BY <2>1, <2>2, <3>1
    <3>2. CASE k \notin J
      <4>1. PICK j \in J : rs[j].path = rs[k].path /\ k <= j
        BY <3>2
      <4>2. j <= i
        BY <2>1, <2>2, <4>1
      <4>3. i \in Nat /\ j \in Nat /\ k \in Nat
        BY <2>1
      <4> QED BY <4>1, <4>2, <4>3
    <3> QED BY <3>1, <3>2
  <2> QED BY <2>1, <2>2 DEF IsLast
<1>3. ASSUME NEW x PROVE x \in G!State(rs, I) <=> x \in G!State(rs, J)
  <2>1. x \in G!State(rs, I) <=> \E i : IsLast(rs, I, i) /\ x = Said(rs, i)
    BY InState
  <2>2. x \in G!State(rs, J) <=> \E i : IsLast(rs, J, i) /\ x = Said(rs, i)
    BY InState
  <2> QED BY <1>1, <1>2, <2>1, <2>2, Zenon
<1> QED BY <1>3

(* It depends on nothing but the records at I.                             *)
LEMMA StateAgrees ==
  ASSUME NEW rs, NEW qs, NEW I, \A i \in I : rs[i] = qs[i]
  PROVE  G!State(rs, I) = G!State(qs, I)
<1>1. ASSUME NEW i PROVE IsLast(rs, I, i) <=> IsLast(qs, I, i)
  BY DEF IsLast
<1>2. ASSUME NEW i, IsLast(rs, I, i) PROVE Said(rs, i) = Said(qs, i)
  BY <1>2 DEF IsLast, Said
<1>3. ASSUME NEW x PROVE x \in G!State(rs, I) <=> x \in G!State(qs, I)
  <2>1. x \in G!State(rs, I) <=> \E i : IsLast(rs, I, i) /\ x = Said(rs, i)
    BY InState
  <2>2. x \in G!State(qs, I) <=> \E i : IsLast(qs, I, i) /\ x = Said(qs, i)
    BY InState
  <2> QED BY <1>1, <1>2, <2>1, <2>2, Zenon
<1> QED BY <1>3

(* A path has one last value.                                              *)
LEMMA OneValue ==
  ASSUME NEW rs, NEW n \in Nat, NEW I \in SUBSET (1 .. n),
         NEW x \in G!State(rs, I), NEW y \in G!State(rs, I), x[1] = y[1]
  PROVE  x = y
<1>1. PICK i : IsLast(rs, I, i) /\ x = Said(rs, i)
  BY InState
<1>2. PICK j : IsLast(rs, I, j) /\ y = Said(rs, j)
  BY InState
<1>3. i \in Nat /\ j \in Nat
  BY <1>1, <1>2 DEF IsLast
<1>4. rs[i].path = rs[j].path
  BY <1>1, <1>2 DEF Said
<1>5. i <= j /\ j <= i
  BY <1>1, <1>2, <1>4 DEF IsLast
<1>6. i = j
  BY <1>3, <1>5
<1> QED BY <1>1, <1>2, <1>6

(* One more record: its path has its value, the others keep theirs.        *)
LEMMA OneMoreState ==
  ASSUME NEW rs, NEW i \in Nat, NEW x
  PROVE  x \in G!State(rs, 1 .. i + 1) <=>
           x = Said(rs, i + 1) \/ (x \in G!State(rs, 1 .. i) /\ x[1] # rs[i + 1].path)
<1>1. \A k \in 1 .. i : k \in 1 .. i + 1 /\ k <= i + 1 /\ k # i + 1
  OBVIOUS
<1>2. \A k \in 1 .. i + 1 : k = i + 1 \/ k \in 1 .. i
  OBVIOUS
<1>3. i + 1 \in 1 .. i + 1 /\ i + 1 <= i + 1
  OBVIOUS
<1>4. \A k \in 1 .. i : ~(i + 1 <= k)
  OBVIOUS
<1>5. IsLast(rs, 1 .. i + 1, i + 1)
  BY <1>1, <1>2, <1>3, Zenon DEF IsLast
<1>6. ASSUME NEW k, k # i + 1
      PROVE  IsLast(rs, 1 .. i + 1, k) <=> IsLast(rs, 1 .. i, k) /\ rs[k].path # rs[i + 1].path
  BY <1>1, <1>2, <1>3, <1>4, <1>6, Zenon DEF IsLast
<1>7. \A k : Said(rs, k)[1] = rs[k].path
  BY DEF Said
<1>8. ASSUME x \in G!State(rs, 1 .. i + 1)
      PROVE  x = Said(rs, i + 1) \/ (x \in G!State(rs, 1 .. i) /\ x[1] # rs[i + 1].path)
  <2>1. PICK k : IsLast(rs, 1 .. i + 1, k) /\ x = Said(rs, k)
    BY <1>8, InState
  <2>2. CASE k = i + 1
    BY <2>1, <2>2
  <2>3. CASE k # i + 1
    BY <1>6, <1>7, <2>1, <2>3, InState, Zenon
  <2> QED BY <2>2, <2>3
<1>9. ASSUME x \in G!State(rs, 1 .. i), x[1] # rs[i + 1].path
      PROVE  x \in G!State(rs, 1 .. i + 1)
  <2>1. PICK k : IsLast(rs, 1 .. i, k) /\ x = Said(rs, k)
    BY <1>9, InState
  <2>2. k # i + 1
    BY <1>7, <1>9, <2>1
  <2> QED BY <1>6, <1>7, <1>9, <2>1, <2>2, InState, Zenon
<1>10. Said(rs, i + 1) \in G!State(rs, 1 .. i + 1)
  BY <1>5, InState, Zenon
<1> QED BY <1>8, <1>9, <1>10

(* A record that says what the state says leaves it.                       *)
LEMMA NoNews ==
  ASSUME NEW rs, NEW i \in Nat, Said(rs, i + 1) \in G!State(rs, 1 .. i)
  PROVE  G!State(rs, 1 .. i + 1) = G!State(rs, 1 .. i)
<1>1. Said(rs, i + 1)[1] = rs[i + 1].path
  BY DEF Said
<1>2. ASSUME NEW x \in G!State(rs, 1 .. i), x[1] = rs[i + 1].path PROVE x = Said(rs, i + 1)
  <2>1. PICK I \in SUBSET (1 .. i) : I = 1 .. i
    OBVIOUS
  <2>2. PICK y \in G!State(rs, I) : y = Said(rs, i + 1)
    BY <2>1
  <2>3. x \in G!State(rs, I) /\ x[1] = y[1]
    BY <1>1, <1>2, <2>1, <2>2
  <2>4. x = y
    BY <2>3, OneValue
  <2> QED BY <2>2, <2>4
<1>3. ASSUME NEW x PROVE x \in G!State(rs, 1 .. i + 1) <=> x \in G!State(rs, 1 .. i)
  BY <1>2, OneMoreState, Zenon
<1> QED BY <1>3

LEMMA InActive ==
  ASSUME NEW S, NEW p PROVE p \in G!Active(S) <=> \E x \in S : x[2] = 1 /\ x[1] = p
  BY DEF G!Active

(* What an alarm sees of it.                                               *)
LEMMA OneMoreActive ==
  ASSUME NEW rs, NEW i \in Nat
  PROVE  G!Active(G!State(rs, 1 .. i + 1)) = G!Updated(G!Active(G!State(rs, 1 .. i)), rs[i + 1])
<1>1. PICK r : r = rs[i + 1]
  OBVIOUS
<1>2. Said(rs, i + 1)[1] = r.path /\ Said(rs, i + 1)[2] = r.value
  BY <1>1 DEF Said
<1>3. PICK S : S = G!State(rs, 1 .. i)
  OBVIOUS
<1>4. PICK S1 : S1 = G!State(rs, 1 .. i + 1)
  OBVIOUS
<1>5. \A x : x \in S1 <=> x = Said(rs, i + 1) \/ (x \in S /\ x[1] # r.path)
  BY <1>1, <1>3, <1>4, OneMoreState
<1>6. ASSUME NEW p
      PROVE  p \in G!Active(S1) <=> (p = r.path /\ r.value = 1) \/ (p # r.path /\ p \in G!Active(S))
  <2>1. p \in G!Active(S1) <=> \E x \in S1 : x[2] = 1 /\ x[1] = p
    BY InActive
  <2>2. p \in G!Active(S) <=> \E x \in S : x[2] = 1 /\ x[1] = p
    BY InActive
  <2>3. CASE p = r.path
    BY <1>2, <1>5, <2>1, <2>3, Zenon
  <2>4. CASE p # r.path
    BY <1>2, <1>5, <2>1, <2>2, <2>4, Zenon
  <2> QED BY <2>3, <2>4
<1>7. G!Active(S1) = G!Updated(G!Active(S), r)
  BY <1>6 DEF G!Updated
<1> QED BY <1>1, <1>3, <1>4, <1>7

(* The steps of Reading and of After.                                      *)
Logs == [saved : BOOLEAN, snapshot : SUBSET LogPaths, events : Seq(G!Record), current : SUBSET LogPaths]

LEMMA UpdatedType ==
  ASSUME NEW a \in SUBSET LogPaths, NEW r \in G!Record
  PROVE  G!Updated(a, r) \in SUBSET LogPaths /\ (~G!IsChange(a, r) => G!Updated(a, r) = a)
<1>1. r.path \in LogPaths
  BY DEF G!Record
<1>2. CASE r.value = 1
  <2>1. G!Updated(a, r) = a \cup {r.path}
    BY <1>2 DEF G!Updated
  <2>2. ~G!IsChange(a, r) => r.path \in a
    BY <1>2 DEF G!IsChange
  <2> QED BY <1>1, <2>1, <2>2
<1>3. CASE r.value # 1
  <2>1. G!Updated(a, r) = a \ {r.path}
    BY <1>3 DEF G!Updated
  <2>2. ~G!IsChange(a, r) => r.path \notin a
    BY <1>3 DEF G!IsChange
  <2> QED BY <1>1, <2>1, <2>2
<1> QED BY <1>2, <1>3

LEMMA ReadEventType ==
  ASSUME NEW log \in Logs, NEW r \in G!Record
  PROVE  G!ReadEvent(log, r) \in Logs
<1>1. log.snapshot \in SUBSET LogPaths /\ log.current \in SUBSET LogPaths /\ log.events \in Seq(G!Record)
  BY DEF Logs
<1>2. G!Updated(log.current, r) \in SUBSET LogPaths
  BY <1>1, UpdatedType
<1>3. Append(log.events, r) \in Seq(G!Record)
  BY <1>1, AppendProperties
<1> QED BY <1>1, <1>2, <1>3 DEF Logs, G!ReadEvent

IsReading(f, start, events) ==
  /\ f \in [0 .. Len(events) -> Logs]
  /\ f[0] = start
  /\ \A n \in 1 .. Len(events) : f[n] = G!ReadEvent(f[n - 1], events[n])

LEMMA ReadingSteps ==
  ASSUME NEW start \in Logs, NEW events \in Seq(G!Record)
  PROVE  IsReading(G!Reading(start, events), start, events)
<1>1. PICK n \in Nat : n = Len(events)
  OBVIOUS
<1>2. PICK step : step = [i \in 1 .. n |-> [log \in Logs |-> G!ReadEvent(log, events[i])]]
  OBVIOUS
<1>3. \A i \in 1 .. n : events[i] \in G!Record
  BY <1>1
<1>4. \A i \in 1 .. n : step[i] \in [Logs -> Logs]
  BY <1>2, <1>3, ReadEventType
<1>5. \E f : IsStepwise(f, Logs, start, n, step)
  BY <1>4, Stepwise
<1>6. PICK f : /\ f \in [0 .. n -> Logs]
                /\ f[0] = start
                /\ \A i \in 1 .. n : f[i] = step[i][f[i - 1]]
  BY <1>5 DEF IsStepwise
<1>7. ASSUME NEW i \in 1 .. n PROVE f[i] = G!ReadEvent(f[i - 1], events[i])
  <2>1. f[i - 1] \in Logs
    BY <1>6
  <2> QED BY <1>2, <1>6, <2>1
<1> DEFINE IsIt(read) ==
      read = [k \in 0 .. Len(events) |->
                IF k = 0 THEN start ELSE G!ReadEvent(read[k - 1], events[k])]
<1>8. \A k \in 0 .. n : k = 0 \/ k \in 1 .. n
  OBVIOUS
<1>9. IsIt(f)
  BY <1>1, <1>6, <1>7, <1>8
<1>10. IsIt(CHOOSE read : IsIt(read))
  <2> HIDE DEF IsIt
  <2> QED BY <1>9, Zenon
<1>11. G!Reading(start, events) = CHOOSE read : IsIt(read)
  BY DEF G!Reading
<1>12. IsIt(G!Reading(start, events))
  <2> HIDE DEF IsIt
  <2> QED BY <1>10, <1>11
<1>13. PICK read : read = G!Reading(start, events)
  OBVIOUS
<1>14. read = [k \in 0 .. n |-> IF k = 0 THEN start ELSE G!ReadEvent(read[k - 1], events[k])]
  BY <1>1, <1>12, <1>13
<1>15. read[0] = start /\ \A k \in 1 .. n : read[k] = G!ReadEvent(read[k - 1], events[k])
  <2>1. 0 \in 0 .. n /\ \A k \in 1 .. n : k \in 0 .. n /\ k # 0
    OBVIOUS
  <2> QED BY <1>14, <2>1
<1>16. \A k \in Nat : k \in {k1 \in Nat : k1 <= n => read[k1] \in Logs}
  <2>1. 0 \in {k1 \in Nat : k1 <= n => read[k1] \in Logs}
    BY <1>15
  <2>2. ASSUME NEW k \in Nat, k \in {k1 \in Nat : k1 <= n => read[k1] \in Logs}
        PROVE  k + 1 \in {k1 \in Nat : k1 <= n => read[k1] \in Logs}
    <3> SUFFICES ASSUME k + 1 <= n PROVE read[k + 1] \in Logs
      OBVIOUS
    <3>1. k <= n /\ k + 1 \in 1 .. n /\ (k + 1) - 1 = k
      OBVIOUS
    <3>2. read[k] \in Logs
      BY <2>2, <3>1
    <3>3. read[k + 1] = G!ReadEvent(read[k], events[k + 1])
      BY <1>15, <3>1
    <3> QED BY <1>3, <3>1, <3>2, <3>3, ReadEventType
  <2>3. PICK Q : Q = {k1 \in Nat : k1 <= n => read[k1] \in Logs}
    OBVIOUS
  <2>4. 0 \in Q /\ \A k \in Nat : k \in Q => k + 1 \in Q
    BY <2>1, <2>2, <2>3
  <2>5. Nat \subseteq Q
    BY <2>4, NatInSet
  <2> QED BY <2>3, <2>5
<1>17. read \in [0 .. n -> Logs]
  <2>1. \A k \in 0 .. n : k \in Nat /\ k <= n
    OBVIOUS
  <2>2. \A k \in 0 .. n : read[k] \in Logs
    BY <1>16, <2>1
  <2>3. read = [k \in 0 .. n |-> read[k]]
    BY <1>14
  <2> QED BY <2>2, <2>3
<1> QED BY <1>1, <1>13, <1>15, <1>17 DEF IsReading

(* The changes of ev lead from the alarms a to the alarms b.               *)
Leads(f, a, ev, b) ==
  /\ f \in [0 .. Len(ev) -> SUBSET LogPaths]
  /\ f[0] = a /\ f[Len(ev)] = b
  /\ \A n \in 1 .. Len(ev) : f[n] = G!Updated(f[n - 1], ev[n]) /\ G!IsChange(f[n - 1], ev[n])
Led(a, ev, b) == \E f : Leads(f, a, ev, b)

LEMMA LedNowhere == ASSUME NEW a \in SUBSET LogPaths PROVE Led(a, <<>>, a)
<1>1. PICK f : f = [n \in 0 .. 0 |-> a]
  OBVIOUS
<1>2. Leads(f, a, <<>>, a)
  BY <1>1 DEF Leads
<1> QED BY <1>2 DEF Led

LEMMA LedOneMore ==
  ASSUME NEW a, NEW ev \in Seq(G!Record), NEW b \in SUBSET LogPaths, NEW r \in G!Record,
         Led(a, ev, b), G!IsChange(b, r)
  PROVE  Led(a, Append(ev, r), G!Updated(b, r))
<1>1. PICK f : Leads(f, a, ev, b)
  BY DEF Led
<1>2. PICK n \in Nat : n = Len(ev)
  OBVIOUS
<1>3. PICK e1 : e1 = Append(ev, r)
  OBVIOUS
<1>4. Len(e1) = n + 1 /\ e1[n + 1] = r /\ \A k \in 1 .. n : e1[k] = ev[k]
  BY <1>2, <1>3, AppendProperties
<1>5. PICK f1 : f1 = [k \in 0 .. n + 1 |-> IF k = n + 1 THEN G!Updated(b, r) ELSE f[k]]
  OBVIOUS
<1>6. /\ f \in [0 .. n -> SUBSET LogPaths]
      /\ f[0] = a /\ f[n] = b
      /\ \A k \in 1 .. n : f[k] = G!Updated(f[k - 1], ev[k]) /\ G!IsChange(f[k - 1], ev[k])
  BY <1>1, <1>2 DEF Leads
<1>7. f1[n + 1] = G!Updated(b, r) /\ \A k \in 0 .. n : f1[k] = f[k]
  BY <1>5
<1>8. \A k \in 0 .. n + 1 : k = n + 1 \/ k \in 0 .. n
  OBVIOUS
<1>9. f1 \in [0 .. n + 1 -> SUBSET LogPaths]
  <2>1. \A k \in 0 .. n + 1 : f1[k] \in SUBSET LogPaths
    BY <1>6, <1>7, <1>8, UpdatedType
  <2> QED BY <1>5, <2>1
<1>10. ASSUME NEW k \in 1 .. n + 1
       PROVE  f1[k] = G!Updated(f1[k - 1], e1[k]) /\ G!IsChange(f1[k - 1], e1[k])
  <2>1. CASE k = n + 1
    <3>1. k - 1 = n /\ n \in 0 .. n
      BY <2>1
    <3>2. f1[k - 1] = b /\ e1[k] = r /\ f1[k] = G!Updated(b, r)
      BY <1>4, <1>6, <1>7, <2>1, <3>1
    <3> QED BY <3>2
  <2>2. CASE k # n + 1
    <3>1. k \in 1 .. n /\ k \in 0 .. n /\ k - 1 \in 0 .. n
      BY <2>2
    <3>2. f1[k - 1] = f[k - 1] /\ e1[k] = ev[k] /\ f1[k] = f[k]
      BY <1>4, <1>7, <3>1
    <3> QED BY <1>6, <3>1, <3>2
  <2> QED BY <2>1, <2>2
<1>11. f1[0] = a
  BY <1>6, <1>7
<1>12. Leads(f1, a, e1, G!Updated(b, r))
  BY <1>4, <1>7, <1>9, <1>10, <1>11 DEF Leads
<1> QED BY <1>3, <1>12 DEF Led

LEMMA LedAfter ==
  ASSUME NEW a \in SUBSET LogPaths, NEW ev \in Seq(G!Record), NEW b, Led(a, ev, b)
  PROVE  /\ G!After(a, ev)[Len(ev)] = b
         /\ \A n \in 1 .. Len(ev) : G!IsChange(G!After(a, ev)[n - 1], ev[n])
<1>1. PICK n \in Nat : n = Len(ev)
  OBVIOUS
<1>2. PICK f : Leads(f, a, ev, b)
  BY DEF Led
<1>3. /\ f \in [0 .. n -> SUBSET LogPaths]
      /\ f[0] = a /\ f[n] = b
      /\ \A k \in 1 .. n : f[k] = G!Updated(f[k - 1], ev[k]) /\ G!IsChange(f[k - 1], ev[k])
  BY <1>1, <1>2 DEF Leads
<1> DEFINE IsIt(after) == after = [k \in 0 .. Len(ev) |-> IF k = 0 THEN a ELSE G!Updated(after[k - 1], ev[k])]
<1>4. \A k \in 0 .. n : k = 0 \/ k \in 1 .. n
  OBVIOUS
<1>5. IsIt(f)
  BY <1>1, <1>3, <1>4
<1>6. IsIt(CHOOSE after : IsIt(after))
  <2> HIDE DEF IsIt
  <2> QED BY <1>5, Zenon
<1>7. G!After(a, ev) = CHOOSE after : IsIt(after)
  BY DEF G!After
<1>8. IsIt(G!After(a, ev))
  <2> HIDE DEF IsIt
  <2> QED BY <1>6, <1>7
<1>9. PICK h : h = G!After(a, ev)
  OBVIOUS
<1>10. h = [k \in 0 .. n |-> IF k = 0 THEN a ELSE G!Updated(h[k - 1], ev[k])]
  BY <1>1, <1>8, <1>9
<1>11. h[0] = a /\ \A k \in 1 .. n : h[k] = G!Updated(h[k - 1], ev[k])
  <2>1. 0 \in 0 .. n /\ \A k \in 1 .. n : k \in 0 .. n /\ k # 0
    OBVIOUS
  <2> QED BY <1>10, <2>1
<1>12. PICK Q : Q = {k \in Nat : k <= n => h[k] = f[k]}
  OBVIOUS
<1>13. 0 \in Q
  BY <1>3, <1>11, <1>12
<1>14. ASSUME NEW k \in Nat, k \in Q PROVE k + 1 \in Q
  <2> SUFFICES ASSUME k + 1 <= n PROVE h[k + 1] = f[k + 1]
    BY <1>12
  <2>1. k <= n /\ k + 1 \in 1 .. n /\ (k + 1) - 1 = k
    OBVIOUS
  <2>2. h[k] = f[k]
    BY <1>12, <1>14, <2>1
  <2> QED BY <1>3, <1>11, <2>1, <2>2
<1>15. Nat \subseteq Q
  BY <1>13, <1>14, NatInSet
<1>16. \A k \in 0 .. n : h[k] = f[k]
  BY <1>12, <1>15
<1>17. ASSUME NEW k \in 1 .. n PROVE G!IsChange(h[k - 1], ev[k])
  <2>1. k - 1 \in 0 .. n
    OBVIOUS
  <2> QED BY <1>3, <1>16, <2>1
<1>18. h[n] = b
  BY <1>3, <1>16
<1> QED BY <1>1, <1>9, <1>17, <1>18

(* How many of the positions I are up to i.                                *)
UpToIn(I, i) == {j \in I : j <= i}
Act(rs, i) == G!Active(G!State(rs, 1 .. i))

LEMMA CardinalityIsOne == ASSUME NEW S PROVE G!Cardinality(S) = Cardinality(S)
  BY DEF G!Cardinality, Cardinality

LEMMA PickedAt ==
  ASSUME NEW rs \in Seq(G!Record), NEW I \in SUBSET (1 .. Len(rs))
  PROVE  /\ IsFiniteSet(I) /\ Cardinality(I) \in Nat
         /\ G!Picked(rs, I) \in Seq(G!Record) /\ Len(G!Picked(rs, I)) = Cardinality(I)
         /\ \A i \in I : /\ Cardinality(UpToIn(I, i)) \in 1 .. Cardinality(I)
                         /\ G!Picked(rs, I)[Cardinality(UpToIn(I, i))] = rs[i]
<1>1. PICK n \in Nat : n = Len(rs)
  OBVIOUS
<1>2. I \in SUBSET (1 .. n)
  BY <1>1
<1>3. IsFiniteSet(I) /\ Cardinality(I) \in Nat /\ \E pos : InOrderAt(pos, I)
  BY <1>2, NumbersArranged
<1>4. PICK pos : InOrderAt(pos, I)
  BY <1>3
<1>5. PICK c \in Nat : c = Cardinality(I)
  BY <1>3
<1>6. /\ pos \in [1 .. c -> I]
      /\ \A i \in I : \E k \in 1 .. c : pos[k] = i
      /\ \A k \in 1 .. c, i \in I : Cardinality(UpToIn(I, i)) = k <=> i = pos[k]
  BY <1>4, <1>5, Zenon DEF InOrderAt, UpToIn
<1>7. PICK events : events = G!Picked(rs, I)
  OBVIOUS
<1>8. events = [k \in 1 .. c |-> rs[CHOOSE i \in I : Cardinality(UpToIn(I, i)) = k]]
  <2>1. events = [k \in 1 .. G!Cardinality(I) |-> rs[CHOOSE i \in I : G!Cardinality({j \in I : j <= i}) = k]]
    BY <1>7 DEF G!Picked
  <2>2. events = [k \in 1 .. Cardinality(I) |-> rs[CHOOSE i \in I : Cardinality({j \in I : j <= i}) = k]]
    BY <2>1 DEF G!Cardinality, Cardinality
  <2> QED BY <1>5, <2>2 DEF UpToIn
<1>9. ASSUME NEW k \in 1 .. c PROVE (CHOOSE i \in I : Cardinality(UpToIn(I, i)) = k) = pos[k]
  <2>1. pos[k] \in I /\ Cardinality(UpToIn(I, pos[k])) = k
    BY <1>6
  <2>2. \A i \in I : Cardinality(UpToIn(I, i)) = k => i = pos[k]
    BY <1>6
  <2> QED BY <2>1, <2>2, Zenon
<1>10. events = [k \in 1 .. c |-> rs[pos[k]]]
  <2>1. ASSUME NEW k \in 1 .. c PROVE events[k] = rs[pos[k]]
    <3>1. events[k] = rs[CHOOSE i \in I : Cardinality(UpToIn(I, i)) = k]
      BY <1>8, Zenon
    <3> QED BY <1>9, <3>1, Zenon
  <2>2. events = [k \in 1 .. c |-> events[k]]
    BY <1>8
  <2> QED BY <2>1, <2>2
<1>11. ASSUME NEW k \in 1 .. c PROVE rs[pos[k]] \in G!Record
  <2>1. pos[k] \in I
    BY <1>6
  <2>2. pos[k] \in 1 .. Len(rs)
    BY <2>1
  <2> QED BY <2>2
<1>12. events \in Seq(G!Record) /\ Len(events) = c
  BY <1>10, <1>11
<1>13. ASSUME NEW i \in I
       PROVE  Cardinality(UpToIn(I, i)) \in 1 .. c /\ events[Cardinality(UpToIn(I, i))] = rs[i]
  <2>1. PICK k \in 1 .. c : pos[k] = i
    BY <1>6
  <2>2. Cardinality(UpToIn(I, i)) = k
    BY <1>6, <2>1
  <2> QED BY <1>10, <2>1, <2>2
<1> QED BY <1>3, <1>5, <1>7, <1>12, <1>13

LEMMA OneMoreCounted ==
  ASSUME NEW I, IsFiniteSet(I), I \subseteq Nat, NEW i \in Nat
  PROVE  /\ Cardinality(UpToIn(I, i)) \in Nat
         /\ i + 1 \in I => Cardinality(UpToIn(I, i + 1)) = Cardinality(UpToIn(I, i)) + 1
         /\ i + 1 \notin I => Cardinality(UpToIn(I, i + 1)) = Cardinality(UpToIn(I, i))
<1>1. PICK U : U = UpToIn(I, i)
  OBVIOUS
<1>2. U \subseteq I /\ i + 1 \notin U
  BY <1>1 DEF UpToIn
<1>3. IsFiniteSet(U)
  BY <1>2, FS_Subset
<1>4. Cardinality(U) \in Nat
  BY <1>3, FS_CardinalityType
<1>5. \A j \in I : j <= i + 1 <=> j <= i \/ j = i + 1
  OBVIOUS
<1>6. CASE i + 1 \in I
  <2>1. UpToIn(I, i + 1) = U \cup {i + 1}
    BY <1>1, <1>5, <1>6 DEF UpToIn
  <2>2. Cardinality(U \cup {i + 1}) = Cardinality(U) + 1
    BY <1>2, <1>3, FS_AddElement
  <2> QED BY <1>1, <1>4, <1>6, <2>1, <2>2
<1>7. CASE i + 1 \notin I
  <2>1. UpToIn(I, i + 1) = U
    BY <1>1, <1>5, <1>7 DEF UpToIn
  <2> QED BY <1>1, <1>4, <1>7, <2>1
<1> QED BY <1>6, <1>7

(* What has been read when i records have been gone through.               *)
ReadTo(read, rs, I, m, i) ==
  LET n == Cardinality(UpToIn(I, i))
  IN /\ read[n] \in Logs
     /\ read[n].current = Act(rs, i)
     /\ read[n].saved <=> n > 0
     /\ IF n > 0 THEN read[n].snapshot = Act(rs, m) ELSE Act(rs, i) = Act(rs, m)
     /\ Led(Act(rs, m), read[n].events, Act(rs, i))

LEMMA OneMoreRead ==
  ASSUME NEW rs \in Seq(G!Record), NEW I \in SUBSET (1 .. Len(rs)), NEW start,
         NEW events \in Seq(G!Record), events = G!Picked(rs, I),
         NEW read, IsReading(read, start, events),
         NEW m \in Nat, NEW i \in Nat, i + 1 <= Len(rs),
         i + 1 \notin I => Said(rs, i + 1) \in G!State(rs, 1 .. i),
         ReadTo(read, rs, I, m, i)
  PROVE  ReadTo(read, rs, I, m, i + 1)
<1> IsFiniteSet(I) /\ I \subseteq Nat
  <2>1. IsFiniteSet(I)
    BY PickedAt
  <2> QED BY <2>1
<1>1. PICK n \in Nat : n = Cardinality(UpToIn(I, i))
  BY OneMoreCounted
<1>2. /\ read[n] \in Logs
      /\ read[n].current = Act(rs, i)
      /\ read[n].saved <=> n > 0
      /\ IF n > 0 THEN read[n].snapshot = Act(rs, m) ELSE Act(rs, i) = Act(rs, m)
      /\ Led(Act(rs, m), read[n].events, Act(rs, i))
  BY <1>1 DEF ReadTo
<1>3. CASE i + 1 \notin I
  <2>1. Cardinality(UpToIn(I, i + 1)) = n
    BY <1>1, <1>3, OneMoreCounted
  <2>2. Act(rs, i + 1) = Act(rs, i)
    BY <1>3, NoNews DEF Act
  <2> QED BY <1>2, <2>1, <2>2 DEF ReadTo
<1>4. CASE i + 1 \in I
  <2>1. Cardinality(UpToIn(I, i + 1)) = n + 1
    BY <1>1, <1>4, OneMoreCounted
  <2>2. n + 1 \in 1 .. Len(events) /\ events[n + 1] = rs[i + 1]
    BY <1>4, <2>1, PickedAt
  <2>3. PICK r \in G!Record : r = rs[i + 1]
    BY <1>4
  <2>4. PICK log \in Logs : log = read[n]
    BY <1>2
  <2>5. PICK log1 : log1 = read[n + 1]
    OBVIOUS
  <2>6. log1 = G!ReadEvent(log, r)
    <3>1. (n + 1) - 1 = n
      OBVIOUS
    <3>2. read[n + 1] = G!ReadEvent(read[(n + 1) - 1], events[n + 1])
      BY <2>2 DEF IsReading
    <3> QED BY <2>2, <2>3, <2>4, <2>5, <3>1, <3>2
  <2>7. log1 \in Logs
    BY <2>6, ReadEventType
  <2>8. PICK a : a = Act(rs, i)
    OBVIOUS
  <2>9. log1.current = G!Updated(a, r) /\ Act(rs, i + 1) = G!Updated(a, r)
    <3>1. Act(rs, i + 1) = G!Updated(a, r)
      BY <2>3, <2>8, OneMoreActive DEF Act
    <3>2. log.current = a
      BY <1>2, <2>4, <2>8
    <3> QED BY <2>6, <3>1, <3>2 DEF G!ReadEvent
  <2>10. log1.saved
    BY <2>6 DEF G!ReadEvent
  <2>11. log1.snapshot = Act(rs, m)
    <3>1. CASE n > 0
      <4>1. log.saved /\ log.snapshot = Act(rs, m)
        BY <1>2, <2>4, <3>1, Zenon
      <4> QED BY <2>6, <4>1 DEF G!ReadEvent
    <3>2. CASE n = 0
      <4>1. ~(n > 0)
        BY <3>2
      <4>2. ~log.saved
        BY <1>2, <2>4, <4>1, Zenon
      <4>3. log.current = Act(rs, m)
        BY <1>2, <2>4, <4>1
      <4> QED BY <2>6, <4>2, <4>3 DEF G!ReadEvent
    <3> QED BY <3>1, <3>2
  <2>12. Led(Act(rs, m), log1.events, Act(rs, i + 1))
    <3>1. PICK ev \in Seq(G!Record) : ev = log.events
      BY DEF Logs
    <3>2. Led(Act(rs, m), ev, a) /\ log.current = a /\ a \in SUBSET LogPaths
      <4>1. log.current = a /\ log.current \in SUBSET LogPaths
        BY <1>2, <2>4, <2>8 DEF Logs
      <4> QED BY <1>2, <2>4, <2>8, <3>1, <4>1
    <3>3. CASE G!IsChange(a, r)
      <4>1. log1.events = Append(ev, r)
        BY <2>6, <3>1, <3>2, <3>3 DEF G!ReadEvent
      <4>2. PICK a0 : a0 = Act(rs, m)
        OBVIOUS
      <4>3. Led(a0, Append(ev, r), G!Updated(a, r))
        BY <3>2, <3>3, <4>2, LedOneMore
      <4> QED BY <2>9, <4>1, <4>2, <4>3
    <3>4. CASE ~G!IsChange(a, r)
      <4>1. log1.events = ev
        BY <2>6, <3>1, <3>2, <3>4 DEF G!ReadEvent
      <4>2. G!Updated(a, r) = a
        BY <3>2, <3>4, UpdatedType
      <4> QED BY <2>9, <3>2, <4>1, <4>2
    <3> QED BY <3>3, <3>4
  <2>13. n + 1 > 0
    OBVIOUS
  <2> QED BY <2>1, <2>5, <2>7, <2>9, <2>10, <2>11, <2>12, <2>13 DEF ReadTo
<1> QED BY <1>3, <1>4

LEMMA ReadToEnd ==
  ASSUME NEW rs \in Seq(G!Record), NEW m \in 0 .. Len(rs), NEW e \in m .. Len(rs),
         NEW I \in SUBSET (m + 1 .. e),
         \A i \in (m + 1 .. e) \ I : Said(rs, i) \in G!State(rs, 1 .. i - 1),
         NEW start \in Logs, ~start.saved, start.events = <<>>, start.current = Act(rs, m),
         NEW events, events = G!Picked(rs, I), NEW read, IsReading(read, start, events)
  PROVE  ReadTo(read, rs, I, m, e) /\ UpToIn(I, e) = I
<1>1. I \in SUBSET (1 .. Len(rs))
  OBVIOUS
<1>2. events \in Seq(G!Record)
  BY <1>1, PickedAt
<1>3. PICK Q : Q = {k \in Nat : m + k <= e => ReadTo(read, rs, I, m, m + k)}
  OBVIOUS
<1>4. 0 \in Q
  <2>1. UpToIn(I, m) = {} /\ m + 0 = m
    <3>1. \A j \in I : ~(j <= m)
      OBVIOUS
    <3>2. UpToIn(I, m) = {}
      BY <3>1, Zenon DEF UpToIn
    <3> QED BY <3>2
  <2>2. Cardinality(UpToIn(I, m)) = 0
    BY <2>1, FS_EmptySet
  <2>3. read[0] = start
    BY DEF IsReading
  <2>4. PICK a \in SUBSET LogPaths : a = Act(rs, m)
    BY DEF Logs
  <2>5. Led(a, <<>>, a)
    BY LedNowhere
  <2>6. ~(0 > 0)
    OBVIOUS
  <2>7. ReadTo(read, rs, I, m, m)
    BY <2>2, <2>3, <2>4, <2>5, <2>6, Zenon DEF ReadTo
  <2> QED BY <1>3, <2>1, <2>7
<1>5. ASSUME NEW k \in Nat, k \in Q PROVE k + 1 \in Q
  <2> SUFFICES ASSUME m + (k + 1) <= e PROVE ReadTo(read, rs, I, m, m + (k + 1))
    BY <1>3
  <2>1. PICK i \in Nat : i = m + k
    OBVIOUS
  <2>2. i + 1 <= Len(rs) /\ i + 1 \in m + 1 .. e /\ (i + 1) - 1 = i /\ i <= e /\ m + (k + 1) = i + 1
    BY <2>1
  <2>3. ReadTo(read, rs, I, m, i)
    BY <1>3, <1>5, <2>1, <2>2
  <2>4. i + 1 \notin I => Said(rs, i + 1) \in G!State(rs, 1 .. i)
    BY <2>2
  <2>5. ReadTo(read, rs, I, m, i + 1)
    BY <1>1, <1>2, <2>2, <2>3, <2>4, OneMoreRead
  <2> QED BY <2>2, <2>5
<1>6. Nat \subseteq Q
  BY <1>4, <1>5, NatInSet
<1>7. e - m \in Nat /\ m + (e - m) = e /\ e <= e
  OBVIOUS
<1>8. ReadTo(read, rs, I, m, e)
  BY <1>3, <1>6, <1>7
<1>9. UpToIn(I, e) = I
  <2>1. \A j \in I : j <= e
    OBVIOUS
  <2> QED BY <2>1 DEF UpToIn
<1> QED BY <1>8, <1>9

(* What is recorded is in the order of time, and a snapshot says nothing   *)
(* new; every file but the first begins with a snapshot of all before it,  *)
(* with the time of its name, which is later than all before it, and the   *)
(* dirty log holds none.                                                   *)
Chronicle(rs, t) ==
  /\ \A i, j \in 1 .. Len(rs) : i <= j => rs[i].at <= rs[j].at
  /\ \A i \in 1 .. Len(rs) : rs[i].at <= t
  /\ \A i \in 1 .. Len(rs) : rs[i].inSnapshot => Said(rs, i) \in G!State(rs, 1 .. i - 1)

BeginsWell(rs, d, f) ==
  /\ f.begin < d
  /\ \A i \in 1 .. f.begin - 1 :
       /\ rs[i].at < f.name
       /\ \E j \in f.begin .. d - 1 : rs[j].path = rs[i].path /\ rs[j].at = f.name

FilesFit(rs, js, d) ==
  /\ \A i \in d .. Len(rs) : ~rs[i].inSnapshot
  /\ IF js = <<>> THEN d = 1 ELSE js[1].begin = 1
  /\ \A k \in 1 .. Len(js) : BeginsWell(rs, d, js[k])

RecordsInv == G!TypeOK /\ Chronicle(records, now) /\ FilesFit(records, journals, dirtyAt)

LEMMA RecordAt ==
  ASSUME NEW rs \in Seq(G!Record), NEW i \in 1 .. Len(rs)
  PROVE  /\ rs[i] \in G!Record /\ rs[i].at \in 1 .. LogTime
         /\ rs[i].path \in LogPaths /\ rs[i].inSnapshot \in BOOLEAN
<1>1. rs[i] \in G!Record
  BY ElementOfSeq
<1>2. PICK r \in G!Record : r = rs[i]
  BY <1>1
<1>3. r.at \in 1 .. LogTime /\ r.path \in LogPaths /\ r.inSnapshot \in BOOLEAN
  BY DEF G!Record
<1> QED BY <1>2, <1>3

LEMMA FirstReadFits ==
  ASSUME RecordsInv, NEW since \in G!Sinces
  PROVE  \/ G!FirstRead(since) = 1
         \/ \E k \in 1 .. Len(journals) :
              /\ G!FirstRead(since) = journals[k].begin
              /\ since = G!SinceLast \/ journals[k].name < since
<1>1. CASE since = G!Always \/ journals = <<>>
  BY <1>1 DEF G!FirstRead
<1>2. CASE ~(since = G!Always \/ journals = <<>>)
  <2>1. G!FirstRead(since) = journals[G!NewestMatchingFile(since)].begin
    BY <1>2 DEF G!FirstRead
  <2>2. PICK n \in Nat : n = Len(journals)
    BY DEF RecordsInv, G!TypeOK
  <2>3. n >= 1 /\ journals[1].begin = 1 /\ DOMAIN journals = 1 .. n
    BY <1>2, <2>2 DEF RecordsInv, G!TypeOK, FilesFit
  <2>4. CASE since = G!SinceLast
    <3>1. G!NewestMatchingFile(since) = n /\ n \in 1 .. Len(journals)
      BY <2>2, <2>3, <2>4 DEF G!NewestMatchingFile
    <3> QED BY <2>1, <2>4, <3>1
  <2>5. CASE since # G!SinceLast
    <3>1. PICK s : s = {1} \cup {k \in DOMAIN journals : journals[k].name < since}
      OBVIOUS
    <3>2. s \in SUBSET (0 .. n) /\ 1 \in s
      BY <2>3, <3>1
    <3>3. PICK k \in s : \A j \in s : j <= k
      BY <3>2, NatGreatest
    <3>4. k \in s /\ \A j \in s : k >= j
      BY <3>2, <3>3
    <3>5. G!Max(s) \in s
      BY <3>4, Zenon DEF G!Max
    <3>6. G!NewestMatchingFile(since) = G!Max(s)
      BY <2>5, <3>1 DEF G!NewestMatchingFile
    <3>7. PICK m \in s : m = G!Max(s)
      BY <3>5
    <3>8. G!FirstRead(since) = journals[m].begin
      BY <2>1, <3>6, <3>7
    <3>9. CASE m = 1
      BY <2>3, <3>8, <3>9
    <3>10. CASE m # 1
      <4>1. m \in 1 .. Len(journals) /\ journals[m].name < since
        BY <2>2, <2>3, <3>1, <3>10
      <4> QED BY <3>8, <4>1
    <3> QED BY <3>9, <3>10
  <2> QED BY <2>4, <2>5
<1> QED BY <1>1, <1>2

LEMMA FilesSuffice == ASSUME RecordsInv PROVE G!ChosenSuffice
<1> SUFFICES ASSUME NEW since \in G!Sinces, NEW until \in G!Untils,
                    IF since = G!SinceLast THEN until = G!Dirty ELSE since < until
             PROVE  G!Answer(since, until) = G!LogOf(1, since, until)
  BY DEF G!ChosenSuffice
<1>1. since \in Int /\ until \in Nat /\ LogTime \in Nat
  BY LogsAssumption DEF G!GetLogAssumption, G!Sinces, G!Untils, G!Always, G!SinceLast, G!Dirty
<1>2. PICK first : first = G!FirstRead(since)
  OBVIOUS
<1>3. G!Answer(since, until) = G!LogOf(first, since, until)
  BY <1>2 DEF G!Answer
<1>4. CASE first = 1
  BY <1>3, <1>4
<1>5. ASSUME NEW k \in 1 .. Len(journals), first = journals[k].begin,
             since = G!SinceLast \/ journals[k].name < since
      PROVE  G!LogOf(first, since, until) = G!LogOf(1, since, until)
  <2>1. PICK rs \in Seq(G!Record) : rs = records
    BY DEF RecordsInv, G!TypeOK
  <2>2. PICK n \in Nat : n = Len(rs)
    OBVIOUS
  <2>3. PICK f \in [name : 1 .. LogTime, begin : 1 .. n] : f = journals[k]
    <3>1. PICK js \in Seq([name : 1 .. LogTime, begin : 1 .. n]) : js = journals
      BY <2>1, <2>2 DEF RecordsInv, G!TypeOK
    <3>2. k \in 1 .. Len(js)
      BY <3>1
    <3>3. js[k] \in [name : 1 .. LogTime, begin : 1 .. n]
      BY <3>2, ElementOfSeq
    <3> QED BY <3>1, <3>3
  <2>4. PICK name \in Nat : name = journals[k].name
    BY <1>1, <2>3
  <2>5. PICK b \in 1 .. n : b = first
    BY <1>5, <2>3
  <2>6. \A i \in 1 .. n : rs[i].at \in Nat /\ rs[i].at <= LogTime
    BY <1>1, <2>2, RecordAt
  <2>7. \A i \in 1 .. b - 1 : /\ rs[i].at < name
                              /\ \E j \in b .. n : rs[j].path = rs[i].path /\ rs[j].at = name
    <3>1. PICK d \in 1 .. n + 1 : d = dirtyAt
      BY <2>1, <2>2 DEF RecordsInv, G!TypeOK
    <3>2. BeginsWell(rs, d, journals[k])
      BY <2>1, <3>1 DEF RecordsInv, FilesFit
    <3>3. \A i \in 1 .. b - 1 : /\ rs[i].at < name
                                /\ \E j \in b .. d - 1 : rs[j].path = rs[i].path /\ rs[j].at = name
      BY <1>5, <2>4, <2>5, <3>2 DEF BeginsWell
    <3>4. \A j \in b .. d - 1 : j \in b .. n
      OBVIOUS
    <3> QED BY <3>3, <3>4, Zenon
  <2>8. since # G!SinceLast => name < since /\ since < until
    BY <1>5, <2>4
  <2>9. since = G!SinceLast => until = LogTime + 1
    BY DEF G!Dirty
  <2>10. PICK A0 : A0 = {i \in {j \in 1 .. n : rs[j].at < until} : since = G!SinceLast \/ rs[i].at <= since}
    OBVIOUS
  <2>11. PICK A1 : A1 = {i \in {j \in b .. n : rs[j].at < until} : since = G!SinceLast \/ rs[i].at <= since}
    OBVIOUS
  <2>12. G!State(rs, A0) = G!State(rs, A1)
    <3>1. A0 \in SUBSET (1 .. n) /\ A1 \in SUBSET A0
      BY <2>10, <2>11
    <3>2. ASSUME NEW i \in A0 \ A1 PROVE \E j \in A1 : rs[j].path = rs[i].path /\ i <= j
      <4>1. i \in 1 .. b - 1
        BY <2>10, <2>11
      <4>2. PICK j \in b .. n : rs[j].path = rs[i].path /\ rs[j].at = name
        BY <2>7, <4>1
      <4>3. CASE since = G!SinceLast
        <5>1. rs[j].at < until
          BY <1>1, <2>6, <2>9, <4>3
        <5>2. j \in A1
          BY <2>11, <4>3, <5>1
        <5> QED BY <4>1, <4>2, <5>2
      <4>4. CASE since # G!SinceLast
        <5>1. rs[j].at < until /\ rs[j].at <= since
          BY <1>1, <2>8, <4>2, <4>4
        <5>2. j \in A1
          BY <2>11, <5>1
        <5> QED BY <4>1, <4>2, <5>2
      <4> QED BY <4>3, <4>4
    <3> QED BY <3>1, <3>2, SameState
  <2>13. since # G!SinceLast =>
           {i \in {j \in 1 .. n : rs[j].at < until} : rs[i].at > since /\ ~rs[i].inSnapshot}
             = {i \in {j \in b .. n : rs[j].at < until} : rs[i].at > since /\ ~rs[i].inSnapshot}
    <3> SUFFICES ASSUME since # G!SinceLast
                 PROVE  \A i \in 1 .. n : rs[i].at > since => i \in b .. n
      OBVIOUS
    <3>1. ASSUME NEW i \in 1 .. n, i \notin b .. n PROVE ~(rs[i].at > since)
      <4>1. i \in 1 .. b - 1
        BY <3>1
      <4>2. rs[i].at < name
        BY <2>7, <4>1
      <4> QED BY <1>1, <2>6, <2>8, <4>2
    <3> QED BY <3>1
  <2> QED BY <2>1, <2>2, <2>5, <2>10, <2>11, <2>12, <2>13 DEF G!LogOf
<1> QED BY <1>2, <1>3, <1>4, <1>5, FirstReadFits

(* The records up to a time are the first ones.                            *)
LEMMA FirstOnes ==
  ASSUME NEW rs \in Seq(G!Record), NEW n \in Nat, n = Len(rs), NEW t, Chronicle(rs, t), NEW t0 \in Int
  PROVE  \E m \in 0 .. n : \A i \in 1 .. n : rs[i].at <= t0 <=> i <= m
<1>1. PICK s : s = {0} \cup {i \in 1 .. n : rs[i].at <= t0}
  OBVIOUS
<1>2. s \in SUBSET (0 .. n) /\ s # {}
  BY <1>1
<1>3. PICK m \in s : \A j \in s : j <= m
  BY <1>2, NatGreatest
<1>4. \A i \in 1 .. n : rs[i].at \in Nat
  BY LogsAssumption, RecordAt DEF G!GetLogAssumption
<1>5. m \in 0 .. n /\ (m = 0 \/ (m \in 1 .. n /\ rs[m].at <= t0))
  BY <1>1, <1>2
<1>6. ASSUME NEW i \in 1 .. n PROVE rs[i].at <= t0 <=> i <= m
  <2>1. rs[i].at <= t0 => i <= m
    BY <1>1, <1>3
  <2>2. ASSUME i <= m PROVE rs[i].at <= t0
    <3>1. m \in 1 .. n /\ rs[m].at <= t0
      BY <1>5, <2>2
    <3>2. rs[i].at <= rs[m].at
      BY <2>2, <3>1 DEF Chronicle
    <3> QED BY <1>4, <3>1, <3>2
  <2> QED BY <2>1, <2>2
<1> QED BY <1>5, <1>6

LEMMA ActType ==
  ASSUME NEW rs \in Seq(G!Record), NEW I \in SUBSET (1 .. Len(rs))
  PROVE  G!Active(G!State(rs, I)) \in SUBSET LogPaths
<1>1. ASSUME NEW x \in G!State(rs, I) PROVE x[1] \in LogPaths
  <2>1. PICK i : IsLast(rs, I, i) /\ x = Said(rs, i)
    BY InState
  <2>2. i \in 1 .. Len(rs)
    BY <2>1 DEF IsLast
  <2> QED BY <2>1, <2>2, RecordAt DEF Said
<1>2. ASSUME NEW p \in G!Active(G!State(rs, I)) PROVE p \in LogPaths
  <2>1. PICK x \in G!State(rs, I) : x[1] = p
    BY InActive
  <2> QED BY <1>1, <2>1
<1> QED BY <1>2

LEMMA LogsRebuild == ASSUME RecordsInv PROVE G!AlarmLogRebuilds
<1> SUFFICES ASSUME NEW since \in 0 .. LogTime, NEW until \in G!Untils, since < until,
                    G!Answer(since, until).events # <<>>
             PROVE
               LET log == G!AlarmLog(since, until)
                   after == G!After(log.snapshot, log.events)
                   active(t) == G!Active(G!State(records, {i \in DOMAIN records : records[i].at <= t}))
               IN /\ log.snapshot = active(since)
                  /\ after[Len(log.events)] = active(until - 1)
                  /\ \A n \in 1 .. Len(log.events) : G!IsChange(after[n - 1], log.events[n])
  BY Zenon DEF G!AlarmLogRebuilds
<1>1. /\ since \in Nat /\ since \in Int /\ until \in Nat /\ until - 1 \in Int /\ LogTime \in Nat
      /\ since # G!SinceLast /\ since \in G!Sinces
  BY LogsAssumption DEF G!GetLogAssumption, G!Sinces, G!Untils, G!SinceLast, G!Dirty
<1>2. PICK rs \in Seq(G!Record) : rs = records
  BY DEF RecordsInv, G!TypeOK
<1>3. PICK n \in Nat : n = Len(rs)
  OBVIOUS
<1>4. DOMAIN rs = 1 .. n /\ \A i \in 1 .. n : rs[i].at \in Nat
  BY <1>1, <1>3, RecordAt
<1>5. PICK t : t = now /\ Chronicle(rs, t)
  BY <1>2 DEF RecordsInv
<1>6. PICK m \in 0 .. n : \A i \in 1 .. n : rs[i].at <= since <=> i <= m
  BY <1>1, <1>3, <1>5, FirstOnes
<1>7. PICK e \in 0 .. n : \A i \in 1 .. n : rs[i].at <= until - 1 <=> i <= e
  BY <1>1, <1>3, <1>5, FirstOnes
<1>8. \A i \in 1 .. n : rs[i].at < until <=> i <= e
  <2>1. \A i \in 1 .. n : rs[i].at < until <=> rs[i].at <= until - 1
    BY <1>1, <1>4
  <2> QED BY <1>7, <2>1
<1>9. e \in m .. n
  <2>1. CASE m = 0
    BY <2>1
  <2>2. CASE m # 0
    <3>1. m \in 1 .. n /\ m <= m
      BY <2>2
    <3>2. rs[m].at <= since
      BY <1>6, <3>1
    <3>3. rs[m].at < until
      BY <1>1, <1>4, <3>1, <3>2
    <3> QED BY <1>8, <3>1, <3>3
  <2> QED BY <2>1, <2>2
<1>10. PICK I : I = {i \in m + 1 .. e : ~rs[i].inSnapshot}
  OBVIOUS
<1>11. PICK state : state = G!State(rs, 1 .. m)
  OBVIOUS
<1>12. PICK events : events = G!Picked(rs, I)
  OBVIOUS
<1>13. G!Answer(since, until) = [snapshot |-> state, events |-> events]
  <2>1. PICK positions : positions = {i \in 1 .. n : rs[i].at < until}
    OBVIOUS
  <2>2. positions = 1 .. e
    BY <1>8, <2>1
  <2>3. {i \in positions : since = G!SinceLast \/ rs[i].at <= since} = 1 .. m
    BY <1>1, <1>6, <1>9, <2>2
  <2>4. {i \in positions : rs[i].at > since /\ ~rs[i].inSnapshot} = I
    <3>1. \A i \in 1 .. n : rs[i].at > since <=> ~(rs[i].at <= since)
      BY <1>1, <1>4
    <3>2. \A i \in 1 .. e : rs[i].at > since <=> i \in m + 1 .. e
      BY <1>6, <3>1
    <3>3. \A i \in m + 1 .. e : i \in 1 .. e
      OBVIOUS
    <3> QED BY <1>10, <2>2, <3>2, <3>3
  <2>5. G!LogOf(1, since, until) =
          [snapshot |-> G!State(rs, {i \in positions : since = G!SinceLast \/ rs[i].at <= since}),
           events |-> G!Picked(rs, {i \in positions : rs[i].at > since /\ ~rs[i].inSnapshot})]
    BY <1>1, <1>2, <1>3, <2>1 DEF G!LogOf
  <2>6. G!Answer(since, until) = G!LogOf(1, since, until)
    BY <1>1, FilesSuffice, Zenon DEF G!ChosenSuffice
  <2> QED BY <1>11, <1>12, <2>3, <2>4, <2>5, <2>6
<1>14. I \in SUBSET (m + 1 .. e) /\ I \in SUBSET (1 .. Len(rs)) /\ 1 .. m \in SUBSET (1 .. Len(rs))
  BY <1>3, <1>9, <1>10
<1>15. \A i \in (m + 1 .. e) \ I : Said(rs, i) \in G!State(rs, 1 .. i - 1)
  <2>1. ASSUME NEW i \in (m + 1 .. e) \ I PROVE Said(rs, i) \in G!State(rs, 1 .. i - 1)
    <3>1. i \in 1 .. Len(rs) /\ rs[i].inSnapshot
      BY <1>3, <1>9, <1>10
    <3> QED BY <1>5, <3>1 DEF Chronicle
  <2> QED BY <2>1
<1>16. events \in Seq(G!Record) /\ Len(events) = Cardinality(I) /\ Cardinality(I) \in Nat /\ events # <<>>
  BY <1>12, <1>13, <1>14, PickedAt
<1>17. PICK start \in Logs :
          start = [saved |-> FALSE, snapshot |-> {}, events |-> <<>>, current |-> G!Active(state)]
  <2>1. G!Active(state) \in SUBSET LogPaths
    BY <1>11, <1>14, ActType
  <2>2. <<>> \in Seq(G!Record)
    OBVIOUS
  <2> QED BY <2>1, <2>2 DEF Logs
<1>18. PICK read : read = G!Reading(start, events)
  OBVIOUS
<1>19. IsReading(read, start, events)
  BY <1>16, <1>18, ReadingSteps
<1>20. PICK c \in Nat : c = Len(events)
  BY <1>16
<1>21. PICK log : log = read[c]
  OBVIOUS
<1>22. log = G!AlarmLog(since, until)
  BY <1>13, <1>17, <1>18, <1>20, <1>21 DEF G!AlarmLog
<1>23. ReadTo(read, rs, I, m, e) /\ UpToIn(I, e) = I
  <2>1. ~start.saved /\ start.events = <<>> /\ start.current = Act(rs, m)
    BY <1>11, <1>17 DEF Act
  <2>2. m \in 0 .. Len(rs) /\ e \in m .. Len(rs)
    BY <1>3, <1>9
  <2> QED BY <1>12, <1>14, <1>15, <1>19, <2>1, <2>2, ReadToEnd
<1>24. log \in Logs /\ log.snapshot = Act(rs, m) /\ Led(Act(rs, m), log.events, Act(rs, e))
  <2>1. c > 0 /\ c = Cardinality(UpToIn(I, e))
    BY <1>16, <1>20, <1>23, EmptySeq
  <2> QED BY <1>21, <1>23, <2>1, Zenon DEF ReadTo
<1>25. PICK a \in SUBSET LogPaths : a = Act(rs, m)
  BY <1>14, ActType DEF Act
<1>26. PICK b : b = Act(rs, e)
  OBVIOUS
<1>27. PICK ev \in Seq(G!Record) : ev = log.events
  BY <1>24 DEF Logs
<1>28. /\ G!After(a, ev)[Len(ev)] = b
       /\ \A k \in 1 .. Len(ev) : G!IsChange(G!After(a, ev)[k - 1], ev[k])
  BY <1>24, <1>25, <1>26, <1>27, LedAfter
<1>29. a = G!Active(G!State(records, {i \in DOMAIN records : records[i].at <= since}))
  <2>1. {i \in 1 .. n : rs[i].at <= since} = 1 .. m
    BY <1>6
  <2> QED BY <1>2, <1>4, <1>25, <2>1 DEF Act
<1>30. b = G!Active(G!State(records, {i \in DOMAIN records : records[i].at <= until - 1}))
  <2>1. {i \in 1 .. n : rs[i].at <= until - 1} = 1 .. e
    BY <1>7
  <2> QED BY <1>2, <1>4, <1>26, <2>1 DEF Act
<1> QED BY <1>22, <1>24, <1>25, <1>27, <1>28, <1>29, <1>30

(* A state is finite: each of its pairs has a last record of its own.      *)
LEMMA StateFinite ==
  ASSUME NEW rs, NEW n \in Nat PROVE IsFiniteSet(G!State(rs, 1 .. n))
<1>1. PICK S : S = G!State(rs, 1 .. n)
  OBVIOUS
<1>2. PICK f : f = [x \in S |-> CHOOSE i : IsLast(rs, 1 .. n, i) /\ x = Said(rs, i)]
  OBVIOUS
<1>3. ASSUME NEW x \in S PROVE f[x] \in 1 .. n /\ x = Said(rs, f[x])
  <2>1. \E i : IsLast(rs, 1 .. n, i) /\ x = Said(rs, i)
    BY <1>1, InState
  <2>2. IsLast(rs, 1 .. n, f[x]) /\ x = Said(rs, f[x])
    BY <1>2, <2>1, Zenon
  <2> QED BY <2>2 DEF IsLast
<1>4. f \in Injection(S, 1 .. n)
  <2>1. f \in [S -> 1 .. n]
    BY <1>2, <1>3
  <2>2. \A x, y \in S : f[x] = f[y] => x = y
    BY <1>3, Zenon
  <2> QED BY <2>1, <2>2 DEF Injection, IsInjective
<1>5. IsFiniteSet(1 .. n)
  BY FS_Interval
<1>6. IsFiniteSet(S)
  BY <1>4, <1>5, FS_Injection
<1> QED BY <1>1, <1>6

Lists(s, S) == s \in Seq(S) /\ \A x \in S : \E k \in 1 .. Len(s) : s[k] = x

LEMMA SetListed == ASSUME NEW S, IsFiniteSet(S) PROVE Lists(G!SetToSeq(S), S)
<1>1. PICK c \in Nat : c = Cardinality(S)
  BY FS_CardinalityType
<1>2. ExistsBijection(1 .. c, S)
  BY <1>1, FS_CardinalityType
<1>3. PICK g \in Injection(1 .. c, S) : TRUE
  BY <1>2 DEF ExistsBijection, Bijection
<1>4. PICK f : f = G!SetToSeq(S)
  OBVIOUS
<1>5. f = CHOOSE h \in [1 .. G!Cardinality(S) -> S] : G!IsInjective(h)
  BY <1>4 DEF G!SetToSeq
<1>6. f = CHOOSE h \in [1 .. c -> S] : G!IsInjective(h)
  BY <1>1, <1>5, CardinalityIsOne
<1>7. g \in [1 .. c -> S] /\ G!IsInjective(g)
  BY <1>3 DEF Injection, IsInjective, G!IsInjective
<1>8. f \in [1 .. c -> S] /\ G!IsInjective(f)
  BY <1>6, <1>7, Zenon
<1>9. f \in Injection(1 .. c, S)
  BY <1>8 DEF Injection, IsInjective, G!IsInjective
<1>10. Cardinality(1 .. c) = c
  <2>1. 1 \in Int /\ c \in Int
    OBVIOUS
  <2>2. Cardinality(1 .. c) = IF 1 > c THEN 0 ELSE c - 1 + 1
    BY <2>1, FS_Interval
  <2> QED BY <2>2
<1>11. f \in Surjection(1 .. c, S)
  BY <1>1, <1>9, <1>10, FS_Injection
<1>12. \A x \in S : \E k \in 1 .. c : f[k] = x
  BY <1>11 DEF Surjection
<1>13. f \in Seq(S) /\ Len(f) = c
  BY <1>8
<1> QED BY <1>4, <1>12, <1>13 DEF Lists

(* The snapshot of a new file: what the records before say, at the time of *)
(* its name.                                                               *)
Summary(s, state, name) ==
  /\ s \in Seq(G!Record)
  /\ \A k \in 1 .. Len(s) : s[k].at = name /\ s[k].inSnapshot /\ Said(s, k) \in state
  /\ \A x \in state : \E k \in 1 .. Len(s) : s[k].path = x[1]

LEMMA SnapshotSummary ==
  ASSUME NEW rs \in Seq(G!Record), NEW n \in Nat, n <= Len(rs), NEW name \in 1 .. LogTime,
         NEW state, state = G!State(rs, 1 .. n)
  PROVE  Summary(G!Snapshot(state, name), state, name)
<1>1. PICK pairs : pairs = G!SetToSeq(state)
  OBVIOUS
<1>2. IsFiniteSet(state)
  BY StateFinite
<1>3. Lists(pairs, state)
  BY <1>1, <1>2, SetListed
<1>4. PICK c \in Nat : c = Len(pairs) /\ DOMAIN pairs = 1 .. c
  BY <1>3 DEF Lists
<1>5. ASSUME NEW x \in state
      PROVE  \E p \in LogPaths, v \in G!Values : x = <<p, v>>
  <2>1. PICK i : IsLast(rs, 1 .. n, i) /\ x = Said(rs, i)
    BY InState
  <2>2. i \in 1 .. Len(rs)
    BY <2>1 DEF IsLast
  <2>3. PICK r \in G!Record : r = rs[i]
    BY <2>2, RecordAt
  <2>4. r.path \in LogPaths /\ r.value \in G!Values
    BY DEF G!Record
  <2> QED BY <2>1, <2>3, <2>4 DEF Said
<1>6. PICK s : s = G!Snapshot(state, name)
  OBVIOUS
<1>7. s = [i \in 1 .. c |-> [at |-> name, path |-> pairs[i][1], value |-> pairs[i][2], inSnapshot |-> TRUE]]
  BY <1>1, <1>4, <1>6 DEF G!Snapshot
<1>8. ASSUME NEW k \in 1 .. c
      PROVE  /\ s[k] \in G!Record /\ s[k].at = name /\ s[k].inSnapshot
             /\ Said(s, k) = pairs[k] /\ pairs[k] \in state
  <2>1. pairs[k] \in state
    BY <1>3, <1>4, ElementOfSeq DEF Lists
  <2>2. PICK p \in LogPaths, v \in G!Values : pairs[k] = <<p, v>>
    BY <1>5, <2>1
  <2>3. s[k] = [at |-> name, path |-> p, value |-> v, inSnapshot |-> TRUE]
    <3>1. s[k] = [at |-> name, path |-> pairs[k][1], value |-> pairs[k][2], inSnapshot |-> TRUE]
      BY <1>7, Zenon
    <3>2. pairs[k][1] = p /\ pairs[k][2] = v
      BY <2>2
    <3> QED BY <3>1, <3>2
  <2> QED BY <2>1, <2>2, <2>3 DEF Said, G!Record
<1>9. s \in Seq(G!Record) /\ Len(s) = c
  <2>1. \A k \in 1 .. c : s[k] \in G!Record
    BY <1>8
  <2> QED BY <1>7, <2>1
<1>10. ASSUME NEW x \in state PROVE \E k \in 1 .. c : s[k].path = x[1]
  <2>1. PICK k \in 1 .. c : pairs[k] = x
    BY <1>3, <1>4 DEF Lists
  <2> QED BY <1>7, <2>1
<1> QED BY <1>6, <1>8, <1>9, <1>10 DEF Summary

(* The records with such a snapshot before the one at d.                   *)
Spliced(qs, rs, d, s) ==
  /\ Len(qs) = Len(rs) + Len(s)
  /\ \A i \in 1 .. d - 1 : qs[i] = rs[i]
  /\ \A k \in 1 .. Len(s) : qs[d - 1 + k] = s[k]
  /\ \A i \in d .. Len(rs) : qs[i + Len(s)] = rs[i]

IsPart(r, q, a, b) == Len(r) = b - a + 1 /\ \A i \in 1 .. b - a + 1 : r[i] = q[a + i - 1]
IsJoin(r, p, q) ==
  /\ Len(r) = Len(p) + Len(q)
  /\ \A i \in 1 .. Len(p) + Len(q) : r[i] = IF i <= Len(p) THEN p[i] ELSE q[i - Len(p)]

LEMMA PartOf ==
  ASSUME NEW S, NEW q \in Seq(S), NEW a \in Nat \ {0}, NEW b \in Nat, b <= Len(q), a <= b + 1
  PROVE  SubSeq(q, a, b) \in Seq(S) /\ IsPart(SubSeq(q, a, b), q, a, b)
<1>1. \A i \in a .. b : q[i] \in S
  OBVIOUS
<1>2. a \in Int /\ b \in Int
  OBVIOUS
<1>3. /\ SubSeq(q, a, b) \in Seq(S)
      /\ Len(SubSeq(q, a, b)) = IF a <= b THEN b - a + 1 ELSE 0
      /\ \A i \in 1 .. b - a + 1 : SubSeq(q, a, b)[i] = q[a + i - 1]
  BY <1>1, <1>2, SubSeqProperties
<1>4. (IF a <= b THEN b - a + 1 ELSE 0) = b - a + 1
  OBVIOUS
<1> QED BY <1>3, <1>4 DEF IsPart

LEMMA JoinOf ==
  ASSUME NEW S, NEW p \in Seq(S), NEW q \in Seq(S)
  PROVE  p \o q \in Seq(S) /\ IsJoin(p \o q, p, q)
<1>1. /\ p \o q \in Seq(S)
      /\ Len(p \o q) = Len(p) + Len(q)
      /\ \A i \in 1 .. Len(p) + Len(q) : (p \o q)[i] = IF i <= Len(p) THEN p[i] ELSE q[i - Len(p)]
  BY ConcatProperties
<1> QED BY <1>1 DEF IsJoin

LEMMA SplicedOf ==
  ASSUME NEW S, NEW rs \in Seq(S), NEW s \in Seq(S), NEW d \in 1 .. Len(rs)
  PROVE  /\ SubSeq(rs, 1, d - 1) \o s \o SubSeq(rs, d, Len(rs)) \in Seq(S)
         /\ Spliced(SubSeq(rs, 1, d - 1) \o s \o SubSeq(rs, d, Len(rs)), rs, d, s)
<1>1. PICK n \in Nat : n = Len(rs)
  OBVIOUS
<1>2. PICK m \in Nat : m = Len(s)
  OBVIOUS
<1>3. PICK e \in Nat : e = d - 1 /\ e <= Len(rs) /\ 1 <= e + 1
  OBVIOUS
<1>4. PICK a \in Seq(S) : a = SubSeq(rs, 1, e) /\ IsPart(a, rs, 1, e)
  <2>1. 1 \in Nat \ {0} /\ e <= Len(rs) /\ 1 <= e + 1
    BY <1>3
  <2>2. SubSeq(rs, 1, e) \in Seq(S) /\ IsPart(SubSeq(rs, 1, e), rs, 1, e)
    BY <2>1, PartOf
  <2> QED BY <2>2
<1>5. Len(a) = d - 1 /\ \A i \in 1 .. d - 1 : a[i] = rs[i]
  BY <1>3, <1>4 DEF IsPart
<1>6. PICK b \in Seq(S) : b = SubSeq(rs, d, n) /\ IsPart(b, rs, d, n)
  <2>1. n <= Len(rs) /\ d <= n + 1 /\ d \in Nat \ {0}
    BY <1>1
  <2> QED BY <2>1, PartOf
<1>7. Len(b) = n - d + 1 /\ \A i \in 1 .. n - d + 1 : b[i] = rs[d + i - 1]
  BY <1>6 DEF IsPart
<1>8. PICK ab \in Seq(S) : ab = a \o s /\ IsJoin(ab, a, s)
  BY JoinOf
<1>9. Len(ab) = d - 1 + m /\ \A i \in 1 .. d - 1 + m : ab[i] = IF i <= d - 1 THEN a[i] ELSE s[i - (d - 1)]
  BY <1>2, <1>5, <1>8 DEF IsJoin
<1>10. PICK qs \in Seq(S) : qs = ab \o b /\ IsJoin(qs, ab, b)
  BY JoinOf
<1>11. /\ Len(qs) = (d - 1 + m) + (n - d + 1)
       /\ \A i \in 1 .. (d - 1 + m) + (n - d + 1) :
            qs[i] = IF i <= d - 1 + m THEN ab[i] ELSE b[i - (d - 1 + m)]
  BY <1>7, <1>9, <1>10 DEF IsJoin
<1>12. Len(qs) = n + m
  <2>1. d \in Int /\ (d - 1 + m) + (n - d + 1) = n + m
    OBVIOUS
  <2> QED BY <1>11, <2>1
<1>13. ASSUME NEW i \in 1 .. d - 1 PROVE qs[i] = rs[i]
  <2>1. i \in 1 .. (d - 1 + m) + (n - d + 1) /\ i <= d - 1 + m /\ i \in 1 .. d - 1 + m /\ i <= d - 1
    BY <1>1, <1>2
  <2> QED BY <1>5, <1>9, <1>11, <2>1
<1>14. ASSUME NEW k \in 1 .. m PROVE qs[d - 1 + k] = s[k]
  <2>1. PICK i \in Nat : i = d - 1 + k
    OBVIOUS
  <2>2. /\ i \in 1 .. (d - 1 + m) + (n - d + 1) /\ i <= d - 1 + m /\ i \in 1 .. d - 1 + m
        /\ ~(i <= d - 1) /\ i - (d - 1) = k
    BY <1>1, <1>2, <2>1
  <2> QED BY <1>9, <1>11, <2>1, <2>2
<1>15. ASSUME NEW j \in d .. n PROVE qs[j + m] = rs[j]
  <2>1. PICK i \in Nat : i = j + m
    OBVIOUS
  <2>2. PICK k \in 1 .. n - d + 1 : k = j - d + 1
    OBVIOUS
  <2>3. i \in 1 .. (d - 1 + m) + (n - d + 1) /\ ~(i <= d - 1 + m) /\ i - (d - 1 + m) = k /\ d + k - 1 = j
    BY <1>1, <1>2, <2>1, <2>2
  <2>4. qs[i] = b[k] /\ b[k] = rs[d + k - 1]
    BY <1>7, <1>11, <2>3
  <2> QED BY <2>1, <2>3, <2>4
<1>16. qs = SubSeq(rs, 1, d - 1) \o s \o SubSeq(rs, d, Len(rs))
  BY <1>1, <1>3, <1>4, <1>6, <1>8, <1>10
<1>17. Spliced(qs, rs, d, s)
  BY <1>1, <1>2, <1>12, <1>13, <1>14, <1>15 DEF Spliced
<1> QED BY <1>16, <1>17

LEMMA BeginsWellKept ==
  ASSUME NEW rs, NEW qs, NEW d \in Nat, NEW d1 \in Nat, d <= d1, NEW f, f.begin \in Nat,
         BeginsWell(rs, d, f), \A i \in 1 .. d - 1 : qs[i] = rs[i]
  PROVE  BeginsWell(qs, d1, f)
<1>1. PICK b \in Nat : b = f.begin
  OBVIOUS
<1>2. b < d
  BY <1>1 DEF BeginsWell
<1>3. ASSUME NEW i \in 1 .. b - 1
      PROVE  qs[i].at < f.name /\ \E j \in b .. d1 - 1 : qs[j].path = qs[i].path /\ qs[j].at = f.name
  <2>1. i \in 1 .. d - 1 /\ i \in Nat /\ i >= 1
    BY <1>2
  <2>2. rs[i].at < f.name /\ \E j \in b .. d - 1 : rs[j].path = rs[i].path /\ rs[j].at = f.name
    BY <1>1 DEF BeginsWell
  <2>3. PICK j \in b .. d - 1 : rs[j].path = rs[i].path /\ rs[j].at = f.name
    BY <2>2
  <2>4. j \in 1 .. d - 1 /\ j \in b .. d1 - 1
    BY <1>3, <2>1
  <2> QED BY <2>1, <2>2, <2>3, <2>4
<1>4. b < d1
  BY <1>2
<1> QED BY <1>1, <1>3, <1>4 DEF BeginsWell

LEMMA ChronicleMore ==
  ASSUME NEW rs \in Seq(G!Record), NEW t \in Nat, Chronicle(rs, t),
         NEW r \in G!Record, t <= r.at, ~r.inSnapshot
  PROVE  Chronicle(Append(rs, r), r.at)
<1>1. PICK n \in Nat : n = Len(rs)
  OBVIOUS
<1>2. PICK qs \in Seq(G!Record) : qs = Append(rs, r)
  BY AppendProperties
<1>3. Len(qs) = n + 1 /\ qs[n + 1] = r /\ \A i \in 1 .. n : qs[i] = rs[i]
  BY <1>1, <1>2, AppendProperties
<1>4. \A i \in 1 .. n + 1 : i = n + 1 \/ i \in 1 .. n
  OBVIOUS
<1>5. LogTime \in Nat /\ r.at \in Nat /\ \A i \in 1 .. n : rs[i].at \in Nat /\ rs[i].at <= t
  <2>1. LogTime \in Nat
    BY LogsAssumption DEF G!GetLogAssumption
  <2>2. \A i \in 1 .. n : rs[i].at \in Nat
    BY <1>1, <2>1, RecordAt
  <2>3. r.at \in Nat
    BY <2>1 DEF G!Record
  <2> QED BY <1>1, <2>1, <2>2, <2>3 DEF Chronicle
<1>6. \A i \in 1 .. n + 1 : qs[i].at <= r.at
  <2>1. \A i \in 1 .. n : rs[i].at <= r.at
    BY <1>5
  <2> QED BY <1>3, <1>4, <1>5, <2>1
<1>7. ASSUME NEW i \in 1 .. n + 1, NEW j \in 1 .. n + 1, i <= j PROVE qs[i].at <= qs[j].at
  <2>1. CASE j = n + 1
    BY <1>3, <1>6, <2>1
  <2>2. CASE j # n + 1
    <3>1. i \in 1 .. n /\ j \in 1 .. n
      BY <1>7, <2>2
    <3>2. rs[i].at <= rs[j].at
      BY <1>1, <1>7, <3>1 DEF Chronicle
    <3> QED BY <1>3, <3>1, <3>2
  <2> QED BY <2>1, <2>2
<1>8. ASSUME NEW i \in 1 .. n + 1, qs[i].inSnapshot PROVE Said(qs, i) \in G!State(qs, 1 .. i - 1)
  <2>1. i \in 1 .. n
    BY <1>3, <1>4, <1>8
  <2>2. Said(rs, i) \in G!State(rs, 1 .. i - 1)
    BY <1>1, <1>3, <1>8, <2>1 DEF Chronicle
  <2>3. \A j \in 1 .. i - 1 : j \in 1 .. n
    BY <2>1
  <2>4. \A j \in 1 .. i - 1 : rs[j] = qs[j]
    BY <1>3, <2>3
  <2>5. G!State(rs, 1 .. i - 1) = G!State(qs, 1 .. i - 1)
    BY <2>4, StateAgrees
  <2>6. Said(qs, i) = Said(rs, i)
    BY <1>3, <2>1 DEF Said
  <2> QED BY <2>2, <2>5, <2>6
<1>9. Chronicle(qs, r.at)
  BY <1>3, <1>6, <1>7, <1>8 DEF Chronicle
<1> QED BY <1>2, <1>9

LEMMA FilesFitMore ==
  ASSUME NEW rs \in Seq(G!Record), NEW js, NEW d \in 1 .. Len(rs) + 1, FilesFit(rs, js, d),
         \A k \in 1 .. Len(js) : js[k].begin \in Nat,
         NEW r \in G!Record, ~r.inSnapshot
  PROVE  FilesFit(Append(rs, r), js, d)
<1>1. PICK n \in Nat : n = Len(rs)
  OBVIOUS
<1>2. PICK qs \in Seq(G!Record) : qs = Append(rs, r)
  BY AppendProperties
<1>3. Len(qs) = n + 1 /\ qs[n + 1] = r /\ \A i \in 1 .. n : qs[i] = rs[i]
  BY <1>1, <1>2, AppendProperties
<1>4. \A i \in d .. n + 1 : i = n + 1 \/ (i \in d .. n /\ i \in 1 .. n)
  BY <1>1
<1>5. \A i \in d .. n + 1 : ~qs[i].inSnapshot
  <2>1. \A i \in d .. n : ~rs[i].inSnapshot
    BY <1>1 DEF FilesFit
  <2> QED BY <1>3, <1>4, <2>1, Zenon
<1>6. ASSUME NEW k \in 1 .. Len(js) PROVE BeginsWell(qs, d, js[k])
  <2>1. PICK f : f = js[k]
    OBVIOUS
  <2>2. BeginsWell(rs, d, f) /\ f.begin \in Nat
    BY <2>1 DEF FilesFit
  <2>3. \A i \in 1 .. d - 1 : i \in 1 .. n
    BY <1>1
  <2>4. \A i \in 1 .. d - 1 : qs[i] = rs[i]
    BY <1>3, <2>3
  <2>5. d \in Nat /\ d <= d
    OBVIOUS
  <2>6. BeginsWell(qs, d, f)
    BY <2>2, <2>4, <2>5, BeginsWellKept
  <2> QED BY <2>1, <2>6
<1>7. FilesFit(qs, js, d)
  BY <1>3, <1>5, <1>6 DEF FilesFit
<1> QED BY <1>2, <1>7

LEMMA FilesFitTrimmed ==
  ASSUME NEW rs \in Seq(G!Record), NEW js, js # <<>>, NEW d \in Nat, FilesFit(rs, js, d),
         \A k \in 1 .. Len(js) : js[k].begin \in Nat,
         NEW d1 \in Nat, d <= d1
  PROVE  FilesFit(rs, js, d1)
<1>1. \A i \in d1 .. Len(rs) : i \in d .. Len(rs)
  OBVIOUS
<1>2. \A i \in d1 .. Len(rs) : ~rs[i].inSnapshot
  BY <1>1 DEF FilesFit
<1>3. ASSUME NEW k \in 1 .. Len(js) PROVE BeginsWell(rs, d1, js[k])
  <2>1. PICK f : f = js[k]
    OBVIOUS
  <2>2. BeginsWell(rs, d, f) /\ f.begin \in Nat
    BY <2>1 DEF FilesFit
  <2>3. BeginsWell(rs, d1, f)
    BY <2>2, BeginsWellKept
  <2> QED BY <2>1, <2>3
<1> QED BY <1>2, <1>3 DEF FilesFit

LEMMA ChronicleSpliced ==
  ASSUME NEW rs \in Seq(G!Record), NEW t, Chronicle(rs, t), NEW d \in 1 .. Len(rs),
         \A i \in d .. Len(rs) : ~rs[i].inSnapshot,
         NEW s, Summary(s, G!State(rs, 1 .. d - 1), rs[d].at),
         NEW qs \in Seq(G!Record), Spliced(qs, rs, d, s)
  PROVE  Chronicle(qs, t)
<1>1. PICK n \in Nat : n = Len(rs)
  OBVIOUS
<1>2. PICK m \in Nat : m = Len(s)
  BY DEF Summary
<1>3. PICK e \in Nat : e = d - 1
  OBVIOUS
<1>4. PICK state : state = G!State(rs, 1 .. e)
  OBVIOUS
<1>5. \A k \in 1 .. m : s[k].at = rs[d].at /\ s[k].inSnapshot /\ Said(s, k) \in state
  BY <1>2, <1>3, <1>4 DEF Summary
<1>6. /\ Len(qs) = n + m
      /\ \A i \in 1 .. e : qs[i] = rs[i]
      /\ \A k \in 1 .. m : qs[e + k] = s[k]
      /\ \A i \in d .. n : qs[i + m] = rs[i]
  BY <1>1, <1>2, <1>3 DEF Spliced
<1>7. ASSUME NEW i \in 1 .. n + m
      PROVE  \/ i \in 1 .. e
             \/ \E k \in 1 .. m : i = e + k
             \/ \E j \in d .. n : i = j + m
  <2>1. i <= e \/ (i > e /\ i <= e + m) \/ i > e + m
    OBVIOUS
  <2>2. CASE i <= e
    BY <2>2
  <2>3. CASE i > e /\ i <= e + m
    <3>1. i - e \in 1 .. m /\ i = e + (i - e)
      BY <1>3, <2>3
    <3> QED BY <3>1, Zenon
  <2>4. CASE i > e + m
    <3>1. i - m \in d .. n /\ i = (i - m) + m
      BY <1>1, <1>3, <2>4
    <3> QED BY <3>1, Zenon
  <2> QED BY <2>1, <2>2, <2>3, <2>4, Zenon
<1>8. PICK o : o = [i \in 1 .. n + m |-> IF i <= e THEN i ELSE IF i <= e + m THEN d ELSE i - m]
  OBVIOUS
<1>9. \A i, j \in 1 .. n + m : o[i] \in 1 .. n /\ (i <= j => o[i] <= o[j])
  <2>1. d \in 1 .. n
    BY <1>1
  <2>2. \A i \in 1 .. n + m : o[i] = IF i <= e THEN i ELSE IF i <= e + m THEN d ELSE i - m
    BY <1>8
  <2> QED BY <1>3, <2>1, <2>2
<1>10. ASSUME NEW i \in 1 .. n + m PROVE qs[i].at = rs[o[i]].at
  <2>1. CASE i \in 1 .. e
    <3>1. o[i] = i
      BY <1>8, <2>1
    <3> QED BY <1>6, <2>1, <3>1
  <2>2. ASSUME NEW k \in 1 .. m, i = e + k PROVE qs[i].at = rs[o[i]].at
    <3>1. o[i] = d
      BY <1>8, <2>2
    <3>2. qs[i] = s[k] /\ s[k].at = rs[d].at
      BY <1>5, <1>6, <2>2
    <3> QED BY <3>1, <3>2
  <2>3. ASSUME NEW j \in d .. n, i = j + m PROVE qs[i].at = rs[o[i]].at
    <3>1. ~(i <= e + m) /\ ~(i <= e) /\ i - m = j
      BY <1>3, <2>3
    <3>2. o[i] = j
      BY <1>8, <3>1
    <3> QED BY <1>6, <2>3, <3>2
  <2> QED BY <1>7, <2>1, <2>2, <2>3
<1>11. \A i, j \in 1 .. n + m : i <= j => qs[i].at <= qs[j].at
  <2>1. \A i, j \in 1 .. n : i <= j => rs[i].at <= rs[j].at
    BY <1>1 DEF Chronicle
  <2> QED BY <1>9, <1>10, <2>1
<1>12. \A i \in 1 .. n + m : qs[i].at <= t
  <2>1. \A i \in 1 .. n : rs[i].at <= t
    BY <1>1 DEF Chronicle
  <2> QED BY <1>9, <1>10, <2>1
<1>13. PICK Q : Q = {k \in Nat : k <= m => G!State(qs, 1 .. e + k) = state}
  OBVIOUS
<1>14. 0 \in Q
  <2>1. \A i \in 1 .. e : rs[i] = qs[i]
    BY <1>6
  <2>2. G!State(rs, 1 .. e) = G!State(qs, 1 .. e)
    BY <2>1, StateAgrees
  <2>3. e + 0 = e
    OBVIOUS
  <2> QED BY <1>4, <1>13, <2>2, <2>3
<1>15. ASSUME NEW k \in Nat, k \in Q PROVE k + 1 \in Q
  <2> SUFFICES ASSUME k + 1 <= m PROVE G!State(qs, 1 .. e + (k + 1)) = state
    BY <1>13
  <2>1. k <= m /\ k + 1 \in 1 .. m
    OBVIOUS
  <2>2. PICK i \in Nat : i = e + k
    OBVIOUS
  <2>3. i + 1 = e + (k + 1)
    BY <2>2
  <2>4. G!State(qs, 1 .. i) = state
    BY <1>13, <1>15, <2>1, <2>2
  <2>5. Said(qs, i + 1) = Said(s, k + 1)
    BY <1>6, <2>1, <2>3 DEF Said
  <2>6. Said(qs, i + 1) \in G!State(qs, 1 .. i)
    BY <1>5, <2>1, <2>4, <2>5
  <2>7. G!State(qs, 1 .. i + 1) = G!State(qs, 1 .. i)
    BY <2>6, NoNews
  <2> QED BY <2>3, <2>4, <2>7
<1>16. \A k \in Nat : k <= m => G!State(qs, 1 .. e + k) = state
  <2>1. Nat \subseteq Q
    BY <1>14, <1>15, NatInSet
  <2> QED BY <1>13, <2>1
<1>17. ASSUME NEW i \in 1 .. n + m, qs[i].inSnapshot PROVE Said(qs, i) \in G!State(qs, 1 .. i - 1)
  <2>1. CASE i \in 1 .. e
    <3>1. i \in 1 .. n /\ \A j \in 1 .. i - 1 : j \in 1 .. e
      BY <1>1, <1>3, <2>1
    <3>2. qs[i] = rs[i] /\ \A j \in 1 .. i - 1 : rs[j] = qs[j]
      BY <1>6, <2>1, <3>1
    <3>3. Said(rs, i) \in G!State(rs, 1 .. i - 1)
      BY <1>1, <1>17, <3>1, <3>2 DEF Chronicle
    <3>4. G!State(rs, 1 .. i - 1) = G!State(qs, 1 .. i - 1)
      BY <3>2, StateAgrees
    <3>5. Said(qs, i) = Said(rs, i)
      BY <3>2 DEF Said
    <3> QED BY <3>3, <3>4, <3>5
  <2>2. ASSUME NEW k \in 1 .. m, i = e + k PROVE Said(qs, i) \in G!State(qs, 1 .. i - 1)
    <3>1. k - 1 \in Nat /\ k - 1 <= m /\ e + (k - 1) = i - 1
      BY <2>2
    <3>2. G!State(qs, 1 .. i - 1) = state
      BY <1>16, <3>1
    <3>3. Said(qs, i) = Said(s, k)
      BY <1>6, <2>2 DEF Said
    <3> QED BY <1>5, <3>2, <3>3
  <2>3. ASSUME NEW j \in d .. n, i = j + m PROVE FALSE
    BY <1>1, <1>6, <1>17, <2>3
  <2> QED BY <1>7, <2>1, <2>2, <2>3
<1> QED BY <1>6, <1>11, <1>12, <1>17 DEF Chronicle

LEMMA FilesFitSpliced ==
  ASSUME NEW rs \in Seq(G!Record), NEW T1, NEW js \in Seq(T1), NEW d \in 1 .. Len(rs), FilesFit(rs, js, d),
         \A k \in 1 .. Len(js) : js[k].begin \in Nat,
         NEW f \in T1, f.begin = d, f.name = rs[d].at,
         \A i \in 1 .. d - 1 : rs[i].at < f.name,
         NEW s, Summary(s, G!State(rs, 1 .. d - 1), rs[d].at),
         NEW qs \in Seq(G!Record), Spliced(qs, rs, d, s), NEW last \in d .. Len(rs)
  PROVE  FilesFit(qs, Append(js, f), last + Len(s) + 1)
<1>1. PICK n \in Nat : n = Len(rs)
  OBVIOUS
<1>2. PICK m \in Nat : m = Len(s)
  BY DEF Summary
<1>3. PICK e \in Nat : e = d - 1
  OBVIOUS
<1>4. PICK d1 \in Nat : d1 = last + m + 1
  OBVIOUS
<1>5. /\ Len(qs) = n + m
      /\ \A i \in 1 .. e : qs[i] = rs[i]
      /\ \A k \in 1 .. m : qs[e + k] = s[k]
      /\ \A i \in d .. n : qs[i + m] = rs[i]
  BY <1>1, <1>2, <1>3 DEF Spliced
<1>6. ASSUME NEW i \in d1 .. n + m PROVE ~qs[i].inSnapshot
  <2>1. PICK j \in d .. n : i = j + m
    BY <1>1, <1>4
  <2>2. ~rs[j].inSnapshot
    BY <1>1 DEF FilesFit
  <2> QED BY <1>5, <2>1, <2>2
<1>7. PICK js1 : js1 = Append(js, f)
  OBVIOUS
<1>8. PICK c \in Nat : c = Len(js)
  OBVIOUS
<1>9. js1 # <<>> /\ Len(js1) = c + 1 /\ js1[c + 1] = f /\ \A k \in 1 .. c : js1[k] = js[k]
  BY <1>7, <1>8, AppendProperties
<1>10. js1[1].begin = 1
  <2>1. CASE c = 0
    <3>1. js = <<>>
      BY <1>8, <2>1, EmptySeq
    <3>2. d = 1
      BY <3>1 DEF FilesFit
    <3> QED BY <1>9, <2>1, <3>2
  <2>2. CASE c # 0
    <3>1. 1 \in 1 .. c /\ js # <<>>
      BY <1>8, <2>2, EmptySeq
    <3> QED BY <1>9, <3>1 DEF FilesFit
  <2> QED BY <2>1, <2>2
<1>11. ASSUME NEW k \in 1 .. c PROVE BeginsWell(qs, d1, js1[k])
  <2>1. PICK g : g = js[k]
    OBVIOUS
  <2>2. BeginsWell(rs, d, g) /\ g.begin \in Nat
    BY <1>8, <2>1 DEF FilesFit
  <2>3. d \in Nat /\ d <= d1 /\ \A i \in 1 .. d - 1 : qs[i] = rs[i]
    BY <1>3, <1>4, <1>5
  <2>4. BeginsWell(qs, d1, g)
    BY <2>2, <2>3, BeginsWellKept
  <2> QED BY <1>9, <2>1, <2>4
<1>12. BeginsWell(qs, d1, f)
  <2>1. d < d1
    BY <1>4
  <2>2. ASSUME NEW i \in 1 .. e
        PROVE  qs[i].at < f.name /\ \E j \in d .. d1 - 1 : qs[j].path = qs[i].path /\ qs[j].at = f.name
    <3>1. qs[i] = rs[i] /\ rs[i].at < f.name
      BY <1>3, <1>5
    <3>2. PICK x \in G!State(rs, 1 .. e) : x[1] = rs[i].path
      <4>1. PICK I \in SUBSET (1 .. e) : I = 1 .. e
        OBVIOUS
      <4>2. i \in I
        BY <4>1
      <4>3. PICK l : IsLast(rs, I, l) /\ rs[l].path = rs[i].path
        BY <4>1, <4>2, LastRecord
      <4>4. Said(rs, l) \in G!State(rs, I)
        BY <4>3, InState
      <4> QED BY <4>1, <4>3, <4>4 DEF Said
    <3>3. PICK k \in 1 .. m : s[k].path = x[1] /\ s[k].at = rs[d].at
      BY <1>2, <1>3, <3>2 DEF Summary
    <3>4. e + k \in d .. d1 - 1
      BY <1>3, <1>4
    <3>5. qs[e + k].path = qs[i].path /\ qs[e + k].at = f.name
      BY <1>5, <3>1, <3>2, <3>3
    <3> QED BY <3>1, <3>4, <3>5
  <2> QED BY <1>3, <2>1, <2>2 DEF BeginsWell
<1>13. \A k \in 1 .. c + 1 : k = c + 1 \/ k \in 1 .. c
  OBVIOUS
<1>14. \A k \in 1 .. c + 1 : BeginsWell(qs, d1, js1[k])
  BY <1>9, <1>11, <1>12, <1>13
<1>15. FilesFit(qs, js1, d1)
  BY <1>5, <1>6, <1>9, <1>10, <1>14 DEF FilesFit
<1> QED BY <1>2, <1>4, <1>7, <1>15

Files(n) == [name : 1 .. LogTime, begin : 1 .. n]

LEMMA FilesGrow == ASSUME NEW n \in Nat, NEW m \in Nat PROVE Files(n) \subseteq Files(n + m)
  BY DEF Files

LEMMA FileAt ==
  ASSUME NEW n \in Nat, NEW js \in Seq(Files(n)), NEW k \in 1 .. Len(js) PROVE js[k].begin \in Nat
<1>1. js[k] \in Files(n)
  BY ElementOfSeq
<1>2. PICK f \in Files(n) : f = js[k]
  BY <1>1
<1>3. f.begin \in Nat
  BY DEF Files
<1> QED BY <1>2, <1>3

LEMMA InitRecordsInv == ASSUME G!Init PROVE RecordsInv
<1>1. records = <<>> /\ journals = <<>> /\ dirtyAt = 1 /\ now = 1
  BY DEF G!Init
<1>2. Len(records) = 0 /\ Len(journals) = 0
  BY <1>1
<1>3. LogTime \in Nat \ {0}
  BY LogsAssumption DEF G!GetLogAssumption
<1>4. \A i \in 1 .. 0 : FALSE
  OBVIOUS
<1>5. Chronicle(records, now)
  BY <1>2, <1>4, Zenon DEF Chronicle
<1>6. FilesFit(records, journals, dirtyAt)
  <2>1. \A i \in dirtyAt .. Len(records) : FALSE
    BY <1>1, <1>2
  <2> QED BY <1>1, <1>2, <1>4, <2>1, Zenon DEF FilesFit
<1>7. G!TypeOK
  BY <1>1, <1>3 DEF G!TypeOK
<1> QED BY <1>5, <1>6, <1>7 DEF RecordsInv

LEMMA ChangedRecordsInv ==
  ASSUME RecordsInv, NEW p \in LogPaths, NEW v \in G!Values, NEW t \in now .. LogTime, G!Changed(p, v, t)
  PROVE  RecordsInv'
<1>1. LogTime \in Nat
  BY LogsAssumption DEF G!GetLogAssumption
<1>2. PICK rs \in Seq(G!Record) : rs = records
  BY DEF RecordsInv, G!TypeOK
<1>3. PICK n \in Nat : n = Len(rs)
  OBVIOUS
<1>4. PICK js \in Seq(Files(n)) : js = journals
  BY <1>2, <1>3 DEF RecordsInv, G!TypeOK, Files
<1>5. PICK d \in 1 .. n + 1 : d = dirtyAt
  BY <1>2, <1>3 DEF RecordsInv, G!TypeOK
<1>6. PICK t0 \in 1 .. LogTime : t0 = now
  BY DEF RecordsInv, G!TypeOK
<1>7. t \in t0 .. LogTime
  BY <1>6
<1>8. PICK r \in G!Record : r = G!Entry(p, v, t) /\ r.at = t /\ ~r.inSnapshot
  <2>1. t \in 1 .. LogTime
    BY <1>1, <1>7
  <2>2. [at |-> t, path |-> p, value |-> v, inSnapshot |-> FALSE] \in G!Record
    BY <2>1 DEF G!Record
  <2> QED BY <2>2 DEF G!Entry
<1>9. records' = Append(rs, r) /\ journals' = js /\ dirtyAt' = d /\ now' = t
  BY <1>2, <1>4, <1>5, <1>8 DEF G!Changed
<1>10. Chronicle(rs, t0) /\ FilesFit(rs, js, d)
  BY <1>2, <1>4, <1>5, <1>6 DEF RecordsInv
<1>11. Chronicle(Append(rs, r), t)
  <2>1. t0 \in Nat /\ t0 <= r.at
    BY <1>1, <1>7, <1>8
  <2>2. Chronicle(Append(rs, r), r.at)
    BY <1>8, <1>10, <2>1, ChronicleMore
  <2> QED BY <1>8, <2>2
<1>12. FilesFit(Append(rs, r), js, d)
  <2>1. \A k \in 1 .. Len(js) : js[k].begin \in Nat
    BY FileAt
  <2>2. d \in 1 .. Len(rs) + 1
    BY <1>3
  <2> QED BY <1>8, <1>10, <2>1, <2>2, FilesFitMore
<1>13. Append(rs, r) \in Seq(G!Record) /\ Len(Append(rs, r)) = n + 1
  BY <1>3, AppendProperties
<1>14. js \in Seq(Files(n + 1))
  <2>1. Files(n) \subseteq Files(n + 1)
    BY FilesGrow
  <2> QED BY <2>1, SeqMonotonic
<1>15. d \in 1 .. (n + 1) + 1 /\ t \in 1 .. LogTime
  BY <1>1, <1>7
<1> QED BY <1>9, <1>11, <1>12, <1>13, <1>14, <1>15 DEF RecordsInv, G!TypeOK, Files

LEMMA SyncedRecordsInv ==
  ASSUME RecordsInv, NEW last, NEW inNew, G!Synced(last, inNew)
  PROVE  RecordsInv'
<1>1. LogTime \in Nat
  BY LogsAssumption DEF G!GetLogAssumption
<1>2. PICK rs \in Seq(G!Record) : rs = records
  BY DEF RecordsInv, G!TypeOK
<1>3. PICK n \in Nat : n = Len(rs)
  OBVIOUS
<1>4. PICK js \in Seq(Files(n)) : js = journals
  BY <1>2, <1>3 DEF RecordsInv, G!TypeOK, Files
<1>5. PICK d \in 1 .. n + 1 : d = dirtyAt
  BY <1>2, <1>3 DEF RecordsInv, G!TypeOK
<1>6. PICK t0 \in 1 .. LogTime : t0 = now
  BY DEF RecordsInv, G!TypeOK
<1>7. Chronicle(rs, t0) /\ FilesFit(rs, js, d)
  BY <1>2, <1>4, <1>5, <1>6 DEF RecordsInv
<1>8. /\ last \in d .. n /\ now' = t0
      /\ js = <<>> => inNew
  BY <1>2, <1>3, <1>4, <1>5, <1>6 DEF G!Synced
<1>9. d \in 1 .. Len(rs) /\ last \in d .. Len(rs) /\ d \in 1 .. n
  BY <1>3, <1>8
<1>10. \A k \in 1 .. Len(js) : js[k].begin \in Nat
  BY FileAt
<1>11. CASE inNew
  <2>1. PICK name \in 1 .. LogTime : name = rs[d].at
    BY <1>9, RecordAt
  <2>2. PICK state : state = G!State(rs, 1 .. d - 1)
    OBVIOUS
  <2>3. PICK s : s = G!Snapshot(state, name)
    OBVIOUS
  <2>4. PICK qs : qs = SubSeq(rs, 1, d - 1) \o s \o SubSeq(rs, d, Len(rs))
    OBVIOUS
  <2>5. PICK f : f = [name |-> name, begin |-> d]
    OBVIOUS
  <2>6. /\ records' = qs /\ journals' = Append(js, f) /\ dirtyAt' = last + Len(s) + 1
        /\ \A i \in 1 .. d - 1 : rs[i].at < name
    BY <1>2, <1>4, <1>5, <1>11, <2>1, <2>2, <2>3, <2>4, <2>5 DEF G!Synced
  <2>7. Summary(s, state, name)
    <3>1. PICK e \in Nat : e = d - 1 /\ e <= Len(rs)
      BY <1>9
    <3>2. state = G!State(rs, 1 .. e)
      BY <2>2, <3>1
    <3> QED BY <2>3, <3>1, <3>2, SnapshotSummary
  <2>8. s \in Seq(G!Record)
    BY <2>7 DEF Summary
  <2>9. qs \in Seq(G!Record) /\ Spliced(qs, rs, d, s)
    BY <1>9, <2>4, <2>8, SplicedOf
  <2>10. Chronicle(qs, t0)
    <3>1. \A i \in d .. Len(rs) : ~rs[i].inSnapshot
      BY <1>7 DEF FilesFit
    <3>2. Summary(s, G!State(rs, 1 .. d - 1), rs[d].at)
      BY <2>1, <2>2, <2>7
    <3> QED BY <1>7, <1>9, <2>9, <3>1, <3>2, ChronicleSpliced
  <2>11. f \in Files(n) /\ f.begin = d /\ f.name = rs[d].at /\ f.name = name
    BY <1>9, <2>1, <2>5 DEF Files
  <2>12. FilesFit(qs, Append(js, f), last + Len(s) + 1)
    <3>1. Summary(s, G!State(rs, 1 .. d - 1), rs[d].at)
      BY <2>1, <2>2, <2>7
    <3>2. \A i \in 1 .. d - 1 : rs[i].at < f.name
      BY <2>6, <2>11
    <3> QED BY <1>7, <1>9, <1>10, <2>9, <2>11, <3>1, <3>2, FilesFitSpliced
  <2>13. PICK m \in Nat : m = Len(s)
    BY <2>8
  <2>14. Len(qs) = n + m
    BY <1>3, <2>9, <2>13 DEF Spliced
  <2>15. Append(js, f) \in Seq(Files(n + m))
    <3>1. Append(js, f) \in Seq(Files(n))
      BY <2>11, AppendProperties
    <3>2. Files(n) \subseteq Files(n + m)
      BY FilesGrow
    <3>3. PICK js1 \in Seq(Files(n)) : js1 = Append(js, f)
      BY <3>1
    <3>4. js1 \in Seq(Files(n + m))
      BY <3>2, SeqMonotonic
    <3> QED BY <3>3, <3>4
  <2>16. last + m + 1 \in 1 .. (n + m) + 1
    BY <1>8
  <2>17. G!TypeOK'
    BY <1>8, <2>6, <2>9, <2>13, <2>14, <2>15, <2>16 DEF G!TypeOK, Files
  <2> QED BY <1>8, <2>6, <2>10, <2>12, <2>17 DEF RecordsInv
<1>12. CASE ~inNew
  <2>1. records' = rs /\ journals' = js /\ dirtyAt' = last + 1 /\ js # <<>>
    BY <1>2, <1>4, <1>8, <1>12, Zenon DEF G!Synced
  <2>2. d \in Nat /\ last + 1 \in Nat /\ d <= last + 1 /\ last + 1 \in 1 .. n + 1
    BY <1>8
  <2>3. FilesFit(rs, js, last + 1)
    BY <1>7, <1>10, <2>1, <2>2, FilesFitTrimmed
  <2>4. G!TypeOK'
    BY <1>3, <1>8, <2>1, <2>2 DEF G!TypeOK, Files
  <2> QED BY <1>7, <1>8, <2>1, <2>3, <2>4 DEF RecordsInv
<1> QED BY <1>11, <1>12

(* What a behaviour of MCSpec keeps: the parts share no state.             *)
LogsInv == TreeInv /\ RecordsInv

LEMMA InitLogsInv == ASSUME MCInit PROVE LogsInv
  BY InitTreeInv, InitRecordsInv DEF MCInit, LogsInv

LEMMA TreeInvKept == ASSUME TreeInv, UNCHANGED tVars PROVE TreeInv'
<1>1. kind' = kind /\ dirty' = dirty /\ slaveFiles' = slaveFiles
  BY DEF tVars
<1>2. /\ T!SiteNodes' = T!SiteNodes /\ T!Slaves' = T!Slaves
      /\ \A path : T!LongestPrefix(path)' = T!LongestPrefix(path)
  BY <1>1 DEF T!SiteNodes, T!Slaves, T!HpNodes, T!LongestPrefix
<1>3. \A x : (DirtyRight(x)' <=> DirtyRight(x)) /\ (FileRight(x)' <=> FileRight(x))
  BY <1>2 DEF DirtyRight, FileRight
<1> QED BY <1>1, <1>3 DEF TreeInv

LEMMA LogsInvStep == ASSUME LogsInv, [MCNext]_allVars PROVE LogsInv'
<1>1. CASE UNCHANGED <<gVars, tVars>>
  <2>1. TreeInv'
    BY <1>1, TreeInvKept DEF LogsInv
  <2>2. RecordsInv'
    BY <1>1 DEF gVars, LogsInv, RecordsInv, G!TypeOK
  <2> QED BY <2>1, <2>2 DEF LogsInv
<1>2. CASE G!Next /\ UNCHANGED tVars
  <2>1. RecordsInv'
    <3>1. CASE \E p \in LogPaths, v \in G!Values, t \in now .. LogTime : G!Changed(p, v, t)
      BY <3>1, ChangedRecordsInv DEF LogsInv
    <3>2. CASE \E last \in DOMAIN records, inNew \in BOOLEAN : G!Synced(last, inNew)
      BY <3>2, SyncedRecordsInv DEF LogsInv
    <3> QED BY <1>2, <3>1, <3>2 DEF G!Next
  <2>2. TreeInv'
    BY <1>2, TreeInvKept DEF LogsInv
  <2> QED BY <2>1, <2>2 DEF LogsInv
<1>3. CASE T!Next /\ UNCHANGED gVars
  <2>1. TreeInv'
    BY <1>3, TreeInvStep DEF LogsInv
  <2>2. RecordsInv'
    BY <1>3 DEF gVars, LogsInv, RecordsInv, G!TypeOK
  <2> QED BY <2>1, <2>2 DEF LogsInv
<1>4. \/ UNCHANGED <<gVars, tVars>>
      \/ G!Next /\ UNCHANGED tVars
      \/ T!Next /\ UNCHANGED gVars
  BY DEF MCNext, allVars
<1> QED BY <1>1, <1>2, <1>3, <1>4

(* Whatever the tree of the sites, the synced and the signalled entries of *)
(* a site are in the one directory its node reads; whatever is signalled   *)
(* and synced, a request that begins to read at the newest file that       *)
(* suffices is answered as from all files; and the changes that alarmLog   *)
(* answers lead from the alarms active before to those active after.       *)
THEOREM LogsAreFound == MCSpec => []LogsFound
<1>1. MCInit => LogsInv
  BY InitLogsInv
<1>2. LogsInv /\ [MCNext]_allVars => LogsInv'
  BY LogsInvStep
<1>3. LogsInv => LogsFound
  BY TreeInvTrue, FilesSuffice, LogsRebuild DEF LogsInv, LogsFound, RecordsInv
<1> QED BY <1>1, <1>2, <1>3, PTL DEF MCSpec
=============================================================================
