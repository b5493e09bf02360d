---------------------------- MODULE TunnelProofs ----------------------------
(***************************************************************************)
(* The invariants of Tunnel for any number of clients, whatever request    *)
(* ids their connections count, and for any number of faults, chunks and   *)
(* retries.                                                                *)
(*                                                                         *)
(* That a terminal shows one shell without a gap needs to know what is on  *)
(* the way to a client: data follows on data, up to the first message of   *)
(* another kind, at which the client quits.  That a shell runs only behind *)
(* its client's tunnel needs to know that a CreateTunnelRequest and the    *)
(* answer to it are there once, and that a shvrexec finds its peer before  *)
(* it asks for a tunnel.                                                   *)
(***************************************************************************)
EXTENDS Tunnel, SequenceTheorems, TLAPS

\* A client's launch is on its way to the agent, waits there, or was started, never two of these.
Launches ==
  \A c \in Clients :
    /\ c \in calls => c \notin callbacks /\ client[c] # "idle" /\ rexec[c] = "none"
    /\ c \in callbacks => client[c] # "idle" /\ rexec[c] = "none"
    /\ rexec[c] # "none" => client[c] # "idle"

\* The peer of a shvrexec made its call with the request id of the client it was started for.
SameId == \A x \in Clients : requestId[peer[x]] = requestId[x]

\* A shvrexec that was asked to connect to a peer before it asked for a tunnel.
Asks(x) == rexec[x] \notin {"none", "started"}

\* A client writes to a shvrexec that asked it for a tunnel.
WrittenTo == \A c, x \in Clients : writeTo[c] = <<x>> => peer[x] = c /\ Asks(x)

\* A shell that runs, or wrote something, has the tunnel of its peer.
Behind ==
  \A x \in Clients : rexec[x] \in {"running", "failed"} \/ written[x] > 0 => writeTo[peer[x]] = <<x>>

\* No two messages of a kind, where equal ones are one.
Once(q, kind) == \A i, j \in DOMAIN q : q[i].kind = kind /\ q[j] = q[i] => i = j

\* A CreateTunnelRequest is there at most once, and before the tunnel is open.
Asked(c, x) == peer[x] = c /\ Asks(x) /\ writeTo[c] # <<x>>

Creates ==
  \A c \in Clients :
    /\ Once(toClient[c], "create")
    /\ \A i \in DOMAIN toClient[c] : \A x \in Clients : toClient[c][i] = Create(x) => Asked(c, x)

\* So is the answer to it, and it is there before the shell is.
Accepted ==
  \A x \in Clients :
    /\ toRexec[x] # <<>> => Alive(x)
    /\ Once(toRexec[x], "created")
    /\ \A i \in DOMAIN toRexec[x] : toRexec[x][i].kind = "created" =>
         writeTo[peer[x]] = <<x>> /\ rexec[x] \notin {"running", "failed"}

First(m) == m.chunks[1][2]
Last(m) == First(m) + Len(m.chunks) - 1

\* Data on its way to a client is from the shell its tunnel leads to, chunk by chunk.
OfShell(w, m) ==
  m.kind = "data" =>
    /\ w = <<m.from>> /\ m.chunks # <<>>
    /\ \A k \in DOMAIN m.chunks : m.chunks[k] = <<m.from, First(m) + k - 1>>

DataFrom == \A c \in Clients : \A i \in DOMAIN toClient[c] : OfShell(writeTo[c], toClient[c][i])

\* A client that has n chunks takes the first i messages of the queue q, if all
\* are data.  Data follows on data, up to chunk s.
Flows(q, i) == i = 0 \/ q[i].kind = "data"
Upto(n, q, i) == IF i = 0 THEN n ELSE Last(q[i])

Continues(n, q, s) ==
  /\ \A i \in DOMAIN q : q[i].kind = "data" /\ Flows(q, i - 1) => First(q[i]) = Upto(n, q, i - 1) + 1
  /\ Flows(q, Len(q)) => Upto(n, q, Len(q)) = s

\* On what a client has follows what is on its way to it, up to what the shell has sent.
Has(c) == Len(shown[c]) + Len(buff[c])
Gapless ==
  \A c \in Clients : client[c] # "gone" /\ writeTo[c] # <<>> =>
    Continues(Has(c), toClient[c], sent[Head(writeTo[c])])

\* Without a tunnel nothing is shown.
Bare == \A c \in Clients : writeTo[c] = <<>> => shown[c] = <<>> /\ buff[c] = <<>>

IInv ==
  /\ TypeOK /\ Launches /\ SameId /\ WrittenTo /\ Behind /\ Creates /\ Accepted /\ DataFrom /\ Gapless /\ Bare
  /\ OneOutput

-----------------------------------------------------------------------------
(* Messages.                                                               *)

LEMMA MessageTypes ==
  ASSUME NEW x \in Clients
  PROVE  /\ Create(x) \in Messages /\ Close(x) \in Messages /\ Error(x) \in Messages
         /\ Create(x).kind = "create" /\ Create(x).from = x
         /\ Close(x).kind = "close" /\ Error(x).kind = "error"
  BY DEF Create, Close, Error, Messages

\* What a shell wrote from chunk a to chunk b.
LEMMA DataType ==
  ASSUME NEW x \in Clients, NEW a \in Nat \ {0}, NEW b \in Nat, a <= b
  PROVE  /\ Data(x, a, b) \in Messages
         /\ Data(x, a, b).kind = "data" /\ Data(x, a, b).from = x
         /\ Data(x, a, b).chunks # <<>>
         /\ First(Data(x, a, b)) = a /\ Last(Data(x, a, b)) = b
         /\ \A k \in DOMAIN Data(x, a, b).chunks : Data(x, a, b).chunks[k] = <<x, a + k - 1>>
<1> DEFINE q == [i \in 1..(b - a + 1) |-> <<x, a + i - 1>>]
<1>1. b - a + 1 \in Nat /\ b - a + 1 >= 1
  OBVIOUS
<1>2. \A i \in 1..(b - a + 1) : <<x, a + i - 1>> \in Chunks
  BY DEF Chunks
<1>3. q \in Seq(Chunks) /\ Len(q) = b - a + 1 /\ DOMAIN q = 1..(b - a + 1)
  BY <1>1, <1>2
<1>4. q # <<>>
  BY <1>1, <1>3
<1>5. q[1] = <<x, a>> /\ \A k \in DOMAIN q : q[k] = <<x, a + k - 1>>
  BY <1>1, <1>3
<1>6. Data(x, a, b) = [kind |-> "data", from |-> x, chunks |-> q]
  BY DEF Data
<1> HIDE DEF q
<1>7. Data(x, a, b) \in Messages
  BY <1>3, <1>6 DEF Messages
<1>8. Data(x, a, b).kind = "data" /\ Data(x, a, b).from = x /\ Data(x, a, b).chunks = q
  BY <1>6
<1>9. First(Data(x, a, b)) = a /\ Last(Data(x, a, b)) = b
  <2>1. First(Data(x, a, b)) = q[1][2] /\ q[1][2] = a
    BY <1>5, <1>8 DEF First
  <2>2. Last(Data(x, a, b)) = a + (b - a + 1) - 1
    BY <1>3, <1>8, <2>1 DEF Last
  <2> QED BY <2>1, <2>2
<1> QED BY <1>4, <1>5, <1>7, <1>8, <1>9

\* The broker forwards m to d at the end of its queue, or drops it.
LEMMA Forwarded ==
  ASSUME TypeOK, NEW d \in Clients, NEW m \in Messages, toClient' = ToClient(d, m)
  PROVE  /\ toClient' \in [Clients -> Seq(Messages)]
         /\ \A c \in Clients : c # d \/ client[d] = "gone" => toClient'[c] = toClient[c]
         /\ client[d] # "gone" => toClient'[d] = Append(toClient[d], m)
<1>1. toClient[d] \in Seq(Messages)
  BY DEF TypeOK
<1>2. Append(toClient[d], m) \in Seq(Messages)
  BY <1>1
<1>3. toClient' = [toClient EXCEPT ![d] = IF client[d] = "gone" THEN toClient[d] ELSE Append(toClient[d], m)]
  BY DEF ToClient
<1>4. toClient' \in [Clients -> Seq(Messages)]
  BY <1>1, <1>2, <1>3 DEF TypeOK
<1>5. \A c \in Clients : c # d \/ client[d] = "gone" => toClient'[c] = toClient[c]
  BY <1>3 DEF TypeOK
<1>6. ASSUME client[d] # "gone" PROVE toClient'[d] = Append(toClient[d], m)
  BY <1>3, <1>6 DEF TypeOK
<1> QED BY <1>4, <1>5, <1>6

LEMMA ForwardedBack ==
  ASSUME TypeOK, NEW x \in Clients,
         NEW m \in RexecMessages, toRexec' = ToRexec(x, m)
  PROVE  /\ toRexec' \in [Clients -> Seq(RexecMessages)]
         /\ \A y \in Clients : y # x \/ ~Alive(x) => toRexec'[y] = toRexec[y]
         /\ Alive(x) => toRexec'[x] = Append(toRexec[x], m)
<1>1. toRexec[x] \in Seq(RexecMessages)
  BY DEF TypeOK
<1>2. Append(toRexec[x], m) \in Seq(RexecMessages)
  BY <1>1
<1>3. toRexec' = [toRexec EXCEPT ![x] = IF Alive(x) THEN Append(toRexec[x], m) ELSE toRexec[x]]
  BY DEF ToRexec
<1>4. toRexec \in [Clients -> Seq(RexecMessages)]
  BY DEF TypeOK
<1>5. toRexec' \in [Clients -> Seq(RexecMessages)]
  BY <1>1, <1>2, <1>3, <1>4
<1>6. \A y \in Clients : y # x \/ ~Alive(x) => toRexec'[y] = toRexec[y]
  BY <1>3, <1>4
<1>7. ASSUME Alive(x) PROVE toRexec'[x] = Append(toRexec[x], m)
  BY <1>3, <1>4, <1>7
<1> QED BY <1>5, <1>6, <1>7

LEMMA Writes ==
  ASSUME TypeOK, NEW c \in Clients, writeTo[c] # <<>>
  PROVE  Head(writeTo[c]) \in Clients /\ writeTo[c] = <<Head(writeTo[c])>>
<1>1. writeTo[c] \in {<<>>} \cup {<<x>> : x \in Clients}
  BY DEF TypeOK
<1>2. PICK x \in Clients : writeTo[c] = <<x>>
  BY <1>1
<1> QED BY <1>2

LEMMA HasNat ==
  ASSUME TypeOK, NEW c \in Clients
  PROVE  Has(c) \in Nat
<1> DEFINE a == Len(shown[c])
<1> DEFINE b == Len(buff[c])
<1>1. shown[c] \in Seq(Chunks) /\ buff[c] \in Seq(Chunks)
  BY DEF TypeOK
<1>2. a \in Nat /\ b \in Nat /\ Has(c) = a + b
  BY <1>1 DEF Has
<1> HIDE DEF a, b
<1> QED BY <1>2

\* The messages of the client that quits are gone, the others stay.
LEMMA Quits ==
  ASSUME TypeOK, NEW c \in Clients, ClientGone(c)
  PROVE  /\ client' \in [Clients -> {"idle", "asked", "open", "gone"}]
         /\ toClient' \in [Clients -> Seq(Messages)] /\ buff' \in [Clients -> Seq(Chunks)]
         /\ client'[c] = "gone" /\ toClient'[c] = <<>> /\ buff'[c] = <<>>
         /\ \A d \in Clients \ {c} :
              client'[d] = client[d] /\ toClient'[d] = toClient[d] /\ buff'[d] = buff[d]
  BY DEF TypeOK, ClientGone

-----------------------------------------------------------------------------
(* Queues.                                                                 *)

LEMMA Concatenation ==
  ASSUME NEW S, NEW q \in Seq(S), NEW r \in Seq(S)
  PROVE  /\ q \o r \in Seq(S) /\ Len(q \o r) = Len(q) + Len(r) /\ Len(q) \in Nat /\ Len(r) \in Nat
         /\ DOMAIN (q \o r) = 1..(Len(q) + Len(r))
         /\ \A i \in DOMAIN q : i \in DOMAIN (q \o r) /\ (q \o r)[i] = q[i]
         /\ \A i \in DOMAIN r : (q \o r)[Len(q) + i] = r[i]
<1>1. /\ q \o r \in Seq(S) /\ Len(q \o r) = Len(q) + Len(r)
      /\ \A i \in 1..(Len(q) + Len(r)) : (q \o r)[i] = IF i <= Len(q) THEN q[i] ELSE r[i - Len(q)]
  BY ConcatProperties, Zenon
<1>2. /\ Len(q) \in Nat /\ Len(r) \in Nat /\ DOMAIN q = 1..Len(q) /\ DOMAIN r = 1..Len(r)
  OBVIOUS
<1>3. DOMAIN (q \o r) = 1..(Len(q) + Len(r))
  BY <1>1, <1>2
<1> QED BY <1>1, <1>2, <1>3

LEMMA Associative ==
  \A S : \A q, r, s \in Seq(S) : (q \o r) \o s = q \o (r \o s)
BY ConcatAssociative

\* The first chunks of the output of x.
Numbered(x, q) == \A i \in DOMAIN q : q[i] = <<x, i>>

LEMMA NumberedPrefix ==
  ASSUME NEW S, NEW q \in Seq(S), NEW r \in Seq(S), NEW x, Numbered(x, q \o r)
  PROVE  Numbered(x, q \o <<>>)
<1>1. q \o <<>> = q
  OBVIOUS
<1>2. \A i \in DOMAIN q : i \in DOMAIN (q \o r) /\ (q \o r)[i] = q[i]
  BY Concatenation, Zenon
<1> QED BY <1>1, <1>2 DEF Numbered

LEMMA NumberedAppend ==
  ASSUME NEW S, NEW q \in Seq(S), NEW r \in Seq(S), NEW x, Numbered(x, q),
         \A k \in DOMAIN r : r[k] = <<x, Len(q) + k>>
  PROVE  Numbered(x, q \o r)
<1>1. /\ Len(q) \in Nat /\ Len(r) \in Nat /\ DOMAIN (q \o r) = 1..(Len(q) + Len(r))
      /\ \A i \in DOMAIN q : (q \o r)[i] = q[i]
      /\ \A i \in DOMAIN r : (q \o r)[Len(q) + i] = r[i]
  BY Concatenation
<1> DEFINE s == q \o r
<1>2. DOMAIN q = 1..Len(q) /\ DOMAIN r = 1..Len(r)
  OBVIOUS
<1> SUFFICES ASSUME NEW i \in 1..(Len(q) + Len(r)) PROVE s[i] = <<x, i>>
  BY <1>1 DEF Numbered
<1>3. CASE i \in 1..Len(q)
  BY <1>1, <1>2, <1>3 DEF Numbered
<1>4. CASE i \notin 1..Len(q)
  <2> DEFINE k == i - Len(q)
  <2>1. k \in DOMAIN r /\ i = Len(q) + k
    BY <1>1, <1>2, <1>4
  <2>2. s[Len(q) + k] = r[k] /\ r[k] = <<x, Len(q) + k>>
    BY <1>1, <2>1
  <2> QED BY <2>1, <2>2
<1> QED BY <1>3, <1>4

LEMMA OnceAppend ==
  ASSUME NEW S, NEW q \in Seq(S), NEW m \in S, NEW kind, Once(q, kind),
         m.kind = kind => \A i \in DOMAIN q : q[i] # m
  PROVE  Once(Append(q, m), kind)
<1> DEFINE r == Append(q, m)
<1>1. /\ DOMAIN r = 1..(Len(q) + 1) /\ r[Len(q) + 1] = m /\ \A i \in 1..Len(q) : r[i] = q[i]
      /\ DOMAIN q = 1..Len(q) /\ Len(q) \in Nat
  OBVIOUS
<1> HIDE DEF r
<1> SUFFICES ASSUME NEW i \in DOMAIN r, NEW j \in DOMAIN r, r[i].kind = kind, r[j] = r[i] PROVE i = j
  BY DEF Once, r
<1>2. CASE i \in DOMAIN q /\ j \in DOMAIN q
  BY <1>1, <1>2 DEF Once
<1>3. CASE i = Len(q) + 1 \/ j = Len(q) + 1
  BY <1>1, <1>3
<1> QED BY <1>1, <1>2, <1>3

LEMMA OnceTail ==
  ASSUME NEW S, NEW q \in Seq(S), q # <<>>, NEW kind, Once(q, kind)
  PROVE  /\ Once(Tail(q), kind)
         /\ Head(q).kind = kind => \A i \in DOMAIN Tail(q) : Tail(q)[i] # Head(q)
<1>1. /\ DOMAIN Tail(q) = 1..(Len(q) - 1) /\ \A i \in DOMAIN Tail(q) : Tail(q)[i] = q[i + 1]
      /\ DOMAIN q = 1..Len(q) /\ Len(q) \in Nat \ {0} /\ Head(q) = q[1]
  OBVIOUS
<1> QED BY <1>1 DEF Once

\* Data of the chunks after s arrives, or no data.
LEMMA ContinuesAppend ==
  ASSUME NEW S, NEW q \in Seq(S), NEW m \in S, NEW n \in Nat, NEW s \in Nat, NEW t \in Nat,
         Continues(n, q, s),
         m.kind = "data" => First(m) = s + 1 /\ Last(m) = t
  PROVE  Continues(n, Append(q, m), t)
<1> DEFINE r == Append(q, m)
<1> DEFINE l == Len(q)
<1>1. /\ DOMAIN r = 1..(l + 1) /\ Len(r) = l + 1 /\ r[l + 1] = m /\ \A i \in 1..l : r[i] = q[i]
      /\ DOMAIN q = 1..l /\ l \in Nat
  OBVIOUS
<1> HIDE DEF r
<1>2. \A i \in 0..l : (Flows(r, i) <=> Flows(q, i)) /\ Upto(n, r, i) = Upto(n, q, i)
  BY <1>1 DEF Flows, Upto
<1>3. ASSUME NEW i \in DOMAIN r, r[i].kind = "data", Flows(r, i - 1)
      PROVE  First(r[i]) = Upto(n, r, i - 1) + 1
  <2>1. i - 1 \in 0..l /\ Flows(q, i - 1) /\ Upto(n, r, i - 1) = Upto(n, q, i - 1)
    BY <1>1, <1>2, <1>3
  <2>2. CASE i = l + 1
    <3>1. Upto(n, q, l) = s
      BY <2>1, <2>2, <1>1 DEF Continues
    <3> QED BY <1>1, <1>3, <2>1, <2>2, <3>1
  <2>3. CASE i # l + 1
    <3>1. i \in DOMAIN q /\ r[i] = q[i]
      BY <1>1, <2>3
    <3> QED BY <1>3, <2>1, <3>1 DEF Continues
  <2> QED BY <2>2, <2>3
<1>4. Flows(r, l + 1) => Upto(n, r, l + 1) = t
  BY <1>1 DEF Flows, Upto
<1> QED BY <1>1, <1>3, <1>4 DEF Continues, r

\* The client takes data.
LEMMA ContinuesTail ==
  ASSUME NEW S, NEW q \in Seq(S), q # <<>>, NEW n \in Nat, NEW s \in Nat, Continues(n, q, s),
         Head(q).kind = "data"
  PROVE  First(Head(q)) = n + 1 /\ Continues(Last(Head(q)), Tail(q), s)
<1> DEFINE r == Tail(q)
<1> DEFINE l == Len(q)
<1>1. /\ DOMAIN r = 1..(l - 1) /\ Len(r) = l - 1 /\ \A i \in 1..(l - 1) : r[i] = q[i + 1]
      /\ DOMAIN q = 1..l /\ l \in Nat \ {0} /\ Head(q) = q[1]
  OBVIOUS
<1> HIDE DEF r
<1>2. \A i \in 0..(l - 1) : (Flows(r, i) <=> Flows(q, i + 1)) /\ Upto(Last(Head(q)), r, i) = Upto(n, q, i + 1)
  <2> SUFFICES ASSUME NEW i \in 0..(l - 1)
               PROVE  (Flows(r, i) <=> Flows(q, i + 1)) /\ Upto(Last(Head(q)), r, i) = Upto(n, q, i + 1)
    OBVIOUS
  <2>1. CASE i = 0
    BY <1>1, <2>1 DEF Flows, Upto
  <2>2. CASE i # 0
    BY <1>1, <2>2 DEF Flows, Upto
  <2> QED BY <2>1, <2>2
<1>3. ASSUME NEW i \in DOMAIN r, r[i].kind = "data", Flows(r, i - 1)
      PROVE  First(r[i]) = Upto(Last(Head(q)), r, i - 1) + 1
  <2>1. i - 1 \in 0..(l - 1) /\ i + 1 \in DOMAIN q /\ r[i] = q[i + 1] /\ (i + 1) - 1 = i /\ (i - 1) + 1 = i
    BY <1>1, <1>3
  <2>2. Flows(q, i) /\ Upto(Last(Head(q)), r, i - 1) = Upto(n, q, i)
    BY <1>2, <1>3, <2>1
  <2>3. First(q[i + 1]) = Upto(n, q, i) + 1
    BY <1>3, <2>1, <2>2 DEF Continues
  <2> QED BY <2>1, <2>2, <2>3
<1>4. Flows(r, l - 1) => Upto(Last(Head(q)), r, l - 1) = s
  <2>1. l - 1 \in 0..(l - 1) /\ (l - 1) + 1 = l
    BY <1>1
  <2> QED BY <1>2, <2>1 DEF Continues
<1>5. First(Head(q)) = n + 1
  <2>1. 1 \in DOMAIN q /\ 1 - 1 = 0 /\ Flows(q, 0) /\ Upto(n, q, 0) = n
    BY <1>1 DEF Flows, Upto
  <2> QED BY <1>1, <2>1 DEF Continues
<1> QED BY <1>1, <1>3, <1>4, <1>5 DEF Continues, r

-----------------------------------------------------------------------------
(* What is sent to a client.                                               *)

LEMMA SendCreates ==
  ASSUME TypeOK, Creates, NEW d \in Clients, NEW m \in Messages, toClient' = ToClient(d, m),
         peer' = peer, writeTo' = writeTo,
         \A x \in Clients : Asks(x) => rexec'[x] \notin {"none", "started"},
         m.kind = "create" => \A i \in DOMAIN toClient[d] : toClient[d][i] # m,
         \A x \in Clients : m = Create(x) =>
           peer[x] = d /\ rexec'[x] \notin {"none", "started"} /\ writeTo[d] # <<x>>
  PROVE  Creates'
<1> SUFFICES ASSUME NEW c \in Clients
             PROVE  /\ Once(toClient'[c], "create")
                    /\ \A i \in DOMAIN toClient'[c] : \A x \in Clients : toClient'[c][i] = Create(x) => Asked(c, x)'
  BY DEF Creates, Create
<1>1. toClient[c] \in Seq(Messages) /\ Once(toClient[c], "create")
  BY DEF TypeOK, Creates
<1>2. \A i \in DOMAIN toClient[c] : \A x \in Clients : toClient[c][i] = Create(x) => Asked(c, x)'
  BY DEF Creates, Asked, Asks
<1>3. CASE toClient'[c] = toClient[c]
  BY <1>1, <1>2, <1>3
<1>4. CASE c = d /\ toClient'[c] = Append(toClient[c], m)
  <2>1. Once(toClient'[c], "create")
    BY <1>1, <1>4, OnceAppend
  <2>2. \A x \in Clients : m = Create(x) => Asked(c, x)'
    BY <1>4 DEF Asked, Asks
  <2>3. \A i \in DOMAIN toClient'[c] : toClient'[c][i] = m \/ (i \in DOMAIN toClient[c] /\ toClient'[c][i] = toClient[c][i])
    BY <1>1, <1>4
  <2> QED BY <1>2, <2>1, <2>2, <2>3
<1> QED BY <1>3, <1>4, Forwarded

LEMMA SendDataFrom ==
  ASSUME TypeOK, DataFrom, NEW d \in Clients, NEW m \in Messages, toClient' = ToClient(d, m),
         writeTo' = writeTo, OfShell(writeTo[d], m)
  PROVE  DataFrom'
<1> SUFFICES ASSUME NEW c \in Clients, NEW i \in DOMAIN toClient'[c] PROVE OfShell(writeTo[c], toClient'[c][i])
  BY DEF DataFrom
<1>1. toClient[c] \in Seq(Messages)
  BY DEF TypeOK
<1>2. CASE toClient'[c] = toClient[c]
  BY <1>2 DEF DataFrom
<1>3. CASE c = d /\ toClient'[c] = Append(toClient[c], m)
  <2>1. toClient'[c][i] = m \/ (i \in DOMAIN toClient[c] /\ toClient'[c][i] = toClient[c][i])
    BY <1>1, <1>3
  <2> QED BY <1>3, <2>1 DEF DataFrom
<1> QED BY <1>2, <1>3, Forwarded

\* What is sent follows on what was sent before, or is no data.
LEMMA SendGapless ==
  ASSUME TypeOK, Gapless, NEW d \in Clients, NEW m \in Messages, toClient' = ToClient(d, m),
         writeTo' = writeTo, client' = client, shown' = shown, buff' = buff,
         \A x \in Clients : sent'[x] \in Nat,
         \A c \in Clients \ {d} : writeTo[c] # <<>> => sent'[Head(writeTo[c])] = sent[Head(writeTo[c])],
         writeTo[d] # <<>> =>
           \/ m.kind # "data" /\ sent'[Head(writeTo[d])] = sent[Head(writeTo[d])]
           \/ First(m) = sent[Head(writeTo[d])] + 1 /\ Last(m) = sent'[Head(writeTo[d])]
  PROVE  Gapless'
<1> SUFFICES ASSUME NEW c \in Clients, client[c] # "gone", writeTo[c] # <<>>
             PROVE  Continues(Has(c), toClient'[c], sent'[Head(writeTo[c])])
  BY DEF Gapless, Has
<1>1. toClient[c] \in Seq(Messages) /\ Has(c) \in Nat /\ Head(writeTo[c]) \in Clients
  <2>1. shown[c] \in Seq(Chunks) /\ buff[c] \in Seq(Chunks) /\ toClient[c] \in Seq(Messages)
    BY DEF TypeOK
  <2>2. Head(writeTo[c]) \in Clients
    BY Writes
  <2>3. Has(c) \in Nat
    BY HasNat
  <2> QED BY <2>1, <2>2, <2>3
<1>2. Continues(Has(c), toClient[c], sent[Head(writeTo[c])])
  BY DEF Gapless
<1>3. sent[Head(writeTo[c])] \in Nat /\ sent'[Head(writeTo[c])] \in Nat
  BY <1>1 DEF TypeOK
<1>4. CASE c # d
  BY <1>2, <1>4, Forwarded
<1>5. CASE c = d
  <2>1. toClient'[c] = Append(toClient[c], m)
    BY <1>5, Forwarded
  <2>2. m.kind = "data" => First(m) = sent[Head(writeTo[c])] + 1 /\ Last(m) = sent'[Head(writeTo[c])]
    BY <1>5
  <2>3. Continues(Has(c), Append(toClient[c], m), sent'[Head(writeTo[c])])
    BY <1>1, <1>2, <1>3, <2>2, ContinuesAppend
  <2> QED BY <2>1, <2>3
<1> QED BY <1>4, <1>5

-----------------------------------------------------------------------------
(* The steps.                                                              *)

LEMMA InitIInv == Init => IInv
<1> SUFFICES ASSUME Init PROVE IInv
  OBVIOUS
<1>1. TypeOK
  BY BoundsAssumption DEF Init, TypeOK
<1>2. Launches /\ SameId /\ WrittenTo /\ Behind
  BY DEF Init, Launches, SameId, WrittenTo, Behind
<1>3. Creates /\ Accepted /\ DataFrom
  BY DEF Init, Creates, Accepted, DataFrom, Once
<1>4. Gapless /\ Bare /\ OneOutput
  BY DEF Init, Gapless, Bare, OneOutput
<1> QED BY <1>1, <1>2, <1>3, <1>4 DEF IInv

\* The invariants that only tell of what does not change.
LEMMA AgentSteps ==
  ASSUME IInv, NEW c \in Clients,
         LaunchRemoteShell(c) \/ LaunchRexec(c) \/ FindTunnelFails(c) \/ CallbackExpires(c)
  PROVE  IInv'
<1> DEFINE Phases == [Clients -> {"idle", "asked", "open", "gone"}]
<1>1. /\ UNCHANGED <<requestId, writeTo, typed, buff, shown, rexecVars, toClient, toRexec>>
      /\ client' \in Phases /\ faults' \in 0..MaxFaults
      /\ calls' \subseteq Clients /\ callbacks' \subseteq Clients /\ finding' \subseteq Clients
      /\ \A d \in Clients : client'[d] = client[d] \/ (client[d] = "idle" /\ client'[d] = "asked")
  <2>1. /\ client \in Phases /\ faults \in 0..MaxFaults
        /\ calls \subseteq Clients /\ callbacks \subseteq Clients /\ finding \subseteq Clients
    BY DEF IInv, TypeOK
  <2> HIDE DEF Phases
  <2>2. CASE LaunchRemoteShell(c)
    <3>1. client' \in Phases /\ \A d \in Clients : client'[d] = client[d] \/ (client[d] = "idle" /\ client'[d] = "asked")
      BY <2>1, <2>2 DEF LaunchRemoteShell, Phases
    <3> QED BY <2>1, <2>2, <3>1 DEF LaunchRemoteShell
  <2>3. CASE LaunchRexec(c)
    BY <2>1, <2>3 DEF LaunchRexec, clientVars
  <2>4. CASE FindTunnelFails(c) \/ CallbackExpires(c)
    BY <2>1, <2>4, BoundsAssumption DEF FindTunnelFails, CallbackExpires, clientVars, Fault
  <2> QED BY <2>2, <2>3, <2>4
<1>2. UNCHANGED <<requestId, writeTo, typed, buff, shown, rexec, peer, written, sent, fed, toClient, toRexec>>
  BY <1>1 DEF rexecVars, shellVars
<1>3. TypeOK'
  <2>1. \A d \in Clients : client'[d] = "open" => writeTo'[d] # <<>>
    BY <1>1, <1>2 DEF IInv, TypeOK
  <2> QED BY <1>1, <1>2, <2>1 DEF IInv, TypeOK
<1>4. Launches'
  <2>1. CASE LaunchRemoteShell(c)
    BY <2>1, <1>2 DEF IInv, TypeOK, Launches, LaunchRemoteShell
  <2>2. CASE LaunchRexec(c)
    BY <2>2, <1>2 DEF IInv, TypeOK, Launches, LaunchRexec, clientVars
  <2>3. CASE FindTunnelFails(c) \/ CallbackExpires(c)
    BY <2>3, <1>2 DEF IInv, TypeOK, Launches, FindTunnelFails, CallbackExpires, clientVars
  <2> QED BY <2>1, <2>2, <2>3
<1>5. SameId' /\ WrittenTo' /\ Behind'
  BY <1>2 DEF IInv, SameId, WrittenTo, Behind, Asks
<1>6. Creates' /\ Accepted' /\ DataFrom'
  BY <1>2 DEF IInv, Creates, Accepted, DataFrom, Asked, Asks, Alive
<1>7. Gapless'
  <2>1. \A d \in Clients : writeTo[d] # <<>> /\ client'[d] # "gone" => client[d] # "gone"
    BY <1>1
  <2> QED BY <1>2, <2>1 DEF IInv, Gapless, Has
<1>8. Bare' /\ OneOutput'
  BY <1>2 DEF IInv, Bare, OneOutput
<1> QED BY <1>3, <1>4, <1>5, <1>6, <1>7, <1>8 DEF IInv

\* A client quits, or has lost its connection.
LEMMA ClientGoneStep ==
  ASSUME IInv, NEW c \in Clients, ClientGone(c), faults' \in 0..MaxFaults,
         UNCHANGED <<requestId, writeTo, typed, shown, agentVars, rexecVars, toRexec>>
  PROVE  IInv'
<1>1. UNCHANGED <<requestId, writeTo, typed, shown, calls, callbacks, finding, rexec, peer, written, sent, fed, toRexec>>
  BY DEF rexecVars, shellVars, agentVars
<1>2. /\ client' \in [Clients -> {"idle", "asked", "open", "gone"}]
      /\ toClient' \in [Clients -> Seq(Messages)] /\ buff' \in [Clients -> Seq(Chunks)]
      /\ client'[c] = "gone" /\ toClient'[c] = <<>> /\ buff'[c] = <<>>
      /\ \A d \in Clients \ {c} :
           client'[d] = client[d] /\ toClient'[d] = toClient[d] /\ buff'[d] = buff[d]
  BY Quits DEF IInv
<1>3. TypeOK'
  BY <1>1, <1>2 DEF IInv, TypeOK
<1>4. Launches'
  BY <1>1, <1>2 DEF IInv, Launches
<1>5. SameId' /\ WrittenTo' /\ Behind'
  BY <1>1 DEF IInv, SameId, WrittenTo, Behind, Asks
<1>6. Creates' /\ DataFrom'
  <2>1. \A d \in Clients : toClient'[d] = toClient[d] \/ DOMAIN toClient'[d] = {}
    BY <1>2
  <2>2. DataFrom'
    BY <1>1, <2>1 DEF IInv, DataFrom
  <2>3. \A d \in Clients : Once(toClient'[d], "create")
    BY <2>1 DEF IInv, Creates, Once
  <2>4. \A d \in Clients : \A i \in DOMAIN toClient'[d] : \A x \in Clients : toClient'[d][i] = Create(x) => Asked(d, x)'
    BY <1>1, <2>1 DEF IInv, Creates, Asked, Asks
  <2> QED BY <2>2, <2>3, <2>4 DEF Creates, Create
<1>7. Accepted'
  BY <1>1 DEF IInv, Accepted, Alive
<1>8. Gapless' /\ Bare'
  BY <1>1, <1>2 DEF IInv, Gapless, Bare, Has
<1>9. OneOutput'
  <2> SUFFICES ASSUME NEW d \in Clients PROVE Numbered(Head(writeTo[d]), shown[d] \o buff'[d])
    BY <1>1 DEF OneOutput, Numbered
  <2>1. shown[d] \in Seq(Chunks) /\ buff[d] \in Seq(Chunks)
    BY DEF IInv, TypeOK
  <2>2. Numbered(Head(writeTo[d]), shown[d] \o buff[d])
    BY DEF IInv, OneOutput, Numbered
  <2>3. CASE d = c
    <3>1. Numbered(Head(writeTo[d]), shown[d] \o <<>>)
      BY <2>1, <2>2, NumberedPrefix, Zenon
    <3> QED BY <1>2, <2>3, <3>1
  <2>4. CASE d # c
    BY <1>2, <2>2, <2>4
  <2> QED BY <2>3, <2>4
<1> QED BY <1>3, <1>4, <1>5, <1>6, <1>7, <1>8, <1>9 DEF IInv

\* The answer of the broker: those who wait for its request id are started.
LEMMA FindTunnelResponseStep ==
  ASSUME IInv, NEW c \in Clients, FindTunnelResponse(c)
  PROVE  IInv'
<1>1. UNCHANGED <<requestId, client, writeTo, typed, buff, shown, calls, written, sent, fed, toClient, toRexec, faults>>
  BY DEF FindTunnelResponse, clientVars, shellVars
<1>2. /\ Waiting(c) \subseteq callbacks /\ callbacks' = callbacks \ Waiting(c) /\ finding' \subseteq finding
      /\ \A d \in Waiting(c) : rexec[d] = "none" /\ client[d] # "idle" /\ requestId[d] = requestId[c]
      /\ \A d \in Clients : rexec'[d] = IF d \in Waiting(c) THEN "started" ELSE rexec[d]
      /\ \A d \in Clients : peer'[d] = IF d \in Waiting(c) THEN c ELSE peer[d]
  BY DEF FindTunnelResponse, Waiting, IInv, Launches, TypeOK
<1>3. TypeOK'
  <2>1. rexec' \in [Clients -> {"none", "started", "asking", "running", "failed", "closing", "gone"}]
        /\ peer' \in [Clients -> Clients]
    BY DEF FindTunnelResponse, IInv, TypeOK
  <2> QED BY <1>1, <1>2, <2>1 DEF IInv, TypeOK
<1>4. Launches'
  BY <1>1, <1>2 DEF IInv, Launches, TypeOK
<1>5. SameId'
  BY <1>1, <1>2 DEF IInv, SameId
<1>6. \A x \in Clients : Asks(x) => x \notin Waiting(c)
  BY <1>2 DEF Asks
<1>7. WrittenTo'
  BY <1>1, <1>2, <1>6 DEF IInv, WrittenTo, Asks
<1>8. Behind'
  <2> SUFFICES ASSUME NEW x \in Clients, rexec'[x] \in {"running", "failed"} \/ written[x] > 0
               PROVE  writeTo[peer'[x]] = <<x>>
    BY <1>1 DEF Behind
  <2>1. rexec[x] \in {"running", "failed"} \/ written[x] > 0
    BY <1>2
  <2>2. writeTo[peer[x]] = <<x>>
    BY <2>1 DEF IInv, Behind
  <2>3. Asks(x)
    BY <2>2 DEF IInv, WrittenTo, TypeOK
  <2> QED BY <1>2, <1>6, <2>2, <2>3
<1>9. Creates'
  BY <1>1, <1>2, <1>6 DEF IInv, Creates, Asked, Asks, Create
<1>10. Accepted'
  <2>1. \A x \in Clients : toRexec[x] # <<>> => Alive(x) /\ x \notin Waiting(c)
    BY <1>2 DEF IInv, Accepted, Alive
  <2>2. \A x \in Clients : \A i \in DOMAIN toRexec[x] : toRexec[x] # <<>>
    BY DEF IInv, TypeOK
  <2> QED BY <1>1, <1>2, <2>1, <2>2 DEF IInv, Accepted, Alive
<1>11. DataFrom' /\ Gapless' /\ Bare' /\ OneOutput'
  BY <1>1 DEF IInv, DataFrom, Gapless, Has, Bare, OneOutput
<1> QED BY <1>3, <1>4, <1>5, <1>7, <1>8, <1>9, <1>10, <1>11 DEF IInv

\* A shvrexec is gone.
LEMMA RexecGoneStep ==
  ASSUME IInv, NEW x \in Clients, RexecGone(x), Alive(x), faults' \in 0..MaxFaults,
         UNCHANGED <<clientVars, agentVars, peer, shellVars, toClient>>
  PROVE  IInv'
<1>1. UNCHANGED <<requestId, client, writeTo, typed, buff, shown, calls, callbacks, finding, peer, written, sent, fed, toClient>>
  BY DEF clientVars, agentVars, shellVars
<1>2. /\ rexec' \in [Clients -> {"none", "started", "asking", "running", "failed", "closing", "gone"}]
      /\ toRexec' \in [Clients -> Seq(RexecMessages)]
      /\ rexec'[x] = "gone" /\ toRexec'[x] = <<>> /\ rexec[x] # "none"
      /\ \A y \in Clients \ {x} : rexec'[y] = rexec[y] /\ toRexec'[y] = toRexec[y]
  BY DEF RexecGone, IInv, TypeOK, Alive
<1>3. TypeOK'
  BY <1>1, <1>2 DEF IInv, TypeOK
<1>4. Launches'
  BY <1>1, <1>2 DEF IInv, Launches
<1>5. SameId' /\ WrittenTo' /\ Behind'
  <2>1. \A y \in Clients :
          /\ rexec'[y] \in {"running", "failed"} => rexec[y] \in {"running", "failed"}
          /\ Asks(y) => rexec'[y] \notin {"none", "started"}
    BY <1>2 DEF Asks
  <2>2. SameId' /\ WrittenTo'
    BY <1>1, <2>1 DEF IInv, SameId, WrittenTo, Asks
  <2>3. Behind'
    BY <1>1, <2>1 DEF IInv, Behind
  <2> QED BY <2>2, <2>3
<1>6. Creates'
  BY <1>1, <1>2 DEF IInv, Creates, Asked, Asks, Create
<1>7. Accepted'
  <2>1. \A y \in Clients : toRexec'[y] = <<>> \/ (toRexec'[y] = toRexec[y] /\ rexec'[y] = rexec[y])
    BY <1>2
  <2>2. \A y \in Clients : Once(toRexec'[y], "created")
    BY <2>1 DEF IInv, Accepted, Once
  <2>3. \A y \in Clients : toRexec'[y] # <<>> => rexec'[y] \in {"started", "asking", "running", "failed", "closing"}
    BY <2>1 DEF IInv, Accepted, Alive
  <2>4. \A y \in Clients : \A i \in DOMAIN toRexec'[y] : toRexec'[y][i].kind = "created" =>
          writeTo[peer[y]] = <<y>> /\ rexec'[y] \notin {"running", "failed"}
    <3> SUFFICES ASSUME NEW y \in Clients, NEW i \in DOMAIN toRexec'[y], toRexec'[y][i].kind = "created"
        PROVE  writeTo[peer[y]] = <<y>> /\ rexec'[y] \notin {"running", "failed"}
      OBVIOUS
    <3>1. toRexec'[y] # <<>>
      OBVIOUS
    <3>2. toRexec'[y] = toRexec[y] /\ rexec'[y] = rexec[y]
      BY <2>1, <3>1
    <3>3. i \in DOMAIN toRexec[y] /\ toRexec[y][i].kind = "created"
      BY <3>2
    <3>4. writeTo[peer[y]] = <<y>> /\ rexec[y] \notin {"running", "failed"}
      BY <3>3 DEF IInv, Accepted
    <3> QED BY <3>2, <3>4
  <2> QED BY <1>1, <2>2, <2>3, <2>4 DEF Accepted, Alive
<1>8. DataFrom' /\ Gapless' /\ Bare' /\ OneOutput'
  BY <1>1 DEF IInv, DataFrom, Gapless, Has, Bare, OneOutput
<1> QED BY <1>3, <1>4, <1>5, <1>6, <1>7, <1>8 DEF IInv

\* Something else than data and requests is sent to a client.
LEMMA SendOther ==
  ASSUME IInv, NEW d \in Clients, NEW m \in Messages, m.kind \in {"close", "error"},
         toClient' = ToClient(d, m),
         UNCHANGED <<writeTo, client, shown, buff, peer, sent>>,
         \A x \in Clients : Asks(x) => rexec'[x] \notin {"none", "started"}
  PROVE  Creates' /\ DataFrom' /\ Gapless' /\ toClient' \in [Clients -> Seq(Messages)]
<1>1. Creates'
  <2>1. m.kind # "create" /\ \A x \in Clients : m # Create(x)
    BY MessageTypes
  <2> QED BY <2>1, SendCreates DEF IInv
<1>2. DataFrom'
  BY SendDataFrom DEF IInv, OfShell
<1>3. Gapless'
  <2>1. \A x \in Clients : sent'[x] \in Nat
    BY DEF IInv, TypeOK
  <2> QED BY <2>1, SendGapless DEF IInv
<1>4. toClient' \in [Clients -> Seq(Messages)]
  BY Forwarded DEF IInv
<1> QED BY <1>1, <1>2, <1>3, <1>4

LEMMA LaunchFailsStep ==
  ASSUME IInv, NEW c \in Clients, LaunchFails(c)
  PROVE  IInv'
<1>1. /\ UNCHANGED <<requestId, client, writeTo, typed, buff, shown, callbacks, finding, rexec, peer, written, sent, fed, toRexec>>
      /\ toClient' = ToClient(c, Error(c)) /\ calls' \subseteq calls /\ faults' \in 0..MaxFaults
  BY BoundsAssumption DEF LaunchFails, Fault, clientVars, rexecVars, shellVars, IInv, TypeOK
<1>2. Creates' /\ DataFrom' /\ Gapless' /\ toClient' \in [Clients -> Seq(Messages)]
  <2>1. Error(c) \in Messages /\ Error(c).kind = "error"
    BY MessageTypes
  <2>2. \A x \in Clients : Asks(x) => rexec'[x] \notin {"none", "started"}
    BY <1>1 DEF Asks
  <2> QED BY <1>1, <2>1, <2>2, SendOther
<1>3. TypeOK'
  BY <1>1, <1>2 DEF IInv, TypeOK
<1>4. Launches' /\ SameId' /\ WrittenTo' /\ Behind' /\ Accepted'
  BY <1>1 DEF IInv, Launches, SameId, WrittenTo, Behind, Accepted, Asks, Alive
<1>5. Bare' /\ OneOutput'
  BY <1>1 DEF IInv, Bare, OneOutput
<1> QED BY <1>2, <1>3, <1>4, <1>5 DEF IInv

\* A shvrexec closes its tunnel.
LEMMA CloseStep ==
  ASSUME IInv, NEW x \in Clients, CloseAndQuit(x), rexec[x] \in {"asking", "running", "failed"},
         UNCHANGED <<clientVars, agentVars, peer, shellVars, toRexec, faults>>
  PROVE  IInv'
<1>1. UNCHANGED <<requestId, client, writeTo, typed, buff, shown, calls, callbacks, finding, peer, written, sent, fed, toRexec, faults>>
  BY DEF clientVars, agentVars, shellVars
<1>2. /\ rexec' \in [Clients -> {"none", "started", "asking", "running", "failed", "closing", "gone"}]
      /\ rexec'[x] = "closing" /\ \A y \in Clients \ {x} : rexec'[y] = rexec[y]
  BY DEF CloseAndQuit, IInv, TypeOK
<1>3. Creates' /\ DataFrom' /\ Gapless' /\ toClient' \in [Clients -> Seq(Messages)]
  <2>1. \A y \in Clients : Asks(y) => rexec'[y] \notin {"none", "started"}
    BY <1>2 DEF Asks
  <2>2. CASE toClient' = toClient
    BY <1>1, <2>1, <2>2 DEF IInv, TypeOK, Creates, DataFrom, Gapless, Has, Asked, Asks, Create
  <2>3. CASE toClient' = ToClient(peer[x], Close(x))
    <3>1. Close(x) \in Messages /\ Close(x).kind = "close" /\ peer[x] \in Clients
      BY MessageTypes DEF IInv, TypeOK
    <3> QED BY <1>1, <2>1, <2>3, <3>1, SendOther
  <2> QED BY <2>2, <2>3 DEF CloseAndQuit
<1>4. TypeOK'
  BY <1>1, <1>2, <1>3 DEF IInv, TypeOK
<1>5. Launches' /\ SameId' /\ WrittenTo' /\ Behind'
  <2>1. \A y \in Clients :
          /\ rexec'[y] \in {"running", "failed"} => rexec[y] \in {"running", "failed"}
          /\ Asks(y) => rexec'[y] \notin {"none", "started"}
          /\ (rexec[y] = "none" <=> rexec'[y] = "none")
    BY <1>2 DEF Asks
  <2>2. Launches'
    BY <1>1, <2>1 DEF IInv, Launches
  <2>3. SameId' /\ WrittenTo'
    BY <1>1, <2>1 DEF IInv, SameId, WrittenTo, Asks
  <2>4. Behind'
    BY <1>1, <2>1 DEF IInv, Behind
  <2> QED BY <2>2, <2>3, <2>4
<1>6. Accepted'
  BY <1>1, <1>2 DEF IInv, Accepted, Alive
<1>7. Bare' /\ OneOutput'
  BY <1>1 DEF IInv, Bare, OneOutput
<1> QED BY <1>3, <1>4, <1>5, <1>6, <1>7 DEF IInv

\* Connected, a shvrexec asks its peer for a tunnel.
LEMMA RexecConnectedStep ==
  ASSUME IInv, NEW x \in Clients, RexecConnected(x)
  PROVE  IInv'
<1>1. /\ UNCHANGED <<requestId, client, writeTo, typed, buff, shown, calls, callbacks, finding, peer, written, sent, fed, toRexec, faults>>
      /\ toClient' = ToClient(peer[x], Create(x)) /\ peer[x] \in Clients /\ rexec[x] = "started"
  BY DEF RexecConnected, clientVars, agentVars, shellVars, IInv, TypeOK
<1>2. /\ rexec' \in [Clients -> {"none", "started", "asking", "running", "failed", "closing", "gone"}]
      /\ rexec'[x] = "asking" /\ \A y \in Clients \ {x} : rexec'[y] = rexec[y]
  BY DEF RexecConnected, IInv, TypeOK
<1>3. \A y \in Clients :
        /\ rexec'[y] \in {"running", "failed"} => rexec[y] \in {"running", "failed"}
        /\ Asks(y) => rexec'[y] \notin {"none", "started"}
        /\ (rexec[y] = "none" <=> rexec'[y] = "none")
  BY <1>1, <1>2 DEF Asks
<1>4. Create(x) \in Messages /\ Create(x).kind = "create"
  BY MessageTypes
<1>5. ~Asks(x)
  BY <1>1 DEF Asks
<1>6. Creates'
  <2>1. writeTo[peer[x]] # <<x>>
    BY <1>1, <1>5 DEF IInv, WrittenTo
  <2>2. \A i \in DOMAIN toClient[peer[x]] : toClient[peer[x]][i] # Create(x)
    BY <1>1, <1>5 DEF IInv, Creates, Asked
  <2>3. \A y \in Clients : Create(x) = Create(y) => x = y
    BY DEF Create
  <2>4. \A y \in Clients : Create(x) = Create(y) =>
          peer[y] = peer[x] /\ rexec'[y] \notin {"none", "started"} /\ writeTo[peer[x]] # <<y>>
    BY <1>2, <2>1, <2>3
  <2> QED BY <1>1, <1>3, <1>4, <2>2, <2>4, SendCreates DEF IInv
<1>7. DataFrom'
  BY <1>1, <1>4, SendDataFrom DEF IInv, OfShell
<1>8. Gapless'
  <2>1. \A y \in Clients : sent'[y] \in Nat
    BY <1>1 DEF IInv, TypeOK
  <2> QED BY <1>1, <1>4, <2>1, SendGapless DEF IInv
<1>9. TypeOK'
  <2>1. toClient' \in [Clients -> Seq(Messages)]
    BY <1>1, <1>4, Forwarded DEF IInv
  <2> QED BY <1>1, <1>2, <2>1 DEF IInv, TypeOK
<1>10. Launches'
  BY <1>1, <1>3 DEF IInv, Launches
<1>11. SameId' /\ WrittenTo'
  BY <1>1, <1>3 DEF IInv, SameId, WrittenTo, Asks
<1>12. Behind'
  BY <1>1, <1>3 DEF IInv, Behind
<1>13. Accepted'
  BY <1>1, <1>2 DEF IInv, Accepted, Alive
<1>14. Bare' /\ OneOutput'
  BY <1>1 DEF IInv, Bare, OneOutput
<1> QED BY <1>6, <1>7, <1>8, <1>9, <1>10, <1>11, <1>12, <1>13, <1>14 DEF IInv

\* The next message for a shvrexec is taken.
LEMMA RexecReceivesStep ==
  ASSUME IInv, NEW x \in Clients, RexecReceives(x)
  PROVE  IInv'
<1> DEFINE q == toRexec[x]
<1>1. /\ UNCHANGED <<requestId, client, writeTo, typed, buff, shown, calls, callbacks, finding, peer, written, sent, toClient>>
      /\ q \in Seq(RexecMessages) /\ q # <<>> /\ Alive(x) /\ (RunShell(x) \/ FeedShell(x))
      /\ toRexec' = [toRexec EXCEPT ![x] = Tail(q)]
  BY DEF RexecReceives, clientVars, agentVars, IInv, TypeOK
<1>2. /\ toRexec' \in [Clients -> Seq(RexecMessages)] /\ toRexec'[x] = Tail(q)
      /\ \A y \in Clients \ {x} : toRexec'[y] = toRexec[y]
  BY <1>1 DEF IInv, TypeOK
<1>3. /\ Head(q) \in RexecMessages /\ Head(q) = q[1] /\ 1 \in DOMAIN q
      /\ \A i \in DOMAIN Tail(q) : i + 1 \in DOMAIN q /\ Tail(q)[i] = q[i + 1]
  BY <1>1
<1>4. Once(q, "created") /\ (Head(q).kind = "created" => writeTo[peer[x]] = <<x>> /\ rexec[x] \notin {"running", "failed"})
  BY <1>3 DEF IInv, Accepted
<1>5. /\ Once(Tail(q), "created")
      /\ Head(q).kind = "created" => \A i \in DOMAIN Tail(q) : Tail(q)[i] # Head(q)
  BY <1>1, <1>4, OnceTail
<1>6. \A m \in RexecMessages : m.kind = "created" => m = Created
  BY DEF RexecMessages, Created
<1>7. /\ rexec' \in [Clients -> {"none", "started", "asking", "running", "failed", "closing", "gone"}]
      /\ fed' \in [Clients -> Seq(Chunks)] /\ faults' \in 0..MaxFaults
      /\ \A y \in Clients \ {x} : rexec'[y] = rexec[y]
      /\ \/ rexec'[x] = rexec[x] /\ rexec[x] # "asking"
         \/ rexec[x] = "asking" /\ Head(q).kind = "created" /\ rexec'[x] \in {"running", "failed"}
  <2>1. CASE RunShell(x)
    <3>1. rexec[x] = "asking" /\ Head(q).kind = "created" /\ fed' = fed
      BY <2>1 DEF RunShell
    <3>2. PICK p \in {"running", "failed"} : rexec' = [rexec EXCEPT ![x] = p]
      BY <2>1 DEF RunShell
    <3>3. faults' \in 0..MaxFaults
      BY <2>1, BoundsAssumption DEF RunShell, Fault, IInv, TypeOK
    <3> QED BY <3>1, <3>2, <3>3 DEF IInv, TypeOK
  <2>2. CASE FeedShell(x)
    <3>1. rexec[x] = "running" => Head(q).chunk \in Chunks
      BY <1>3, <1>4 DEF RexecMessages, Created
    <3>2. fed' \in [Clients -> Seq(Chunks)]
      <4>1. fed \in [Clients -> Seq(Chunks)] /\ fed[x] \in Seq(Chunks)
        BY DEF IInv, TypeOK
      <4>2. CASE fed' = fed
        BY <4>1, <4>2
      <4>3. CASE rexec[x] = "running" /\ fed' = [fed EXCEPT ![x] = Append(fed[x], Head(q).chunk)]
        <5>1. Append(fed[x], Head(q).chunk) \in Seq(Chunks)
          BY <3>1, <4>1, <4>3
        <5> QED BY <4>1, <4>3, <5>1
      <4> QED BY <2>2, <4>2, <4>3 DEF FeedShell
    <3>3. faults' \in 0..MaxFaults /\ rexec' = rexec /\ rexec[x] # "asking"
      BY <2>2, BoundsAssumption DEF FeedShell, Fault, IInv, TypeOK
    <3> QED BY <3>2, <3>3 DEF IInv, TypeOK
  <2> QED BY <1>1, <2>1, <2>2
<1>8. TypeOK'
  BY <1>1, <1>2, <1>7 DEF IInv, TypeOK
<1>9. \A y \in Clients :
        /\ rexec'[y] \in {"running", "failed"} => (rexec[y] \in {"running", "failed"} \/ writeTo[peer[y]] = <<y>>)
        /\ Asks(y) => rexec'[y] \notin {"none", "started"}
        /\ (rexec[y] = "none" <=> rexec'[y] = "none")
  BY <1>4, <1>7 DEF Asks
<1>10. Launches'
  BY <1>1, <1>9 DEF IInv, Launches
<1>11. SameId' /\ WrittenTo'
  BY <1>1, <1>9 DEF IInv, SameId, WrittenTo, Asks
<1>12. Behind'
  BY <1>1, <1>9 DEF IInv, Behind
<1>13. Accepted'
  <2> SUFFICES ASSUME NEW y \in Clients
               PROVE  /\ toRexec'[y] # <<>> => rexec'[y] \in {"started", "asking", "running", "failed", "closing"}
                      /\ Once(toRexec'[y], "created")
                      /\ \A i \in DOMAIN toRexec'[y] : toRexec'[y][i].kind = "created" =>
                           writeTo[peer[y]] = <<y>> /\ rexec'[y] \notin {"running", "failed"}
    BY <1>1 DEF Accepted, Alive
  <2>1. CASE y # x
    BY <1>2, <1>7, <2>1 DEF IInv, Accepted, Alive
  <2>2. CASE y = x
    <3>1. rexec'[y] \in {"started", "asking", "running", "failed", "closing"}
      BY <1>1, <1>7, <2>2 DEF Alive
    <3>2. ASSUME NEW i \in DOMAIN toRexec'[y], toRexec'[y][i].kind = "created"
          PROVE  writeTo[peer[y]] = <<y>> /\ rexec'[y] \notin {"running", "failed"}
      <4>1. i \in DOMAIN Tail(q) /\ toRexec'[y][i] = q[i + 1] /\ i + 1 \in DOMAIN q /\ Tail(q)[i] = q[i + 1]
        BY <1>2, <1>3, <2>2, <3>2
      <4>2. writeTo[peer[y]] = <<y>> /\ rexec[y] \notin {"running", "failed"}
        BY <2>2, <3>2, <4>1 DEF IInv, Accepted
      <4>3. q[i + 1] = Created
        BY <1>1, <1>6, <3>2, <4>1
      <4>4. Head(q).kind # "created"
        BY <1>3, <1>5, <1>6, <4>1, <4>3
      <4> QED BY <1>7, <2>2, <4>2, <4>4
    <3> QED BY <1>2, <1>5, <2>2, <3>1, <3>2
  <2> QED BY <2>1, <2>2
<1>14. Creates'
  BY <1>1, <1>9 DEF IInv, Creates, Asked, Asks, Create
<1>15. DataFrom' /\ Gapless' /\ Bare' /\ OneOutput'
  BY <1>1 DEF IInv, DataFrom, Gapless, Has, Bare, OneOutput
<1> QED BY <1>8, <1>10, <1>11, <1>12, <1>13, <1>14, <1>15 DEF IInv

LEMMA ShellWritesStep ==
  ASSUME IInv, NEW x \in Clients, ShellWrites(x)
  PROVE  IInv'
<1>1. /\ UNCHANGED <<requestId, client, writeTo, typed, buff, shown, calls, callbacks, finding>>
      /\ UNCHANGED <<rexec, peer, sent, fed, toClient, toRexec, faults>>
      /\ rexec[x] = "running" /\ written' = [written EXCEPT ![x] = @ + 1]
  BY DEF ShellWrites, clientVars, agentVars
<1>2. /\ written' \in [Clients -> Nat] /\ written'[x] = written[x] + 1
      /\ \A y \in Clients \ {x} : written'[y] = written[y]
  BY <1>1 DEF IInv, TypeOK
<1>3. TypeOK'
  <2>1. \A y \in Clients : sent[y] <= written'[y]
    <3>1. \A y \in Clients : sent[y] \in Nat /\ written[y] \in Nat /\ sent[y] <= written[y]
      BY DEF IInv, TypeOK
    <3>2. sent[x] <= written'[x]
      BY <1>2, <3>1
    <3> QED BY <1>2, <3>1, <3>2
  <2> QED BY <1>1, <1>2, <2>1 DEF IInv, TypeOK
<1>4. Launches' /\ SameId' /\ WrittenTo' /\ Accepted'
  BY <1>1 DEF IInv, Launches, SameId, WrittenTo, Accepted, Asks, Alive
<1>7. Creates' /\ DataFrom' /\ Gapless'
  <2>1. Creates'
    BY <1>1 DEF IInv, Creates, Asked, Asks, Create
  <2>2. DataFrom'
    BY <1>1 DEF IInv, DataFrom
  <2>3. Gapless'
    BY <1>1 DEF IInv, Gapless, Has
  <2> QED BY <2>1, <2>2, <2>3
<1>5. Behind'
  BY <1>1, <1>2 DEF IInv, Behind
<1>6. Bare' /\ OneOutput'
  BY <1>1 DEF IInv, Bare, OneOutput
<1> QED BY <1>3, <1>4, <1>5, <1>6, <1>7 DEF IInv

\* The PTY was read: what is sent follows on all that was sent.
LEMMA SendProcessOutputStep ==
  ASSUME IInv, NEW x \in Clients, SendProcessOutput(x)
  PROVE  IInv'
<1> DEFINE a == sent[x] + 1
<1> DEFINE b == written[x]
<1> DEFINE m == Data(x, a, b)
<1>1. /\ UNCHANGED <<requestId, client, writeTo, typed, buff, shown, calls, callbacks, finding>>
      /\ UNCHANGED <<rexec, peer, written, fed, toRexec, faults>>
      /\ rexec[x] = "running" /\ sent[x] < b /\ sent' = [sent EXCEPT ![x] = b]
      /\ toClient' = ToClient(peer[x], m) /\ peer[x] \in Clients
  BY DEF SendProcessOutput, clientVars, agentVars, IInv, TypeOK
<1>2. a \in Nat \ {0} /\ b \in Nat /\ a <= b /\ a = sent[x] + 1
  BY <1>1 DEF IInv, TypeOK
<1>3. /\ sent' \in [Clients -> Nat] /\ sent'[x] = b /\ \A y \in Clients \ {x} : sent'[y] = sent[y]
  BY <1>1, <1>2 DEF IInv, TypeOK
<1>4. writeTo[peer[x]] = <<x>>
  BY <1>1 DEF IInv, Behind
<1> HIDE DEF a, b
<1>5. /\ m \in Messages /\ m.kind = "data" /\ m.from = x /\ m.chunks # <<>> /\ First(m) = a /\ Last(m) = b
      /\ \A k \in DOMAIN m.chunks : m.chunks[k] = <<x, a + k - 1>>
  BY <1>2, DataType
<1> HIDE DEF m
<1>6. Creates'
  <2>1. \A y \in Clients : Asks(y) => rexec'[y] \notin {"none", "started"}
    BY <1>1 DEF Asks
  <2>2. m.kind # "create" /\ \A y \in Clients : m # Create(y)
    BY <1>5, MessageTypes
  <2> QED BY <1>1, <1>5, <2>1, <2>2, SendCreates DEF IInv
<1>7. DataFrom'
  BY <1>1, <1>4, <1>5, SendDataFrom DEF IInv, OfShell
<1>8. Gapless'
  <2>1. Head(writeTo[peer[x]]) = x
    BY <1>4
  <2>2. \A c \in Clients \ {peer[x]} : writeTo[c] # <<>> => sent'[Head(writeTo[c])] = sent[Head(writeTo[c])]
    <3> SUFFICES ASSUME NEW c \in Clients \ {peer[x]}, writeTo[c] # <<>>
                 PROVE  Head(writeTo[c]) \in Clients \ {x}
      BY <1>3
    <3>1. Head(writeTo[c]) \in Clients /\ writeTo[c] = <<Head(writeTo[c])>>
      BY Writes DEF IInv
    <3> QED BY <3>1 DEF IInv, WrittenTo
  <2>3. First(m) = sent[Head(writeTo[peer[x]])] + 1 /\ Last(m) = sent'[Head(writeTo[peer[x]])]
    BY <1>2, <1>3, <1>5, <2>1
  <2>4. \A y \in Clients : sent'[y] \in Nat
    BY <1>3
  <2> QED BY <1>1, <1>5, <2>2, <2>3, <2>4, SendGapless DEF IInv
<1>9. TypeOK'
  <2>1. toClient' \in [Clients -> Seq(Messages)]
    BY <1>1, <1>5, Forwarded DEF IInv
  <2>2. \A y \in Clients : sent'[y] <= written[y]
    <3>1. \A y \in Clients : sent[y] <= written[y]
      BY DEF IInv, TypeOK
    <3>2. sent'[x] <= written[x]
      BY <1>2, <1>3 DEF b
    <3> QED BY <1>3, <3>1, <3>2
  <2> QED BY <1>1, <1>3, <2>1, <2>2 DEF IInv, TypeOK
<1>10. Launches' /\ SameId' /\ WrittenTo' /\ Behind' /\ Accepted'
  BY <1>1 DEF IInv, Launches, SameId, WrittenTo, Behind, Accepted, Asks, Alive
<1>11. Bare' /\ OneOutput'
  BY <1>1 DEF IInv, Bare, OneOutput
<1> QED BY <1>6, <1>7, <1>8, <1>9, <1>10, <1>11 DEF IInv

\* A message for x, which is an answer if x is asking.
LEMMA SendBack ==
  ASSUME TypeOK, Accepted, NEW x \in Clients, NEW m \in RexecMessages, toRexec' = ToRexec(x, m),
         rexec' = rexec, peer' = peer,
         \A c \in Clients : writeTo[c] # <<>> => writeTo'[c] = writeTo[c],
         m.kind = "created" =>
           /\ writeTo'[peer[x]] = <<x>> /\ rexec[x] \notin {"running", "failed"}
           /\ \A i \in DOMAIN toRexec[x] : toRexec[x][i] # m
  PROVE  Accepted' /\ toRexec' \in [Clients -> Seq(RexecMessages)]
<1>1. toRexec' \in [Clients -> Seq(RexecMessages)]
  BY ForwardedBack
<1> SUFFICES ASSUME NEW y \in Clients
             PROVE  /\ toRexec'[y] # <<>> => Alive(y)
                    /\ Once(toRexec'[y], "created")
                    /\ \A i \in DOMAIN toRexec'[y] : toRexec'[y][i].kind = "created" =>
                         writeTo'[peer[y]] = <<y>> /\ rexec[y] \notin {"running", "failed"}
  BY <1>1 DEF Accepted, Alive
<1>2. toRexec[y] \in Seq(RexecMessages) /\ Once(toRexec[y], "created") /\ peer[y] \in Clients
  BY DEF TypeOK, Accepted
<1>3. \A i \in DOMAIN toRexec[y] : toRexec[y][i].kind = "created" =>
        writeTo'[peer[y]] = <<y>> /\ rexec[y] \notin {"running", "failed"}
  <2> SUFFICES ASSUME NEW i \in DOMAIN toRexec[y], toRexec[y][i].kind = "created"
               PROVE  writeTo'[peer[y]] = <<y>> /\ rexec[y] \notin {"running", "failed"}
    OBVIOUS
  <2>1. writeTo[peer[y]] = <<y>> /\ rexec[y] \notin {"running", "failed"}
    BY DEF Accepted
  <2>2. writeTo[peer[y]] # <<>>
    BY <2>1
  <2>3. writeTo'[peer[y]] = writeTo[peer[y]]
    BY <1>2, <2>2
  <2> QED BY <2>1, <2>3
<1>4. CASE toRexec'[y] = toRexec[y]
  BY <1>2, <1>3, <1>4 DEF Accepted
<1>5. CASE y = x /\ Alive(x) /\ toRexec'[y] = Append(toRexec[y], m)
  <2>1. Once(toRexec'[y], "created")
    BY <1>2, <1>5, OnceAppend
  <2>2. \A i \in DOMAIN toRexec'[y] : toRexec'[y][i] = m \/ (i \in DOMAIN toRexec[y] /\ toRexec'[y][i] = toRexec[y][i])
    BY <1>2, <1>5
  <2> QED BY <1>3, <1>5, <2>1, <2>2
<1> QED BY <1>4, <1>5, ForwardedBack

LEMMA TypeStep ==
  ASSUME IInv, NEW c \in Clients, Type(c)
  PROVE  IInv'
<1>1. CASE Expected(c)
  <2>1. ClientGone(c) /\ faults' \in 0..MaxFaults
    BY <1>1 DEF Type, IInv, TypeOK
  <2>2. UNCHANGED <<requestId, writeTo, typed, shown, agentVars, rexecVars, toRexec>>
    BY <1>1 DEF Type
  <2> QED BY <2>1, <2>2, ClientGoneStep
<1>2. CASE ~Expected(c)
  <2> DEFINE x == Head(writeTo[c])
  <2> DEFINE m == Typed(c, typed[c] + 1)
  <2>1. /\ UNCHANGED <<requestId, client, writeTo, buff, shown, calls, callbacks, finding>>
        /\ UNCHANGED <<rexec, peer, written, sent, fed, toClient, faults>>
        /\ typed' = [typed EXCEPT ![c] = @ + 1] /\ toRexec' = ToRexec(x, m)
    BY <1>2 DEF Type, agentVars, rexecVars, shellVars
  <2>2. x \in Clients
    BY <1>2, Writes DEF IInv, Expected
  <2>3. m \in RexecMessages /\ m.kind = "data"
    BY DEF IInv, TypeOK, Typed, RexecMessages, Chunks
  <2> HIDE DEF x, m
  <2>4. Accepted' /\ toRexec' \in [Clients -> Seq(RexecMessages)]
    BY <2>1, <2>2, <2>3, SendBack DEF IInv
  <2>5. TypeOK'
    <3>1. typed' \in [Clients -> Nat]
      BY <2>1 DEF IInv, TypeOK
    <3> QED BY <2>1, <2>4, <3>1 DEF IInv, TypeOK
  <2>6. Launches' /\ SameId' /\ WrittenTo' /\ Behind'
    BY <2>1 DEF IInv, Launches, SameId, WrittenTo, Behind, Asks
  <2>7. Creates'
    BY <2>1 DEF IInv, Creates, Asked, Asks, Create
  <2>8. DataFrom' /\ Gapless' /\ Bare' /\ OneOutput'
    BY <2>1 DEF IInv, DataFrom, Gapless, Has, Bare, OneOutput
  <2> QED BY <2>4, <2>5, <2>6, <2>7, <2>8 DEF IInv
<1> QED BY <1>1, <1>2

-----------------------------------------------------------------------------
(* The terminal.                                                           *)

LEMMA Halves ==
  ASSUME NEW S, NEW b \in Seq(S), NEW k \in 0..Len(b)
  PROVE  /\ SubSeq(b, 1, k) \in Seq(S) /\ SubSeq(b, k + 1, Len(b)) \in Seq(S)
         /\ SubSeq(b, 1, k) \o SubSeq(b, k + 1, Len(b)) = b
<1> DEFINE q == SubSeq(b, 1, k)
<1> DEFINE r == SubSeq(b, k + 1, Len(b))
<1> DEFINE n == Len(b)
<1>1. n \in Nat /\ k \in Nat /\ k <= n /\ DOMAIN b = 1..n /\ \A i \in 1..n : b[i] \in S
  OBVIOUS
<1>2. q \in Seq(S) /\ Len(q) = k /\ \A i \in 1..k : q[i] = b[i]
  BY <1>1
<1>3. r \in Seq(S) /\ Len(r) = n - k /\ \A i \in 1..(n - k) : r[i] = b[k + i]
  <2>1. k + 1 \in 1..(n + 1) /\ n \in Nat
    BY <1>1
  <2>2. r = [i \in 1..(n - k) |-> b[k + i]]
    BY <1>1
  <2>3. n - k \in Nat /\ \A i \in 1..(n - k) : b[k + i] \in S
    BY <1>1
  <2> HIDE DEF r, n
  <2> QED BY <2>2, <2>3
<1> HIDE DEF q, r, n
<1>4. /\ q \o r \in Seq(S) /\ Len(q \o r) = n /\ DOMAIN (q \o r) = 1..n
      /\ \A i \in DOMAIN q : (q \o r)[i] = q[i]
      /\ \A i \in DOMAIN r : (q \o r)[k + i] = r[i]
  <2>1. /\ q \o r \in Seq(S) /\ Len(q \o r) = Len(q) + Len(r)
        /\ DOMAIN (q \o r) = 1..(Len(q) + Len(r))
        /\ \A i \in DOMAIN q : (q \o r)[i] = q[i]
        /\ \A i \in DOMAIN r : (q \o r)[Len(q) + i] = r[i]
    <3>1. q \in Seq(S) /\ r \in Seq(S)
      BY <1>2, <1>3
    <3> QED BY <3>1, Concatenation
  <2>2. k + (n - k) = n
    BY <1>1
  <2> QED BY <1>2, <1>3, <2>1, <2>2
<1>5. \A i \in 1..n : (q \o r)[i] = b[i]
  <2> SUFFICES ASSUME NEW i \in 1..n PROVE (q \o r)[i] = b[i]
    OBVIOUS
  <2>1. CASE i <= k
    BY <1>1, <1>2, <1>4, <2>1
  <2>2. CASE ~(i <= k)
    <3> DEFINE j == i - k
    <3>1. j \in 1..(n - k) /\ k + j = i /\ DOMAIN r = 1..(n - k)
      BY <1>1, <1>3, <2>2
    <3> HIDE DEF j
    <3>2. (q \o r)[k + j] = r[j] /\ r[j] = b[k + j]
      BY <1>3, <1>4, <3>1
    <3> QED BY <3>1, <3>2
  <2> QED BY <2>1, <2>2
<1>6. b \in Seq(S) /\ Len(b) = n
  BY DEF n
<1>7. q \o r = b
  BY <1>1, <1>4, <1>5, <1>6, SeqEqual
<1> QED BY <1>2, <1>3, <1>7 DEF q, r, n

\* What is written out is shown or waits, in its order.
LEMMA WrittenOut ==
  ASSUME TypeOK, NEW c \in Clients, NEW b \in Seq(Chunks), WriteOut(c, b)
  PROVE  /\ shown' \in [Clients -> Seq(Chunks)] /\ buff' \in [Clients -> Seq(Chunks)]
         /\ \A d \in Clients \ {c} : shown'[d] = shown[d] /\ buff'[d] = buff[d]
         /\ shown'[c] \o buff'[c] = shown[c] \o b
         /\ Len(shown'[c]) + Len(buff'[c]) = Len(shown[c]) + Len(b)
<1>1. PICK k \in 0..Len(b) :
        /\ shown' = [shown EXCEPT ![c] = shown[c] \o SubSeq(b, 1, k)]
        /\ buff' = [buff EXCEPT ![c] = SubSeq(b, k + 1, Len(b))]
  BY DEF WriteOut
<1> DEFINE q == SubSeq(b, 1, k)
<1> DEFINE r == SubSeq(b, k + 1, Len(b))
<1>2. q \in Seq(Chunks) /\ r \in Seq(Chunks) /\ q \o r = b
  BY Halves
<1> HIDE DEF q, r
<1>3. shown \in [Clients -> Seq(Chunks)] /\ buff \in [Clients -> Seq(Chunks)] /\ shown[c] \in Seq(Chunks)
  BY DEF TypeOK
<1>4. shown[c] \o q \in Seq(Chunks)
  BY <1>2, <1>3, Concatenation
<1>5. /\ shown' = [shown EXCEPT ![c] = shown[c] \o q] /\ buff' = [buff EXCEPT ![c] = r]
  BY <1>1 DEF q, r
<1>6. /\ shown' \in [Clients -> Seq(Chunks)] /\ buff' \in [Clients -> Seq(Chunks)]
      /\ shown'[c] = shown[c] \o q /\ buff'[c] = r
      /\ \A d \in Clients \ {c} : shown'[d] = shown[d] /\ buff'[d] = buff[d]
  BY <1>2, <1>3, <1>4, <1>5
<1>7. (shown[c] \o q) \o r = shown[c] \o (q \o r)
  <2>1. q \in Seq(Chunks)
    BY <1>2
  <2>2. r \in Seq(Chunks)
    BY <1>2
  <2> DEFINE p == shown[c]
  <2>3. p \in Seq(Chunks)
    BY <1>3
  <2> HIDE DEF p
  <2>4. (p \o q) \o r = p \o (q \o r)
    BY <2>1, <2>2, <2>3, Associative
  <2> QED BY <2>4 DEF p
<1>8. shown'[c] \o buff'[c] = shown[c] \o b
  BY <1>2, <1>6, <1>7
<1>9. Len(shown'[c] \o buff'[c]) = Len(shown'[c]) + Len(buff'[c])
  BY <1>2, <1>4, <1>6, Concatenation
<1>10. Len(shown[c] \o b) = Len(shown[c]) + Len(b)
  BY <1>3, Concatenation
<1> QED BY <1>6, <1>8, <1>9, <1>10

LEMMA FlushStep ==
  ASSUME IInv, NEW c \in Clients, Flush(c)
  PROVE  IInv'
<1>1. /\ UNCHANGED <<requestId, client, writeTo, typed, calls, callbacks, finding>>
      /\ UNCHANGED <<rexec, peer, written, sent, fed, toClient, toRexec, faults>>
      /\ buff[c] # <<>> /\ WriteOut(c, buff[c]) /\ buff[c] \in Seq(Chunks)
  BY DEF Flush, agentVars, rexecVars, shellVars, IInv, TypeOK
<1>2. /\ shown' \in [Clients -> Seq(Chunks)] /\ buff' \in [Clients -> Seq(Chunks)]
      /\ \A d \in Clients \ {c} : shown'[d] = shown[d] /\ buff'[d] = buff[d]
      /\ shown'[c] \o buff'[c] = shown[c] \o buff[c]
      /\ Len(shown'[c]) + Len(buff'[c]) = Len(shown[c]) + Len(buff[c])
  BY <1>1, WrittenOut DEF IInv
<1>3. \A d \in Clients :
        /\ shown'[d] \o buff'[d] = shown[d] \o buff[d]
        /\ Len(shown'[d]) + Len(buff'[d]) = Len(shown[d]) + Len(buff[d])
  BY <1>2
<1>4. TypeOK'
  BY <1>1, <1>2 DEF IInv, TypeOK
<1>5. Launches' /\ SameId' /\ WrittenTo' /\ Behind' /\ Accepted'
  BY <1>1 DEF IInv, Launches, SameId, WrittenTo, Behind, Accepted, Asks, Alive
<1>6. Creates'
  BY <1>1 DEF IInv, Creates, Asked, Asks, Create
<1>7. DataFrom'
  BY <1>1 DEF IInv, DataFrom
<1>8. Gapless'
  BY <1>1, <1>3 DEF IInv, Gapless, Has
<1>9. Bare'
  BY <1>1, <1>2 DEF IInv, Bare
<1>10. OneOutput'
  BY <1>1, <1>3 DEF IInv, OneOutput
<1> QED BY <1>4, <1>5, <1>6, <1>7, <1>8, <1>9, <1>10 DEF IInv

-----------------------------------------------------------------------------
(* A message for a client.                                                 *)

\* The first message is taken from the queue.
LEMMA Taken ==
  ASSUME TypeOK, Creates, NEW c \in Clients, toClient[c] # <<>>,
         toClient' = [toClient EXCEPT ![c] = Tail(@)], UNCHANGED <<rexec, peer>>,
         \/ writeTo' = writeTo
         \/ \E x \in Clients : Head(toClient[c]) = Create(x) /\ writeTo' = [writeTo EXCEPT ![c] = <<x>>]
  PROVE  /\ toClient' \in [Clients -> Seq(Messages)] /\ toClient'[c] = Tail(toClient[c])
         /\ \A d \in Clients \ {c} : toClient'[d] = toClient[d]
         /\ \A d \in Clients \ {c} : writeTo'[d] = writeTo[d]
         /\ \A i \in DOMAIN toClient'[c] : i + 1 \in DOMAIN toClient[c] /\ toClient'[c][i] = toClient[c][i + 1]
         /\ Creates'
<1> DEFINE q == toClient[c]
<1>1. q \in Seq(Messages) /\ q # <<>> /\ Once(q, "create") /\ toClient \in [Clients -> Seq(Messages)]
  BY DEF TypeOK, Creates
<1>2. /\ toClient' \in [Clients -> Seq(Messages)] /\ toClient'[c] = Tail(q)
      /\ \A d \in Clients \ {c} : toClient'[d] = toClient[d]
  BY <1>1
<1>3. \A d \in Clients \ {c} : writeTo'[d] = writeTo[d]
  BY DEF TypeOK
<1> HIDE DEF q
<1>4. \A i \in DOMAIN Tail(q) : i + 1 \in DOMAIN q /\ Tail(q)[i] = q[i + 1]
  BY <1>1
<1>5. /\ Once(Tail(q), "create")
      /\ Head(q).kind = "create" => \A i \in DOMAIN Tail(q) : Tail(q)[i] # Head(q)
  BY <1>1, OnceTail
<1>6. Creates'
  <2> SUFFICES ASSUME NEW d \in Clients
               PROVE  /\ Once(toClient'[d], "create")
                      /\ \A i \in DOMAIN toClient'[d] : \A x \in Clients : toClient'[d][i] = Create(x) => Asked(d, x)'
    BY DEF Creates, Create
  <2>1. CASE d # c
    BY <1>2, <1>3, <2>1 DEF Creates, Asked, Asks
  <2>2. CASE d = c
    <3>0. Once(toClient'[d], "create")
      BY <1>2, <1>5, <2>2
    <3> SUFFICES ASSUME NEW i \in DOMAIN toClient'[d], NEW y \in Clients, toClient'[d][i] = Create(y)
                 PROVE  Asked(d, y)'
      BY <3>0
    <3>4. i \in DOMAIN Tail(q) /\ Tail(q)[i] = Create(y)
      BY <1>2, <2>2
    <3>1. Asked(c, y)
      BY <1>4, <3>4 DEF Creates, q
    <3>2. CASE writeTo' = writeTo
      BY <2>2, <3>1, <3>2 DEF Asked, Asks
    <3>3. ASSUME NEW x \in Clients, Head(q) = Create(x), writeTo' = [writeTo EXCEPT ![c] = <<x>>]
          PROVE  Asked(d, y)'
      <4>1. Create(y) # Create(x)
        BY <1>5, <3>3, <3>4 DEF Create
      <4>2. y # x
        BY <4>1
      <4>3. writeTo'[c] = <<x>>
        BY <3>3 DEF TypeOK
      <4> QED BY <2>2, <3>1, <4>2, <4>3 DEF Asked, Asks
    <3> QED BY <3>2, <3>3 DEF q
  <2> QED BY <2>1, <2>2
<1> QED BY <1>2, <1>3, <1>4, <1>6 DEF q

LEMMA OpenTunnelStep ==
  ASSUME IInv, NEW c \in Clients, ClientReceives(c), OpenTunnel(c, Head(toClient[c]))
  PROVE  IInv'
<1> DEFINE q == toClient[c]
<1> DEFINE m == Head(q)
<1> DEFINE x == m.from
<1>1. /\ UNCHANGED <<requestId, typed, calls, callbacks, finding, rexec, peer, written, sent, fed, buff, shown, faults>>
      /\ q \in Seq(Messages) /\ q # <<>> /\ client[c] \in {"asked", "open"}
      /\ writeTo[c] = <<>> /\ m.kind = "create"
      /\ client' = [client EXCEPT ![c] = "open"] /\ writeTo' = [writeTo EXCEPT ![c] = <<x>>]
      /\ toRexec' = ToRexec(x, Created) /\ toClient' = [toClient EXCEPT ![c] = Tail(@)]
  BY DEF ClientReceives, OpenTunnel, Expected, agentVars, rexecVars, shellVars, IInv, TypeOK
<1>2. m \in Messages /\ m = q[1] /\ 1 \in DOMAIN q
  BY <1>1
<1>3. x \in Clients /\ m = Create(x)
  BY <1>1, <1>2 DEF Messages, Create
<1>4. peer[x] = c /\ Asks(x)
  BY <1>2, <1>3 DEF IInv, Creates, Asked
<1> HIDE DEF x, m
<1>18. \A y : <<y>> # <<>> /\ Head(<<y>>) = y
  OBVIOUS
<1>5. rexec[x] \notin {"running", "failed"} /\ written[x] = 0 /\ sent[x] = 0
  <2>1. writeTo[peer[x]] # <<x>>
    BY <1>1, <1>4, <1>18
  <2>2. written[x] \in Nat /\ sent[x] \in Nat /\ sent[x] <= written[x]
    BY <1>3 DEF IInv, TypeOK
  <2> QED BY <1>3, <2>1, <2>2 DEF IInv, Behind
<1>6. /\ client' \in [Clients -> {"idle", "asked", "open", "gone"}]
      /\ writeTo' \in [Clients -> {<<>>} \cup {<<y>> : y \in Clients}]
      /\ client'[c] = "open" /\ writeTo'[c] = <<x>>
      /\ \A d \in Clients \ {c} : client'[d] = client[d] /\ writeTo'[d] = writeTo[d]
  <2>1. <<x>> \in {<<>>} \cup {<<y>> : y \in Clients}
    BY <1>3
  <2> QED BY <1>1, <2>1 DEF IInv, TypeOK
<1>7. /\ toClient' \in [Clients -> Seq(Messages)]
      /\ \A d \in Clients \ {c} : toClient'[d] = toClient[d]
      /\ \A i \in DOMAIN toClient'[c] : i + 1 \in DOMAIN q /\ toClient'[c][i] = q[i + 1]
      /\ Creates'
  <2>1. \E y \in Clients : Head(toClient[c]) = Create(y) /\ writeTo' = [writeTo EXCEPT ![c] = <<y>>]
    BY <1>1, <1>3 DEF m
  <2> QED BY <1>1, <2>1, Taken DEF IInv
<1>8. Accepted' /\ toRexec' \in [Clients -> Seq(RexecMessages)]
  <2>1. Created \in RexecMessages /\ Created.kind = "created"
    BY DEF RexecMessages, Created
  <2>2. \A i \in DOMAIN toRexec[x] : toRexec[x][i] # Created
    <3>1. writeTo[peer[x]] # <<x>>
      BY <1>1, <1>4, <1>18
    <3> QED BY <1>3, <2>1, <3>1 DEF IInv, Accepted
  <2>3. \A d \in Clients : writeTo[d] # <<>> => writeTo'[d] = writeTo[d]
    BY <1>1, <1>6
  <2>4. writeTo'[peer[x]] = <<x>>
    BY <1>4, <1>6
  <2> QED BY <1>1, <1>3, <1>5, <2>1, <2>2, <2>3, <2>4, SendBack DEF IInv
<1>9. TypeOK'
  BY <1>1, <1>6, <1>7, <1>8 DEF IInv, TypeOK
<1>10. Launches'
  BY <1>1, <1>6 DEF IInv, Launches
<1>11. SameId' /\ WrittenTo'
  <2>1. \A y \in Clients : <<y>> = <<x>> => y = x
    OBVIOUS
  <2> QED BY <1>1, <1>4, <1>6, <2>1 DEF IInv, SameId, WrittenTo, Asks
<1>12. Behind'
  <2> SUFFICES ASSUME NEW y \in Clients, rexec[y] \in {"running", "failed"} \/ written[y] > 0
               PROVE  writeTo'[peer[y]] = <<y>>
    BY <1>1 DEF Behind
  <2>1. writeTo[peer[y]] = <<y>> /\ peer[y] \in Clients
    BY DEF IInv, Behind, TypeOK
  <2>2. peer[y] # c
    BY <1>1, <1>18, <2>1
  <2> QED BY <1>6, <2>1, <2>2
<1>13. \A i \in DOMAIN toClient'[c] : toClient'[c][i].kind # "data"
  <2>1. \A i \in DOMAIN q : OfShell(<<>>, q[i])
    BY <1>1 DEF IInv, DataFrom
  <2>2. \A i \in DOMAIN q : q[i].kind # "data"
    BY <1>18, <2>1 DEF OfShell
  <2> QED BY <1>7, <2>2
<1>14. DataFrom'
  BY <1>6, <1>7, <1>13 DEF IInv, DataFrom, OfShell
<1>15. Gapless'
  <2> SUFFICES ASSUME NEW d \in Clients, client'[d] # "gone", writeTo'[d] # <<>>
               PROVE  Continues(Has(d), toClient'[d], sent[Head(writeTo'[d])])
    BY <1>1 DEF Gapless, Has
  <2>1. CASE d # c
    BY <1>6, <1>7, <2>1 DEF IInv, Gapless
  <2>2. CASE d = c
    <3>1. Head(writeTo'[c]) = x /\ Has(c) = 0
      <4>1. shown[c] = <<>> /\ buff[c] = <<>>
        BY <1>1 DEF IInv, Bare
      <4> QED BY <1>6, <1>18, <4>1 DEF Has
    <3> DEFINE r == toClient'[c]
    <3>2. r \in Seq(Messages) /\ \A i \in DOMAIN r : r[i].kind # "data"
      BY <1>7, <1>13
    <3> HIDE DEF r
    <3>3. Flows(r, Len(r)) => Upto(0, r, Len(r)) = 0
      BY <3>2 DEF Flows, Upto
    <3>4. Continues(0, r, 0)
      BY <3>2, <3>3 DEF Continues
    <3> QED BY <1>5, <2>2, <3>1, <3>4 DEF r
  <2> QED BY <2>1, <2>2
<1>16. Bare'
  BY <1>1, <1>6 DEF IInv, Bare
<1>17. OneOutput'
  <2>1. \A d \in Clients : d # c \/ DOMAIN (shown[d] \o buff[d]) = {}
    <3>1. shown[c] = <<>> /\ buff[c] = <<>> /\ DOMAIN (<<>> \o <<>>) = {}
      BY <1>1 DEF IInv, Bare
    <3> QED BY <3>1
  <2> QED BY <1>1, <1>6, <2>1 DEF IInv, OneOutput
<1> QED BY <1>7, <1>8, <1>9, <1>10, <1>11, <1>12, <1>14, <1>15, <1>16, <1>17 DEF IInv

LEMMA ShowDataStep ==
  ASSUME IInv, NEW c \in Clients, ClientReceives(c), ShowData(c, Head(toClient[c]))
  PROVE  IInv'
<1> DEFINE q == toClient[c]
<1> DEFINE m == Head(q)
<1> DEFINE x == Head(writeTo[c])
<1>1. /\ UNCHANGED <<requestId, client, writeTo, typed, calls, callbacks, finding>>
      /\ UNCHANGED <<rexec, peer, written, sent, fed, toRexec, faults>>
      /\ q \in Seq(Messages) /\ q # <<>> /\ client[c] # "gone"
      /\ writeTo[c] # <<>> /\ m.kind = "data" /\ WriteOut(c, buff[c] \o m.chunks)
      /\ toClient' = [toClient EXCEPT ![c] = Tail(@)]
  BY DEF ClientReceives, ShowData, Expected, agentVars, rexecVars, shellVars, IInv, TypeOK
<1>2. m \in Messages /\ m = q[1] /\ 1 \in DOMAIN q
  BY <1>1
<1>3. x \in Clients /\ writeTo[c] = <<x>> /\ sent[x] \in Nat
  BY <1>1, Writes DEF IInv, TypeOK
<1>4. /\ m.from = x /\ m.chunks \in Seq(Chunks)
      /\ \A k \in DOMAIN m.chunks : m.chunks[k] = <<x, First(m) + k - 1>>
  <2>1. OfShell(writeTo[c], m)
    BY <1>2 DEF IInv, DataFrom
  <2>2. m.from = x
    BY <1>1, <1>3, <2>1 DEF OfShell
  <2>3. m.chunks \in Seq(Chunks)
    BY <1>1, <1>2 DEF Messages
  <2> QED BY <1>1, <2>1, <2>2, <2>3 DEF OfShell
<1>5. shown[c] \in Seq(Chunks) /\ buff[c] \in Seq(Chunks) /\ Has(c) \in Nat
  BY HasNat DEF IInv, TypeOK
<1>6. First(m) = Has(c) + 1 /\ Continues(Last(m), Tail(q), sent[x])
  <2>1. Continues(Has(c), q, sent[x])
    BY <1>1 DEF IInv, Gapless
  <2> HIDE DEF q, x
  <2> QED BY <1>1, <1>3, <1>5, <2>1, ContinuesTail
<1> DEFINE a == shown[c]
<1> DEFINE b == buff[c]
<1> DEFINE d == m.chunks
<1> DEFINE n == Has(c)
<1>7. a \in Seq(Chunks) /\ b \in Seq(Chunks) /\ d \in Seq(Chunks) /\ n \in Nat
  BY <1>4, <1>5
<1>8. Numbered(x, a \o b) /\ n = Len(a) + Len(b) /\ \A k \in DOMAIN d : d[k] = <<x, n + k>>
  <2>1. Numbered(x, a \o b) /\ n = Len(a) + Len(b)
    BY DEF IInv, OneOutput, Numbered, Has
  <2>2. \A k \in DOMAIN d : k \in Nat
    BY <1>4
  <2>3. \A k \in DOMAIN d : d[k] = <<x, First(m) + k - 1>> /\ First(m) = n + 1
    BY <1>4, <1>6
  <2>4. \A k \in DOMAIN d : First(m) + k - 1 = n + k
    <3> HIDE DEF d, n
    <3> QED BY <1>7, <2>2, <2>3
  <2> QED BY <2>1, <2>3, <2>4
<1>9. /\ shown' \in [Clients -> Seq(Chunks)] /\ buff' \in [Clients -> Seq(Chunks)]
      /\ \A e \in Clients \ {c} : shown'[e] = shown[e] /\ buff'[e] = buff[e]
      /\ shown'[c] \o buff'[c] = a \o (b \o d)
      /\ Len(shown'[c]) + Len(buff'[c]) = Len(a) + Len(b \o d)
  <2>1. b \o d \in Seq(Chunks) /\ WriteOut(c, b \o d)
    BY <1>1, <1>7, Concatenation
  <2> QED BY <2>1, WrittenOut DEF IInv
<1>10. Numbered(x, a \o (b \o d)) /\ Len(a) + Len(b \o d) = Last(m)
  <2>1. Last(m) = n + 1 + Len(d) - 1
    BY <1>6 DEF Last
  <2> HIDE DEF a, b, d, n, x, m
  <2>2. (a \o b) \o d = a \o (b \o d)
    BY <1>7, Associative
  <2>3. /\ a \o b \in Seq(Chunks) /\ Len(a \o b) = n
        /\ Len(b \o d) = Len(b) + Len(d) /\ Len(a) \in Nat /\ Len(b) \in Nat /\ Len(d) \in Nat
    BY <1>7, <1>8, Concatenation
  <2>4. Numbered(x, (a \o b) \o d)
    BY <1>7, <1>8, <2>3, NumberedAppend
  <2> QED BY <1>8, <2>1, <2>2, <2>3, <2>4
<1> HIDE DEF a, b, d, n
<1>11. /\ toClient' \in [Clients -> Seq(Messages)] /\ toClient'[c] = Tail(q)
       /\ \A e \in Clients \ {c} : toClient'[e] = toClient[e]
       /\ \A i \in DOMAIN toClient'[c] : i + 1 \in DOMAIN q /\ toClient'[c][i] = q[i + 1]
       /\ Creates'
  BY <1>1, Taken DEF IInv
<1>12. TypeOK'
  BY <1>1, <1>9, <1>11 DEF IInv, TypeOK
<1>13. Launches' /\ SameId' /\ WrittenTo' /\ Behind' /\ Accepted'
  BY <1>1 DEF IInv, Launches, SameId, WrittenTo, Behind, Accepted, Asks, Alive
<1>14. DataFrom'
  BY <1>1, <1>11 DEF IInv, DataFrom
<1>15. Gapless'
  <2> SUFFICES ASSUME NEW e \in Clients, client[e] # "gone", writeTo[e] # <<>>
               PROVE  Continues(Len(shown'[e]) + Len(buff'[e]), toClient'[e], sent[Head(writeTo[e])])
    BY <1>1 DEF Gapless, Has
  <2>1. CASE e # c
    BY <1>9, <1>11, <2>1 DEF IInv, Gapless, Has
  <2>2. CASE e = c
    BY <1>6, <1>9, <1>10, <1>11, <2>2
  <2> QED BY <2>1, <2>2
<1>16. Bare'
  BY <1>1, <1>9 DEF IInv, Bare
<1>17. OneOutput'
  <2> SUFFICES ASSUME NEW e \in Clients PROVE Numbered(Head(writeTo[e]), shown'[e] \o buff'[e])
    BY <1>1 DEF OneOutput, Numbered
  <2>1. CASE e # c
    BY <1>9, <2>1 DEF IInv, OneOutput, Numbered
  <2>2. CASE e = c
    BY <1>9, <1>10, <2>2
  <2> QED BY <2>1, <2>2
<1> QED BY <1>11, <1>12, <1>13, <1>14, <1>15, <1>16, <1>17 DEF IInv

LEMMA ClientReceivesStep ==
  ASSUME IInv, NEW c \in Clients, ClientReceives(c)
  PROVE  IInv'
<1> DEFINE m == Head(toClient[c])
<1>1. CASE OpenTunnel(c, m)
  BY <1>1, OpenTunnelStep
<1>2. CASE ShowData(c, m)
  BY <1>2, ShowDataStep
<1>3. CASE Unexpected(c, m)
  <2>1. ClientGone(c) /\ faults' \in 0..MaxFaults
    BY <1>3 DEF Unexpected, ClientReceives, IInv, TypeOK
  <2>2. UNCHANGED <<requestId, writeTo, typed, shown, agentVars, rexecVars, toRexec>>
    BY <1>3 DEF Unexpected, ClientReceives
  <2> QED BY <2>1, <2>2, ClientGoneStep
<1> QED BY <1>1, <1>2, <1>3 DEF ClientReceives

-----------------------------------------------------------------------------
(* The invariant.                                                          *)

LEMMA NextIInv == IInv /\ [Next]_vars => IInv'
<1> SUFFICES ASSUME IInv, [Next]_vars PROVE IInv'
  OBVIOUS
<1>1. CASE UNCHANGED vars
  <2>1. /\ UNCHANGED <<requestId, client, writeTo, typed, buff, shown, calls, callbacks, finding>>
        /\ UNCHANGED <<rexec, peer, written, sent, fed, toClient, toRexec, faults>>
    BY <1>1 DEF vars, clientVars, agentVars, rexecVars, shellVars
  <2>2. TypeOK'
    BY <2>1 DEF IInv, TypeOK
  <2>3. Launches' /\ SameId' /\ WrittenTo' /\ Behind' /\ Accepted'
    BY <2>1 DEF IInv, Launches, SameId, WrittenTo, Behind, Accepted, Asks, Alive
  <2>4. Creates'
    BY <2>1 DEF IInv, Creates, Asked, Asks, Create
  <2>5. DataFrom' /\ Gapless' /\ Bare' /\ OneOutput'
    BY <2>1 DEF IInv, DataFrom, Gapless, Has, Bare, OneOutput
  <2> QED BY <2>2, <2>3, <2>4, <2>5 DEF IInv
<1>2. ASSUME NEW c \in Clients,
             \/ LaunchRemoteShell(c) \/ LaunchFails(c) \/ ClientReceives(c) \/ Flush(c) \/ Type(c) \/ ClientLost(c)
      PROVE  IInv'
  <2>1. CASE ClientLost(c)
    <3>1. ClientGone(c) /\ faults' \in 0..MaxFaults
      BY <2>1, BoundsAssumption DEF ClientLost, Fault, IInv, TypeOK
    <3>2. UNCHANGED <<requestId, writeTo, typed, shown, agentVars, rexecVars, toRexec>>
      BY <2>1 DEF ClientLost
    <3> QED BY <3>1, <3>2, ClientGoneStep
  <2> QED BY <1>2, <2>1, AgentSteps, LaunchFailsStep, ClientReceivesStep, FlushStep, TypeStep
<1>3. ASSUME NEW c \in Clients,
             LaunchRexec(c) \/ FindTunnelResponse(c) \/ FindTunnelFails(c) \/ CallbackExpires(c)
      PROVE  IInv'
  BY <1>3, AgentSteps, FindTunnelResponseStep
<1>4. ASSUME NEW x \in Clients, CreateExpires(x) \/ RexecQuits(x) \/ RexecLost(x)
      PROVE  IInv'
  <2>1. RexecGone(x) /\ Alive(x) /\ faults' \in 0..MaxFaults
    BY <1>4, BoundsAssumption DEF CreateExpires, RexecQuits, RexecLost, Fault, Alive, IInv, TypeOK
  <2>2. UNCHANGED <<clientVars, agentVars, peer, shellVars, toClient>>
    BY <1>4 DEF CreateExpires, RexecQuits, RexecLost
  <2> QED BY <2>1, <2>2, RexecGoneStep
<1>5. ASSUME NEW x \in Clients, ShellEnds(x) \/ InactivityTimeout(x)
      PROVE  IInv'
  <2>1. CloseAndQuit(x) /\ rexec[x] \in {"asking", "running", "failed"}
    BY <1>5 DEF ShellEnds, InactivityTimeout
  <2>2. UNCHANGED <<clientVars, agentVars, peer, shellVars, toRexec, faults>>
    BY <1>5 DEF ShellEnds, InactivityTimeout
  <2> QED BY <2>1, <2>2, CloseStep
<1>6. ASSUME NEW x \in Clients,
             RexecConnected(x) \/ RexecReceives(x) \/ ShellWrites(x) \/ SendProcessOutput(x)
      PROVE  IInv'
  BY <1>6, RexecConnectedStep, RexecReceivesStep, ShellWritesStep, SendProcessOutputStep
<1> QED BY <1>1, <1>2, <1>3, <1>4, <1>5, <1>6 DEF Next

LEMMA IInvHolds == Spec => []IInv
  BY InitIInv, NextIInv, PTL DEF Spec

LEMMA IInvOwnShell == IInv => OwnShell
<1> SUFFICES ASSUME IInv, NEW x \in Clients, HasOwnId(x) PROVE peer[x] = x
  BY DEF OwnShell
<1> QED BY DEF IInv, TypeOK, SameId, HasOwnId

\* Of the tunnels: a shell runs only behind the tunnel its client writes to, a
\* terminal shows the output of one shell from the first chunk on without a gap,
\* and a client whose call has a request id of its own has the shell it asked for,
\* whatever request ids the clients use, connections are lost and timers expire
\* (shvrshapp.cpp:150-243, shvrexecapp.cpp:188, shvagentapp.cpp:399).
THEOREM TunnelsTrue == Spec => []TunnelTrue
<1>1. IInv => TunnelTrue
  BY IInvOwnShell DEF IInv, TunnelTrue, Behind, Agreed
<1> QED BY IInvHolds, <1>1, PTL

\* What a client writes to, and gets data from, is the shvrexec that was started
\* for a call with its own request id, and no data is on the way to a client that
\* follows on anything but what it has (shvrshapp.cpp:150-205).
THEOREM DataInOrder == Spec => [](WrittenTo /\ SameId /\ DataFrom /\ Gapless)
<1>1. IInv => WrittenTo /\ SameId /\ DataFrom /\ Gapless
  BY DEF IInv
<1> QED BY IInvHolds, <1>1, PTL
=============================================================================
