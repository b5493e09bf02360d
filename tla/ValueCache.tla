------------------------------ MODULE ValueCache ------------------------------
(***************************************************************************)
(* historyprovider3: the cache of the values of the sites                  *)
(* (valuecachenode.cpp).  A change signal and the answer to a get are      *)
(* saved, a mount signal erases what is below its path, and a get is       *)
(* answered from the cache or forwarded.  The node answers as soon as the  *)
(* program is connected; the subscriptions are made once the sites are     *)
(* known (initializeShvTree of historyapp.cpp).                            *)
(*                                                                         *)
(* Messages to and from the broker keep their order.  Every site has one   *)
(* value.                                                                  *)
(***************************************************************************)
EXTENDS Integers, Sequences, FiniteSets

CONSTANTS
  Sites,
  Silent,     \* sites whose changes are not subscribed (push log)
  Brokers,    \* sets of sites below a slave broker, which mount together
  MaxValue,   \* bound: changes of a value
  MaxGets,    \* bound: forwarded gets on their way at a time
  MaxMounts   \* bound: mounts and unmounts

ValueCacheAssumption ==
  /\ Silent \subseteq Sites /\ Brokers \subseteq SUBSET Sites
  /\ MaxValue \in Nat /\ MaxGets \in Nat /\ MaxMounts \in Nat

None == [value |-> -1, subscribed |-> TRUE]

VARIABLES
  value, mounted,  \* of each site
  subscribed,      \* "no", "sent" or "done"
  requests,        \* on the way to the broker: "subscribe" or a site to get
  messages,        \* on the way from the broker
  cache,           \* m_cache: the value, and whether it came with or after
                   \* the subscription
  mounts

vcVars == <<value, mounted, subscribed, requests, messages, cache, mounts>>

Hears(s) == subscribed = "done" /\ s \notin Silent

Init ==
  /\ value = [s \in Sites |-> 0] /\ mounted = [s \in Sites |-> TRUE]
  /\ subscribed = "no" /\ requests = <<>> /\ messages = <<>>
  /\ cache = [s \in Sites |-> None] /\ mounts = 0

(* getSites was answered.                                                  *)
Subscribe ==
  /\ subscribed = "no" /\ subscribed' = "sent"
  /\ requests' = Append(requests, [get |-> FALSE, sites |-> Sites])
  /\ UNCHANGED <<value, mounted, messages, cache, mounts>>

(* A get for a value that is not in the cache; one that is there changes   *)
(* nothing.                                                                *)
Get(s) ==
  /\ cache[s] = None
  /\ Cardinality({i \in DOMAIN requests : requests[i].get})
     + Cardinality({i \in DOMAIN messages : messages[i].kind = "result"}) < MaxGets
  /\ requests' = Append(requests, [get |-> TRUE, sites |-> {s}])
  /\ UNCHANGED <<value, mounted, subscribed, messages, cache, mounts>>

-----------------------------------------------------------------------------
(* The broker and the sites.                                               *)

Message(k, S, v) == [kind |-> k, sites |-> S, value |-> v]

Sent(k, S, v) == messages' = Append(messages, Message(k, S, v))

(* A site answers, or the call expires: then nothing is saved.             *)
BrokerTakes ==
  /\ requests # <<>> /\ requests' = Tail(requests)
  /\ IF ~Head(requests).get
     THEN subscribed' = "done" /\ UNCHANGED messages
     ELSE \E s \in Head(requests).sites :
            /\ \/ mounted[s] /\ Sent("result", {s}, [value |-> value[s], subscribed |-> Hears(s)])
               \/ UNCHANGED messages
            /\ UNCHANGED subscribed
  /\ UNCHANGED <<value, mounted, cache, mounts>>

Change(s) ==
  /\ value[s] < MaxValue
  /\ value' = [value EXCEPT ![s] = @ + 1]
  /\ IF mounted[s] /\ Hears(s)
     THEN Sent("chng", {s}, [value |-> value'[s], subscribed |-> TRUE]) ELSE UNCHANGED messages
  /\ UNCHANGED <<mounted, subscribed, requests, cache, mounts>>

(* A site alone, or all behind a slave broker.                             *)
Moves(S) ==
  /\ mounts < MaxMounts /\ mounts' = mounts + 1
  /\ \E b \in BOOLEAN :
       /\ \A s \in S : mounted[s] # b
       /\ mounted' = [s \in Sites |-> IF s \in S THEN b ELSE mounted[s]]
  /\ IF subscribed = "done" THEN Sent("mntchng", S, None) ELSE UNCHANGED messages
  /\ UNCHANGED <<value, subscribed, requests, cache>>

-----------------------------------------------------------------------------
(* onRpcMessageReceived, and the answer to a forwarded get.                *)

Saved(S, v) == [s \in Sites |-> IF s \in S THEN v ELSE cache[s]]

(* Mutant: only the value at the path itself is erased.                    *)
ErasedExactly(S) == [s \in Sites |-> IF S = {s} THEN None ELSE cache[s]]

Erased(S) == [s \in Sites |-> IF s \in S THEN None ELSE cache[s]]

MessageReceived ==
  /\ messages # <<>> /\ messages' = Tail(messages)
  /\ LET m == Head(messages)
     IN cache' = IF m.kind = "mntchng" THEN Erased(m.sites) ELSE Saved(m.sites, m.value)
  /\ UNCHANGED <<value, mounted, subscribed, requests, mounts>>

Next ==
  \/ Subscribe \/ BrokerTakes \/ MessageReceived
  \/ \E s \in Sites : Get(s) \/ Change(s)
  \/ \E S \in {{s} : s \in Sites} \cup Brokers : Moves(S)

Spec == Init /\ [][Next]_vcVars

-----------------------------------------------------------------------------
(* A cached value is the value of its site, or a message that will correct *)
(* it is on its way, through changes, gets on their way and mounts.  It is *)
(* not promised for a value that is not subscribed, or that was asked for  *)
(* before the subscription was made.                                       *)
CacheCurrent ==
  \A s \in Sites :
    cache[s].subscribed =>
      \/ cache[s].value \in {-1, value[s]}
      \/ \E i \in DOMAIN messages : s \in messages[i].sites

=============================================================================
