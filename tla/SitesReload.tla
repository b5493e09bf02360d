---------------------------- MODULE SitesReload -----------------------------
(***************************************************************************)
(* How the tree of sites is built and torn down: reloadSites,              *)
(* initializeShvTree, deinitializeShvTree and onBrokerConnectedChanged of  *)
(* historyapp.cpp in historyprovider3.                                     *)
(*                                                                         *)
(* The tree is rebuilt from the answer of a getSites call whenever the     *)
(* broker connection goes up or down and when a client calls reloadSites.  *)
(* The answer is asynchronous, may be an error or never come, and the      *)
(* connection changes meanwhile.                                           *)
(***************************************************************************)
EXTENDS Integers

CONSTANTS
  Requests,    \* the reloadSites calls of clients
  Nobody,      \* nobody waits for the end of a load
  MaxSessions, \* bound: how often the broker connection goes up
  MaxErrors    \* bound: how often getSites fails though connected

ASSUME ConstantsAssumption ==
  /\ Nobody \notin Requests
  /\ MaxSessions \in Nat /\ MaxErrors \in Nat

VARIABLES
  connected,  \* m_isBrokerConnected
  session,    \* the number of the current or last broker connection
  loading,    \* m_loadingSites
  tree,       \* m_shvTree: "none", "bare" (no sites yet) or "sites"
  subscribed, \* the session in which the tree's signals were subscribed
  loads,      \* the chains begun by initializeShvTree: see Load
  errors,     \* how often getSites failed though connected
  request     \* state of each reloadSites call

vars == <<connected, session, loading, tree, subscribed, loads, errors, request>>

\* A load waits for an answer of a getSites call or for the timer of its
\* next try; session: that of the call, 0 if it was made while disconnected.
Load == [at : {"call", "timer"}, session : Nat, waiter : Requests \cup {Nobody}]

Call(s, waiter) == [at |-> "call", session |-> s, waiter |-> waiter]

Init ==
  /\ connected = FALSE
  /\ session = 0
  /\ loading = FALSE
  /\ tree = "none"
  /\ subscribed = 0
  /\ loads = {}
  /\ errors = 0
  /\ request = [r \in Requests |-> "new"]

Replied(waiter, answer) ==
  [r \in Requests |-> IF r = waiter THEN answer ELSE request[r]]

-----------------------------------------------------------------------------
(* reloadSites.                                                            *)

(* Mutant: the tree is deleted before the guard.                           *)
ReloadDeletesFirst(waiter, up) ==
  \/ /\ loading
     /\ tree' = "none"
     /\ request' = Replied(waiter, "refused")
     /\ UNCHANGED <<loading, subscribed, loads>>
  \/ /\ ~loading
     /\ tree' = IF up THEN "bare" ELSE "none"
     /\ loading' = up
     /\ loads' = IF up THEN loads \cup {Call(session', waiter)} ELSE loads
     /\ request' = Replied(waiter, "waiting")
     /\ UNCHANGED subscribed

(* Refused during a load; otherwise the tree is deleted and, if there is a *)
(* connection, a new one is begun.                                         *)
Reload(waiter, up) ==
  \/ /\ loading
     /\ request' = Replied(waiter, "refused")
     /\ UNCHANGED <<loading, tree, subscribed, loads>>
  \/ /\ ~loading
     /\ tree' = IF up THEN "bare" ELSE "none"
     /\ loading' = up
     /\ loads' = IF up THEN loads \cup {Call(session', waiter)} ELSE loads
     /\ request' = Replied(waiter, "waiting")
     /\ UNCHANGED subscribed

Connect ==
  /\ ~connected /\ session < MaxSessions
  /\ connected' = TRUE
  /\ session' = session + 1
  /\ Reload(Nobody, TRUE)
  /\ UNCHANGED errors

(* Mutant: there is nothing to load, so nothing is done.                   *)
DisconnectKeepsTree ==
  /\ connected
  /\ connected' = FALSE
  /\ UNCHANGED <<session, loading, tree, subscribed, loads, errors, request>>

(* Ignored, too, when a load is under way.                                 *)
Disconnect ==
  /\ connected
  /\ connected' = FALSE
  /\ UNCHANGED <<session, errors>>
  /\ Reload(Nobody, FALSE)

ReloadRequest(r) ==
  /\ connected
  /\ request[r] = "new"
  /\ UNCHANGED <<connected, session, errors>>
  /\ Reload(r, TRUE)

-----------------------------------------------------------------------------
(* The answers of getSites.                                                *)

(* The tree is built and its signals are subscribed; the promise is        *)
(* finished, which ends the load and answers who waits for it.             *)
GotSites(l) ==
  /\ l \in loads /\ l.at = "call"
  /\ connected /\ l.session = session
  /\ tree' = "sites"
  /\ subscribed' = session
  /\ loads' = loads \ {l}
  /\ loading' = FALSE
  /\ request' = Replied(l.waiter, "answered")
  /\ UNCHANGED <<connected, session, errors>>

(* An error, or no answer in time: always, when the connection has gone.   *)
GotError(l) ==
  /\ l \in loads /\ l.at = "call"
  /\ \/ connected /\ l.session = session /\ errors < MaxErrors /\ errors' = errors + 1
     \/ l.session # session /\ UNCHANGED errors
     \/ ~connected /\ UNCHANGED errors
  /\ loads' = (loads \ {l}) \cup {[l EXCEPT !.at = "timer"]}
  /\ UNCHANGED <<connected, session, loading, tree, subscribed, request>>

(* Mutant: the promise is not handed on.                                   *)
RetryForgetsPromise(l) ==
  /\ l \in loads /\ l.at = "timer"
  /\ tree' = "bare"
  /\ loads' = (loads \ {l}) \cup {Call(IF connected THEN session ELSE 0, Nobody)}
  /\ UNCHANGED <<connected, session, loading, subscribed, errors, request>>

(* After 3 seconds initializeShvTree is called again, connected or not; it *)
(* makes a new tree and never deletes the one of the first try.            *)
Retry(l) ==
  /\ l \in loads /\ l.at = "timer"
  /\ tree' = "bare"
  /\ loads' = (loads \ {l}) \cup {Call(IF connected THEN session ELSE 0, l.waiter)}
  /\ UNCHANGED <<connected, session, loading, subscribed, errors, request>>

Next ==
  \/ Connect \/ Disconnect
  \/ \E r \in Requests : ReloadRequest(r)
  \/ \E l \in loads : GotSites(l) \/ GotError(l) \/ Retry(l)

Spec == Init /\ [][Next]_vars

(* Every getSites call ends and the timer of a retry fires.                *)
Fairness ==
  /\ WF_vars(\E l \in loads : GotSites(l) \/ GotError(l))
  /\ WF_vars(\E l \in loads : Retry(l))

FairSpec == Spec /\ Fairness

-----------------------------------------------------------------------------
(* Types; there is never more than one load.                               *)
TypeOK ==
  /\ connected \in BOOLEAN /\ loading \in BOOLEAN
  /\ session \in Nat /\ errors \in Nat /\ subscribed \in Nat
  /\ tree \in {"none", "bare", "sites"}
  /\ loads \subseteq Load /\ \A k, l \in loads : k = l
  /\ request \in [Requests -> {"new", "waiting", "answered", "refused"}]

(* Part of the inductive invariant, and a theorem of SitesReloadProofs:    *)
(* m_loadingSites is set exactly while a load is under way, whatever       *)
(* answers, errors, retries and connection changes come in between: it     *)
(* neither refuses for ever nor lets two loads run.                        *)
LoadingMeansLoad == loading <=> loads # {}

(* A tree of sites is only there while connected, and its signals are      *)
(* subscribed on this connection: no site goes on without its signals      *)
(* after the connection was lost and found while getSites was pending.     *)
SubscribedNow == tree = "sites" => connected /\ subscribed = session

(* While connected, requests find a tree: onRpcMessageReceived does not    *)
(* ask whether there is one.                                               *)
TreeForRequests == connected => tree # "none"

(* Once the connection stays up, the sites are loaded for good, and no     *)
(* caller of a reload that was begun waits any longer, even if the load    *)
(* failed or the connection changed at first; each calls once.             *)
LoadsEnd ==
  <>[]connected => <>[](tree = "sites" /\ \A r \in Requests : request[r] # "waiting")

=============================================================================
