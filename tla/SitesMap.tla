------------------------------- MODULE SitesMap ------------------------------
(***************************************************************************)
(* shvsites: the map of the sites, which shows for each whether it is      *)
(* connected to the broker (shvsitesapp.cpp, sitesmodel.cpp).              *)
(*                                                                         *)
(* The sites come from getSites after a connection; each is asked for dir, *)
(* and a site that answers is shown connected.  Later signals mntchng of   *)
(* its path change that.  The answers of the sites go through the broker,  *)
(* in order with its signals.  Either call may end with an error or with   *)
(* its timeout, and neither is repeated.                                   *)
(***************************************************************************)
EXTENDS Integers, Sequences, FiniteSets

CONSTANTS
  Sites,              \* the sites with a position, which alone are shown
  MaxFaults,          \* bound of lost connections and failed calls
  MaxMounts, MaxWire  \* bounds

SitesMapAssumption == {MaxFaults, MaxMounts, MaxWire} \subseteq Nat

VARIABLES
  up,         \* the connection to the broker
  getSites,   \* is getSites under way?
  model,      \* m_sites: the sites that are in the model
  shown,      \* those of them that are shown connected
  asked,      \* the sites whose dir is under way
  wire,       \* answers and signals that the broker has sent
  mounts,     \* the sites that are mounted
  silent,     \* history: sites not shown, because a call of this connection failed
  faults, mounted   \* bounds

smVars == <<up, getSites, model, shown, asked, wire, mounts, silent, faults, mounted>>

TypeOK ==
  /\ {up, getSites} \subseteq BOOLEAN /\ {model, shown, asked, mounts, silent} \subseteq SUBSET Sites
  /\ shown \subseteq model

Init ==
  /\ up = FALSE /\ getSites = FALSE /\ model = {} /\ shown = {} /\ asked = {} /\ wire = <<>>
  /\ mounts = {} /\ silent = {} /\ faults = 0 /\ mounted = 0

(* onBrokerConnected, loadSitesModel                                       *)
BrokerConnected ==
  /\ ~up /\ up' = TRUE
  /\ model' = {} /\ shown' = {} /\ getSites' = TRUE /\ silent' = {}
  /\ UNCHANGED <<asked, wire, mounts, faults, mounted>>

Fault == faults < MaxFaults /\ faults' = faults + 1

(* A callback that still waits can only time out, which changes nothing.   *)
BrokerDisconnected ==
  /\ up /\ Fault
  /\ up' = FALSE
  /\ model' = {} /\ shown' = {} /\ getSites' = FALSE /\ asked' = {} /\ wire' = <<>>
  /\ silent' = {}
  /\ UNCHANGED <<mounts, mounted>>

(* loadSitesHelper: each site is added and asked at once.                  *)
LoadSites ==
  /\ up /\ getSites /\ getSites' = FALSE
  /\ model' = Sites /\ asked' = Sites
  /\ UNCHANGED <<up, shown, wire, mounts, silent, faults, mounted>>

(* getSites ends with an error or its timeout: the map stays empty until   *)
(* the next connection.                                                    *)
GetSitesFails ==
  /\ up /\ getSites /\ Fault /\ getSites' = FALSE
  /\ silent' = Sites
  /\ UNCHANGED <<up, model, shown, asked, wire, mounts, mounted>>

(* The dir of a site ends with an error or its timeout.  An answer that    *)
(* comes later is ignored, as if it had never been sent.                   *)
DirFails ==
  /\ up /\ Fault
  /\ \E s \in asked : asked' = asked \ {s} /\ silent' = silent \cup ({s} \ shown)
  /\ UNCHANGED <<up, getSites, model, shown, wire, mounts, mounted>>

Send(m) == Len(wire) < MaxWire /\ wire' = IF up THEN Append(wire, m) ELSE wire

(* The site answers, or the broker says that there is nobody.              *)
SiteAnswers ==
  /\ up
  /\ \E s \in asked :
       /\ asked' = asked \ {s}
       /\ Send([what |-> IF s \in mounts THEN "methods" ELSE "error", site |-> s])
  /\ UNCHANGED <<up, getSites, model, shown, mounts, silent, faults, mounted>>

MountsChange ==
  /\ mounted < MaxMounts /\ mounted' = mounted + 1
  /\ \E s \in Sites :
       /\ mounts' = IF s \in mounts THEN mounts \ {s} ELSE mounts \cup {s}
       /\ Send([what |-> IF s \in mounts THEN "unmounted" ELSE "mounted", site |-> s])
  /\ UNCHANGED <<up, getSites, model, shown, asked, silent, faults>>

(* setSiteBrokerConnected: a path that is not in the model is nothing.     *)
SetSiteBrokerConnected(s, isConnected) ==
  shown' = IF s \notin model THEN shown ELSE IF isConnected THEN shown \cup {s} ELSE shown \ {s}

Connects == {"methods", "mounted"}

Received ==
  /\ up /\ wire # <<>> /\ wire' = Tail(wire)
  /\ LET m == Head(wire)
     IN  CASE m.what \in Connects -> SetSiteBrokerConnected(m.site, TRUE)
           [] m.what = "unmounted" -> SetSiteBrokerConnected(m.site, FALSE)
           [] OTHER -> UNCHANGED shown
  /\ silent' = silent \ shown'
  /\ UNCHANGED <<up, getSites, model, asked, mounts, faults, mounted>>

Next ==
  \/ BrokerConnected \/ BrokerDisconnected
  \/ LoadSites \/ GetSitesFails \/ SiteAnswers \/ DirFails
  \/ MountsChange \/ Received

Spec == Init /\ [][Next]_smVars

(* When nothing is under way the map shows exactly the sites that are      *)
(* mounted, whatever came while the sites were loaded and asked, but for   *)
(* those whose call failed while they were not shown: such a site stays    *)
(* so until a signal tells that it was mounted, and without the sites none *)
(* is shown for the whole connection.                                      *)
ShownMounted ==
  up /\ ~getSites /\ asked = {} /\ wire = <<>> => shown = mounts \ silent
=============================================================================
