---------------------------- MODULE DeviceMonitor ----------------------------
(***************************************************************************)
(* shvhistoryprovider: the devices whose logs it keeps (devicemonitor.cpp, *)
(* siteitem.cpp) and the tree it shows of them (rootnode.cpp).             *)
(*                                                                         *)
(* The sites come from getSites, after a connection, a signal reloaded or  *)
(* the timer of an hour (a minute after an error).  Whether a device is    *)
(* there is asked with ls of its parent, for new sites and after a signal  *)
(* mntchng.  The broker's answers and signals come in order; getSites is   *)
(* answered by another program, any time.  Paths are compared as text.     *)
(***************************************************************************)
EXTENDS Integers, Sequences, FiniteSets

CONSTANTS
  Sites,        \* versions of sites.json: a sequence of [hp, others: sets of paths] of the
                \* devices with and without "HP" in their _meta
  Root,         \* sitesRootPath
  NamePrefixes, \* the pairs of names of which the first begins the second
  PushLog,      \* the devices with pushLog
  MountPoints,  \* where the broker may have something mounted
  MaxDrops, MaxMounts, MaxErrors, MaxWire  \* bounds

IsPrefix(p, q) == Len(p) <= Len(q) /\ SubSeq(q, 1, Len(p)) = p

(* QString::startsWith                                                     *)
StartsWith(p, q) ==
  \/ IsPrefix(q, p)
  \/ /\ Len(q) <= Len(p) /\ SubSeq(p, 1, Len(q) - 1) = SubSeq(q, 1, Len(q) - 1)
     /\ <<q[Len(q)], p[Len(q)]>> \in NamePrefixes

AllDevices == UNION {Sites[v].hp : v \in DOMAIN Sites}

DeviceMonitorAssumption ==
  /\ Len(Sites) > 0
  /\ {MaxDrops, MaxMounts, MaxErrors, MaxWire} \subseteq Nat
  /\ \A m \in MountPoints, d \in AllDevices : ~(IsPrefix(d, m) /\ d # m)

VARIABLES
  up,         \* the connection to the broker
  version,    \* of the sites that getSites returns
  sites,      \* m_sites: the version it was made from, 0 before
  monitored,  \* m_monitoredDevices
  online,     \* m_onlineDevices: how many times each device is in the list
  timer,      \* m_downloadSitesTimer: "off", "soon" (1 ms), "later" (a minute, an hour)
  getSites,   \* requests getSites under way
  asked,      \* the devices whose parents' ls is asked for, in order
  wire,       \* answers and signals that the broker has sent
  mounts,     \* what is mounted at the broker
  taken,      \* history: devices taken from online for one mount and still below another
  drops, mounted, errors  \* bounds

dmVars == <<up, version, sites, monitored, online, timer, getSites, asked, wire, mounts, taken, drops, mounted, errors>>

TypeOK ==
  /\ up \in BOOLEAN /\ timer \in {"off", "soon", "later"} /\ version \in DOMAIN Sites /\ sites \in 0 .. Len(Sites)
  /\ monitored \subseteq AllDevices /\ online \in [AllDevices -> Nat] /\ mounts \subseteq MountPoints
  /\ asked \in Seq(AllDevices) /\ taken \subseteq AllDevices

Init ==
  /\ up = FALSE /\ version = 1 /\ sites = 0 /\ monitored = {} /\ online = [d \in AllDevices |-> 0]
  /\ timer = "off" /\ getSites = 0 /\ asked = <<>> /\ wire = <<>> /\ mounts = {}
  /\ taken = {} /\ drops = 0 /\ mounted = 0 /\ errors = 0

-----------------------------------------------------------------------------
(* The tree.                                                               *)

(* SiteItem::parseRpcValue: a device out of sitesRootPath is dropped with  *)
(* all below it, and a node without a device of the provider below it too. *)
Devices(v) == {d \in Sites[v].hp : \A e \in Sites[v].hp \cup Sites[v].others : IsPrefix(e, d) => StartsWith(e, Root)}
TreeOf(v) == {<<>>} \cup UNION {{SubSeq(d, 1, n) : n \in DOMAIN d} : d \in Devices(v)}

Children(v, p) == {q[Len(p) + 1] : q \in {q \in TreeOf(v) : Len(q) = Len(p) + 1 /\ IsPrefix(p, q)}}

(* RootNode::ls                                                            *)
Ls(p) ==
  IF sites # 0 /\ p \in TreeOf(sites)
    THEN Children(sites, p)
           \cup (IF Children(sites, p) = {} /\ p \in Devices(sites) \ PushLog THEN {"dirtyLog"} ELSE {})
    ELSE {}

(* RootNode::metaMethods: only a monitored device has more than a branch.  *)
MetaMethods(p) ==
  {"ls", "getLog"} \cup (IF p \notin monitored THEN {} ELSE {"checkLogCache", "sanitizeLogCache"})
                   \cup (IF p \in monitored \cap PushLog THEN {"pushLog"} ELSE {})

-----------------------------------------------------------------------------
(* Sites.                                                                  *)

(* downloadSites: an active timer is made to expire soon instead.          *)
DownloadSites ==
  IF timer = "off" THEN getSites' = getSites + 1 /\ UNCHANGED timer
                   ELSE timer' = "soon" /\ UNCHANGED getSites

Connected ==
  /\ ~up /\ up' = TRUE
  /\ DownloadSites
  /\ UNCHANGED <<version, sites, monitored, online, asked, wire, mounts, taken, drops, mounted, errors>>

(* The timer, of 1 ms or of an hour; without a connection the request is   *)
(* answered with a timeout.                                                *)
TimerExpires ==
  /\ timer # "off" /\ timer' = "off"
  /\ getSites' = getSites + 1
  /\ UNCHANGED <<up, version, sites, monitored, online, asked, wire, mounts, taken, drops, mounted, errors>>

(* scanDevices, in any order of the new devices.                           *)
ScanDevices(devices, order) ==
  /\ monitored' = devices
  /\ online' = [d \in AllDevices |-> IF d \in monitored \ devices /\ online[d] > 0 THEN online[d] - 1 ELSE online[d]]
  /\ asked' = asked \o order

Orders(S) == {o \in [1 .. Cardinality(S) -> S] : \A d \in S : \E i \in DOMAIN o : o[i] = d}

SitesAnswered ==
  /\ up /\ getSites > 0 /\ getSites' = getSites - 1
  /\ timer' = "later" /\ sites' = version
  /\ \E order \in Orders(Devices(version) \ monitored) : ScanDevices(Devices(version), order)
  /\ UNCHANGED <<up, version, wire, mounts, taken, drops, mounted, errors>>

(* An error or a timeout.                                                  *)
SitesError ==
  /\ getSites > 0 /\ getSites' = getSites - 1
  /\ (up => errors < MaxErrors) /\ errors' = IF up THEN errors + 1 ELSE errors
  /\ timer' = "later"
  /\ UNCHANGED <<up, version, sites, monitored, online, asked, wire, mounts, taken, drops, mounted>>

-----------------------------------------------------------------------------
(* Devices.                                                                *)

BelowMount(p) == {d \in monitored : StartsWith(d, p)}

(* onDeviceMountChanged: each device below the path is asked about, or     *)
(* taken from the list once.                                               *)
MountChanged ==
  /\ up /\ wire # <<>> /\ Head(wire).what \in {"mounted", "unmounted"}
  /\ wire' = Tail(wire)
  /\ LET below == BelowMount(Head(wire).path)
     IN  IF Head(wire).what = "mounted"
           THEN (\E order \in Orders(below) : asked' = asked \o order) /\ UNCHANGED <<online, taken>>
           ELSE /\ taken' = taken \cup {d \in below : \E m \in mounts \ {Head(wire).path} : IsPrefix(m, d)}
                /\ online' = [d \in AllDevices |-> IF d \in below /\ online[d] > 0 THEN online[d] - 1 ELSE online[d]]
                /\ UNCHANGED asked
  /\ UNCHANGED <<up, version, sites, monitored, timer, getSites, mounts, drops, mounted, errors>>

(* isDeviceOnline: the answer names the device or does not.                *)
OnlineAnswered ==
  /\ up /\ wire # <<>> /\ Head(wire).what \in {"listed", "notListed"}
  /\ wire' = Tail(wire)
  /\ online' = [online EXCEPT ![Head(wire).path] = IF Head(wire).what = "listed" THEN @ + 1 ELSE @]
  /\ taken' = IF Head(wire).what = "listed" THEN taken \ {Head(wire).path} ELSE taken
  /\ UNCHANGED <<up, version, sites, monitored, timer, getSites, asked, mounts, drops, mounted, errors>>

Reloaded ==
  /\ up /\ wire # <<>> /\ Head(wire).what = "reloaded"
  /\ wire' = Tail(wire)
  /\ DownloadSites
  /\ UNCHANGED <<up, version, sites, monitored, online, asked, mounts, taken, drops, mounted, errors>>

(* onShvStateChanged; what was asked for is never answered.                *)
Disconnected ==
  /\ up /\ drops < MaxDrops /\ drops' = drops + 1
  /\ up' = FALSE /\ monitored' = {} /\ online' = [d \in AllDevices |-> 0]
  /\ asked' = <<>> /\ wire' = <<>> /\ taken' = {}
  /\ UNCHANGED <<version, sites, timer, getSites, mounts, mounted, errors>>

-----------------------------------------------------------------------------
(* The broker and the program that has the sites.                          *)

Send(m) == Len(wire) < MaxWire /\ wire' = IF up THEN Append(wire, m) ELSE wire

BrokerAnswers ==
  /\ up /\ asked # <<>> /\ asked' = Tail(asked)
  /\ LET d == Head(asked)
     IN  Send([what |-> IF \E m \in mounts : IsPrefix(m, d) THEN "listed" ELSE "notListed", path |-> d])
  /\ UNCHANGED <<up, version, sites, monitored, online, timer, getSites, mounts, taken, drops, mounted, errors>>

MountsChange ==
  /\ mounted < MaxMounts /\ mounted' = mounted + 1
  /\ \E m \in MountPoints :
       /\ mounts' = IF m \in mounts THEN mounts \ {m} ELSE mounts \cup {m}
       /\ IF IsPrefix(Root, m) THEN Send([what |-> IF m \in mounts THEN "unmounted" ELSE "mounted", path |-> m])
                               ELSE UNCHANGED wire
  /\ UNCHANGED <<up, version, sites, monitored, online, timer, getSites, asked, taken, drops, errors>>

SitesChange ==
  /\ version < Len(Sites) /\ version' = version + 1
  /\ Send([what |-> "reloaded", path |-> <<>>])
  /\ UNCHANGED <<up, sites, monitored, online, timer, getSites, asked, mounts, taken, drops, mounted, errors>>

Next ==
  \/ Connected \/ TimerExpires \/ SitesAnswered \/ SitesError \/ MountChanged \/ OnlineAnswered
  \/ Reloaded \/ Disconnected \/ BrokerAnswers \/ MountsChange \/ SitesChange

Spec == Init /\ [][Next]_dmVars

(* When nothing is under way every monitored device that is mounted below  *)
(* sitesRootPath is in the list of those online, whatever order mounts,    *)
(* new sites, answers and lost connections came in, but for those that     *)
(* were taken from it with another mount, above them or with a path that   *)
(* begins theirs as text; and, unless a getSites failed, the sites are the *)
(* present ones, and a walk with ls through the tree reaches exactly the   *)
(* devices whose logs are kept.                                            *)
Settled == up /\ wire = <<>> /\ asked = <<>> /\ getSites = 0 /\ timer # "soon"

Walked == {p \in TreeOf(sites) : \A n \in DOMAIN p : p[n] \in Ls(SubSeq(p, 1, n - 1)) \ {"dirtyLog"}}

DevicesKnown ==
  Settled =>
    /\ \A d \in monitored \ taken, m \in mounts : IsPrefix(Root, m) /\ IsPrefix(m, d) => online[d] > 0
    /\ errors = 0 => sites = version /\ monitored = {p \in Walked : StartsWith(p, Root) /\ p \in Sites[sites].hp}
=============================================================================
