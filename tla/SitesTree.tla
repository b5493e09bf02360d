------------------------------ MODULE SitesTree ------------------------------
(***************************************************************************)
(* historyprovider3: which provider or device each site is synchronised    *)
(* from, and in which directory of the cache its entries are kept          *)
(* (createTree of historyapp.cpp; onRpcMessageReceived and syncLog of      *)
(* shvjournalnode.cpp).                                                    *)
(*                                                                         *)
(* Three parts of the program name the directory of a site each in its own *)
(* way: the node that answers for the site, the synchronisation of the     *)
(* outermost provider above it, and the notifications that go to its dirty *)
(* log.                                                                    *)
(***************************************************************************)
EXTENDS Integers, Sequences, FiniteSets

CONSTANTS
  Paths,        \* the nodes there may be in the sites, without the leading "shv"
  NamePrefixes, \* the pairs of names of which the first begins the second
  Properties,   \* the paths, in a site, that notifications come for; <<>> is the site itself
  MaxSlaves     \* bound

Front(p) == SubSeq(p, 1, Len(p) - 1)
IsPrefix(p, q) == Len(p) <= Len(q) /\ SubSeq(q, 1, Len(p)) = p

SitesTreeAssumption ==
  /\ Paths \subseteq Seq(STRING) /\ Properties \subseteq Seq(STRING)
  /\ \A p \in Paths : Len(p) > 1 => Front(p) \in Paths
  /\ MaxSlaves \in Nat

VARIABLES
  kind,    \* the _meta of a node: "none" (no HP), "HP", "push", "device" (HP3), "HP3"
  dirty,   \* what notifications have put in dirty logs: directory, path in it, the path they came for
  files,   \* what syncs have put in directories: directory, slave, site that the log is of
  crashed  \* has a notification ended the program?

streeVars == <<kind, dirty, files, crashed>>

HpKinds == {"HP", "push", "device", "HP3"}
Kinds == HpKinds \cup {"none"}

-----------------------------------------------------------------------------
(* createTree                                                              *)

HpNodes == {p \in Paths : kind[p] \in HpKinds}

(* is_site: HP, and HP3 whose type is device.                              *)
SiteNodes == {p \in HpNodes : kind[p] # "HP3"}

(* slave_hps: below a node that is one there is no other.                  *)
Slaves == {p \in HpNodes : ~\E q \in HpNodes : IsPrefix(q, p) /\ q # p}

(* The directory that a SiteNode reads: the "shv" node adds nothing.       *)
JournalCacheDir(site) == site

-----------------------------------------------------------------------------
(* ShvJournalNode::onRpcMessageReceived                                    *)

(* starts_with compares characters, not names.                             *)
StartsWith(p, q) ==
  \/ IsPrefix(q, p)
  \/ /\ Len(q) <= Len(p) /\ IsPrefix(Front(q), p)
     /\ <<q[Len(q)], p[Len(q)]>> \in NamePrefixes

LongestPrefix(path) ==
  {s \in SiteNodes : IsPrefix(s, path) /\ \A t \in SiteNodes : IsPrefix(t, path) => Len(t) <= Len(s)}

Subscribed == {p \in Slaves : kind[p] # "push"}

(* Of the slaves that the path begins with, the first one in the order of  *)
(* the paths is found; a notification with just its path is discarded.     *)
Owners(path) ==
  IF {s \in Slaves : StartsWith(path, s)} \in {{}, {path}} THEN {} ELSE LongestPrefix(path)

(* One with just the path of another site asks for what is behind the end  *)
(* of the path, and nobody catches the exception.                          *)
OnRpcMessageReceived(path) ==
  \E s \in Owners(path) :
    IF s = path
      THEN crashed' = TRUE /\ UNCHANGED dirty
      ELSE /\ dirty' = dirty \cup {[dir |-> s, rel |-> SubSeq(path, Len(s) + 1, Len(path)), path |-> path]}
           /\ UNCHANGED crashed

Notification ==
  /\ \E s \in SiteNodes, p \in Properties :
       /\ \E sub \in Subscribed : IsPrefix(sub, s)
       /\ OnRpcMessageReceived(s \o p)
  /\ UNCHANGED <<kind, files>>

-----------------------------------------------------------------------------
(* syncLog of one slave: a device's log goes to its directory; a provider  *)
(* has a directory for each site below it, and those go to the directories *)
(* of the same names below the slave's.                                    *)
Journals(slave) ==
  IF slave \in SiteNodes THEN {<<>>}
  ELSE {SubSeq(s, Len(slave) + 1, Len(s)) : s \in {s \in SiteNodes : IsPrefix(slave, s)}}

SyncSlave ==
  /\ \E slave \in Slaves :
       /\ kind[slave] # "push"
       /\ files' = files \cup {[dir |-> slave \o j, by |-> slave, of |-> slave \o j] : j \in Journals(slave)}
  /\ UNCHANGED <<kind, dirty, crashed>>

-----------------------------------------------------------------------------
TypeOK ==
  /\ kind \in [Paths -> Kinds]
  /\ \A d \in dirty : d.dir \in SiteNodes
  /\ \A f \in files : f.by \in Slaves

Init ==
  /\ kind \in [Paths -> Kinds] /\ Cardinality(Slaves) <= MaxSlaves
  /\ dirty = {} /\ files = {} /\ crashed = FALSE

Next == ~crashed /\ (Notification \/ SyncSlave)

Spec == Init /\ [][Next]_streeVars

(* The entries of a site, whether a sync or a notification brought them,   *)
(* are in the directory that its node reads, under the path they came for; *)
(* one provider and no other brings them by a sync; and no notification of *)
(* a value in a site is lost.                                              *)
OneHome ==
  /\ \A d \in dirty : \E s \in SiteNodes :
       d.dir = JournalCacheDir(s) /\ d.path = s \o d.rel /\ \A t \in SiteNodes : IsPrefix(t, d.path) => Len(t) <= Len(s)
  /\ \A f \in files : f.dir = JournalCacheDir(f.of) /\ f.of \in SiteNodes
  /\ \A f, g \in files : f.of = g.of => f = g
  /\ \A s \in SiteNodes, p \in Properties \ {<<>>} :
       (\E sub \in Subscribed : IsPrefix(sub, s)) => Owners(s \o p) # {}
=============================================================================
