---------------------------- MODULE MCRequests ------------------------------
(* The parts of historyprovider3 that answer requests, take signals and    *)
(* keep the cache small, side by side: they share no state, so a behaviour *)
(* is one of a part, and the others stay as they are.  The properties      *)
(* contain the type invariants of their modules.                           *)
EXTENDS SitesReload, Sequences, TLC

CONSTANTS
  ValueSites, SilentSites, ValueBrokers,   \* of ValueCache
  ValueChanges, ForwardedGets, ValueMounts,
  LogPaths, LogTime, LogEntries,           \* of GetLog
  TreePaths, TreeNames, TreeProperties, TreeSlaves,  \* of SitesTree
  DeviceLog, PushFaults,                   \* of PushLog
  CacheDirs, SizeLimit, SizeTime, FileSize, \* of Sanitizer
  SiteProperties, AlarmsOfProperty, SeverityOf, OfflineKey, DirCalls  \* of SiteAlarms

VARIABLES
  part,
  value, mounted, cacheSubscribed, requests, messages, cache, mounts,
  records, journals, dirtyAt, now,
  kind, dirty, slaveFiles, crashed,
  names, files, acked, sent, faults,
  time, cacheFiles, dirtySizes,
  alarms, overall, status, loaded, calls, alive, late, known, alarmsSent, fresh

V == INSTANCE ValueCache WITH
  Sites <- ValueSites, Silent <- SilentSites, Brokers <- ValueBrokers,
  MaxValue <- ValueChanges, MaxGets <- ForwardedGets, MaxMounts <- ValueMounts,
  subscribed <- cacheSubscribed

G == INSTANCE GetLog WITH Paths <- LogPaths, MaxTime <- LogTime, MaxEntries <- LogEntries

(* A site below another, and one whose name begins with that of a third.   *)
FourNodes == {<<"a">>, <<"a", "b">>, <<"a", "bc">>, <<"a", "b", "d">>}
BeginsAnother == {<<"b", "bc">>}
SiteAndValue == {<<>>, <<"p">>}

T == INSTANCE SitesTree WITH
  Paths <- TreePaths, NamePrefixes <- TreeNames, Properties <- TreeProperties,
  MaxSlaves <- TreeSlaves, files <- slaveFiles

(* Six entries in four milliseconds, two paths.                            *)
SixEntries ==
  <<[at |-> 1, path |-> "a"], [at |-> 1, path |-> "b"], [at |-> 2, path |-> "a"],
    [at |-> 3, path |-> "b"], [at |-> 3, path |-> "a"], [at |-> 4, path |-> "a"]>>

P == INSTANCE PushLog WITH Log <- DeviceLog, MaxFaults <- PushFaults

Z == INSTANCE Sanitizer WITH
  Dirs <- CacheDirs, Limit <- SizeLimit, MaxTime <- SizeTime, MaxSize <- FileSize,
  files <- cacheFiles, dirty <- dirtySizes

(* Two properties, one of them with two alarms of different severity.      *)
TwoProperties == <<"door", "fuse">>
ThreeAlarms == [door |-> <<"open", "forced">>, fuse |-> <<"blown">>]
Severities == [open |-> 3, forced |-> 1, blown |-> 2, offline |-> 1]

A == INSTANCE SiteAlarms WITH
  Properties <- SiteProperties, AlarmsOf <- AlarmsOfProperty, Severity <- SeverityOf,
  SiteOffline <- OfflineKey, MaxCalls <- DirCalls, sent <- alarmsSent

ASSUME RequestsAssumption ==
  V!ValueCacheAssumption /\ P!PushLogAssumption /\ Z!SanitizerAssumption
ASSUME AlarmsAssumption == A!SiteAlarmsAssumption
ASSUME LogsAssumption == T!SitesTreeAssumption /\ G!GetLogAssumption

vVars == <<value, mounted, cacheSubscribed, requests, messages, cache, mounts>>
gVars == <<records, journals, dirtyAt, now>>
tVars == <<kind, dirty, slaveFiles, crashed>>
pVars == <<names, files, acked, sent, faults>>
zVars == <<time, cacheFiles, dirtySizes>>
aVars == <<alarms, overall, status, loaded, calls, alive, late, known, alarmsSent, fresh>>
allVars == <<part, vars, vVars, gVars, tVars, pVars, zVars, aVars>>

(* Of the parts that do not run, one initial state is enough.              *)
MCInit ==
  /\ part \in {"reload", "cache", "getLog", "tree", "pushLog", "sanitizer", "alarms"}
  /\ Init /\ V!Init /\ G!Init /\ P!Init /\ Z!Init
  /\ T!Init /\ (part # "tree" => kind = [p \in TreePaths |-> "none"])
  /\ A!Init /\ (part # "alarms" => known = [p \in A!Props |-> {}])

MCNext ==
  \/ part = "reload" /\ Next /\ UNCHANGED <<part, vVars, gVars, tVars, pVars, zVars, aVars>>
  \/ part = "cache" /\ V!Next /\ UNCHANGED <<part, vars, gVars, tVars, pVars, zVars, aVars>>
  \/ part = "getLog" /\ G!Next /\ UNCHANGED <<part, vars, vVars, tVars, pVars, zVars, aVars>>
  \/ part = "tree" /\ T!Next /\ UNCHANGED <<part, vars, vVars, gVars, pVars, zVars, aVars>>
  \/ part = "pushLog" /\ P!Next /\ UNCHANGED <<part, vars, vVars, gVars, tVars, zVars, aVars>>
  \/ part = "sanitizer" /\ Z!Next /\ UNCHANGED <<part, vars, vVars, gVars, tVars, pVars, aVars>>
  \/ part = "alarms" /\ A!Next /\ UNCHANGED <<part, vars, vVars, gVars, tVars, pVars, zVars>>

(* With the fairness of SitesReload and SiteAlarms.                        *)
MCSpec ==
  /\ MCInit /\ [][MCNext]_allVars
  /\ WF_vars(part = "reload" /\ \E l \in loads : GotSites(l) \/ GotError(l))
  /\ WF_vars(part = "reload" /\ \E l \in loads : Retry(l))
  /\ WF_aVars(part = "alarms" /\ (A!SomeValue \/ A!Tick))
  /\ WF_aVars(part = "alarms" /\ \E i \in 1 .. DirCalls : A!DirResult(i))

-----------------------------------------------------------------------------
(* Once the connection to the broker stays up the sites are loaded for     *)
(* good, and the caller of a reload that was begun gets an answer          *)
(* (SitesReload).                                                          *)
ReloadEnds == part = "reload" => LoadsEnd

(* The cached value is the last one the site had, however gets, changes    *)
(* and mounts are interleaved (ValueCache).                                *)
CacheCurrent == V!CacheCurrent

(* Synced and signalled entries of a site are in the one directory its     *)
(* node reads (SitesTree), and the files a request chooses from it hold    *)
(* all that is asked for (GetLog).                                         *)
LogsFound ==
  /\ T!TypeOK /\ T!OneHome
  /\ G!TypeOK /\ G!ChosenSuffice /\ G!AlarmLogRebuilds

(* What a device was told is stored is stored, once, and in the order of   *)
(* time (PushLog).                                                         *)
PushedOnce == P!TypeOK /\ P!AckedStored /\ P!NoDuplicates /\ P!Chronological

(* What the size limit takes from a directory is older than all it leaves  *)
(* there, and it never takes the only file of a directory (Sanitizer).     *)
OldestRemoved == Z!OldestRemoved /\ []Z!TypeOK

(* The alarm table names every alarm once, exactly those that the last     *)
(* values set; the virtual alarm site-offline exactly while the site is    *)
(* offline; and none as stale that was seen since (SiteAlarms).            *)
AlarmsTrue == A!TypeOK /\ A!AlarmsMatch /\ A!OfflineAlarm /\ A!FreshNotStale

(* A site that stays silent is found offline, one that stays up online,    *)
(* whatever late answers and values are still to come (SiteAlarms).        *)
StatusSettles == part = "alarms" => A!StatusSettles
=============================================================================
