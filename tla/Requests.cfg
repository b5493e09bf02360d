SPECIFICATION MCSpec
CONSTANTS
  Requests = {r1, r2}
  Nobody = Nobody
  MaxSessions = 3
  MaxErrors = 2
  ValueSites = {"a", "b"}
  SilentSites = {}
  ValueBrokers = {{"a", "b"}}
  ValueChanges = 2
  ForwardedGets = 1
  ValueMounts = 1
  LogPaths = {"a", "b"}
  LogTime = 3
  LogEntries = 3
  TreePaths <- FourNodes
  TreeNames <- BeginsAnother
  TreeProperties <- SiteAndValue
  TreeSlaves = 3
  DeviceLog <- SixEntries
  PushFaults = 4
  CacheDirs = {"a", "b"}
  SizeLimit = 3
  SizeTime = 3
  FileSize = 2
  SiteProperties <- TwoProperties
  AlarmsOfProperty <- ThreeAlarms
  SeverityOf <- Severities
  OfflineKey = "offline"
  DirCalls = 2
INVARIANTS SubscribedNow TreeForRequests CacheCurrent LogsFound PushedOnce AlarmsTrue
PROPERTIES ReloadEnds StatusSettles OldestRemoved
CHECK_DEADLOCK FALSE
