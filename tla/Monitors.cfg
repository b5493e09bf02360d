SPECIFICATION MCSpec
CONSTANTS
  PlcSwitches = {"ompag"}
  PlcQueue = 2
  PlcAsked = 2
  PlcIds = 3
  ScreenPaths = {"status", "u"}
  ScreenAsked = 3
  ScreenIds = 2
  ScreenChanges = 2
  MapSites = {"a", "b"}
  MapFaults = 2
  MapMounts = 3
  MapWire = 3
  ShortWrap = 4
  StampGrain = 3
  LastTime = 14
  BfsSwitches <- MCSwitches
  BfsLimit = 3
  BfsWrites = 2
  BfsFaults = 1
  LubMin = 1
  LubMax = 3
  LubVoltage = 2
  LubLow = 1
  LubHigh = 3
  TreeTests = {"t1"}
  TreePeriodic = {"t1"}
  TreeFaults = 1
  TreeReloads = 1
  TreeRuns = 1
  TreePrinted <- MCPrinted
  BotSender <- MCSender
  BotMessages = {2, 3, 4}
  BotFitting = {"p", "q"}
  BotRestarts = {2}
  BotCalls = 2
  BotFaults = 2
INVARIANTS DevicesChecked ScopesTrue ViewsTrue
PROPERTIES DevicesTrue
CHECK_DEADLOCK FALSE
