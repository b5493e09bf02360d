SPECIFICATION MCSpec
CONSTANTS
  MaxEvents = 6
  Stamp <- Stamp6
  Limit = 4
  SnapSize = 1
  MaxPerFile = 2
  MaxHorizon = 2
  MaxFaults = 1
  MaxNow = 4
  Chunk = 3
  TrimAge = 0
  CheckFaults = 1
INVARIANTS BatchesWhole FilesTrue
PROPERTIES LegacyCaughtUp ChecksCaughtUp TrimSafe
CHECK_DEADLOCK FALSE
