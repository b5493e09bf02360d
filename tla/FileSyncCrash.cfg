SPECIFICATION Spec
CONSTANTS
  Dirs = {d1, d2}
  Root = root
  SyncType = "HP3"
  Times = {1, 2}
  MaxEvents = 2
  Stamp <- Stamp2
  ChunkSize = 1
  MemLimit = 1
  MaxHorizon = 0
  MaxFaults = 0
  Crashes = TRUE
SYMMETRY Symmetry
INVARIANTS PrefixOfRemote NoHole Recoverable
