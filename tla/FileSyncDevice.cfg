SPECIFICATION FairSpec
CONSTANTS
  Dirs = {d1}
  Root = root
  SyncType = "Device"
  Times = {1, 2, 3}
  MaxEvents = 4
  Stamp <- Stamp4
  ChunkSize = 2
  MemLimit = 1
  MaxHorizon = 1
  MaxFaults = 1
  Crashes = FALSE
INVARIANT NoLoss
PROPERTIES CaughtUp Replicates
