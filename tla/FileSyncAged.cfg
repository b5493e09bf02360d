SPECIFICATION Spec
CONSTANTS
  Dirs = {d1}
  Root = root
  SyncType = "Device"
  Times = {1, 3}
  MaxEvents = 4
  Stamp <- Stamp4
  ChunkSize = 2
  MemLimit = 1
  MaxHorizon = 2
  MaxFaults = 0
  Crashes = FALSE
INVARIANT NoLossByAge
