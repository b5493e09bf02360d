SPECIFICATION FairSpec
CONSTANTS
  Clients = {c1, c2}
  Ids = {1, 2}
  MaxTyped = 1
  MaxWritten = 2
  MaxFaults = 1
INVARIANT TunnelTrue
PROPERTY TunnelEnds
CHECK_DEADLOCK FALSE
