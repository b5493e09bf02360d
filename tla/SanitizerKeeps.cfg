SPECIFICATION Spec
CONSTANTS
  Dirs = {"a", "b"}
  Limit = 4
  MaxTime = 4
  MaxSize = 3
PROPERTY SnapshotLeft
CHECK_DEADLOCK FALSE
