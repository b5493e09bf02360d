SPECIFICATION MCSpec
CONSTANTS
  Paths <- MCPaths
  Contents = {"old", "new", "own"}
  FilesNode = "_files"
  Skipped = {"_template"}
  Repos <- MCRepos
  Locals <- MCLocals
  MaxTars = 2
  MaxFaults = 2
  LabUsers = {"a", "b"}
  LabPasswords = {1, 2}
  LabFaults = 3
  MqttTopics = {"a", "b"}
  MqttChanges = 2
  MqttFaults = 2
  MqttRoom = 2
  AgentRequests = {"q", "r"}
  AgentCalls <- Commands
  PtyRoom = 2
  ShellBytes = 3
  ShellChunk = 2
INVARIANTS SitesAsInGit ArchiveMatches WalkFindsSites GrantsAsAcked StepsInTurn CallsAnswered
PROPERTIES FilesKept CaughtUp PublishedInOrder StatusFollows
CHECK_DEADLOCK FALSE
