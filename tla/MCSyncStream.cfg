\* Two buckets of different priority, lines that interrupt each other, a connection that breaks.
SPECIFICATION FairSpec
CONSTANTS
  None = None
  Hash <- MCHash
  Priority <- MCPriority
  Rows = {1}
  Values = {"v"}
  Buckets = {1, 2}
  Compactors = {1}
  MaxSeen = 2
  MoveBatchLimit = 2
  ClearBatchLimit = 2
  MaxOp = 3
  MaxCompactions = 0
  BatchLimit = 1
  ChunkLimit = 1
  RaceAfter = 1
  NotifyLag = TRUE
  MaxDisconnects = 1
  BucketSets <- MCBucketSets
INVARIANTS
  SyncTypeOK
  PositionsAgree
  SkippedIsCurrent
  DownloadsConsistent
PROPERTIES
  CompletesAll
  EventuallySynced
CHECK_DEADLOCK FALSE
