\* A compaction while a line is built, downloaded in one query, and completed.
SPECIFICATION FairSpec
CONSTANTS
  None = None
  Hash <- MCHash
  Priority <- MCPriority
  Rows = {1, 2}
  Values = {"v"}
  Buckets = {1}
  Compactors = {1}
  MaxSeen = 2
  MoveBatchLimit = 2
  ClearBatchLimit = 2
  MaxOp = 3
  MaxCompactions = 1
  BatchLimit = 8
  ChunkLimit = 8
  RaceAfter = 99
  NotifyLag = FALSE
  MaxDisconnects = 1
  BucketSets <- MCOneBucket
PROPERTY PublishesConsistent
CHECK_DEADLOCK FALSE
