\* A data query that takes more than one request.
SPECIFICATION Spec
CONSTANTS
  None = None
  Hash <- MCHash
  Priority <- MCPriority
  Rows = {1}
  Values = {"v"}
  Buckets = {1}
  Compactors = {1}
  MaxSeen = 2
  MoveBatchLimit = 2
  ClearBatchLimit = 2
  MaxOp = 4
  MaxCompactions = 1
  BatchLimit = 8
  ChunkLimit = 1
  RaceAfter = 99
  NotifyLag = FALSE
  MaxDisconnects = 0
  BucketSets <- MCOneBucket
PROPERTIES
  PublishesConsistent
CHECK_DEADLOCK FALSE
