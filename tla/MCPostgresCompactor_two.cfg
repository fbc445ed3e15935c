\* Two compactors on one bucket.
SPECIFICATION CompactSpec
CONSTANTS
  None = None
  Hash <- MCHash
  Rows = {1, 2}
  Values = {"v"}
  Buckets = {"b"}
  Compactors = {1, 2}
  MaxSeen = 2
  MoveBatchLimit = 2
  ClearBatchLimit = 5
  MaxOp = 4
  MaxCompactions = 2
INVARIANTS
  ClientsConverge
CHECK_DEADLOCK FALSE
