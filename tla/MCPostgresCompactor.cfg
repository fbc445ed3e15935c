\* One bucket of two rows, compacted twice in small transactions, with memory for one row.
SPECIFICATION CompactSpec
CONSTANTS
  None = None
  Hash <- MCHash
  Rows = {1, 2}
  Values = {"v"}
  Buckets = {"b"}
  Compactors = {1}
  MaxSeen = 1
  MoveBatchLimit = 1
  ClearBatchLimit = 2
  MaxOp = 5
  MaxCompactions = 2
INVARIANTS
  ClientsConverge
  ClearsNoPut
  StaleReadsInvalidated
CHECK_DEADLOCK FALSE
