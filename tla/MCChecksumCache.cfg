\* Two calls at a time, for one or both of two buckets, of which one is compacted.
SPECIFICATION CacheSpec
CONSTANTS
  None = None
  Hash <- MCHash
  Rows = {1}
  Values = {"v"}
  Buckets = {"b", "c"}
  Compactors = {1}
  MaxSeen = 1
  MoveBatchLimit = 2
  ClearBatchLimit = 2
  MaxOp = 2
  MaxCompactions = 1
  Requests = {r1, r2}
  RequestSets <- MCRequestSets
  MaxCalls = 3
  MaxLosses = 1
SYMMETRY MCSymmetry
INVARIANTS
  ChecksumsExact
  NoLostWaiter
CHECK_DEADLOCK FALSE
