\* Two workers: the second one takes over a lease that has expired while the first goes on.
SPECIFICATION MongoSpec
CONSTANTS
  None = None
  Hash <- MCHash
  Rows = {1}
  Values = {"v"}
  Compactors = {1, 2}
  MaxSeen = 1
  QueryLimit = 4
  MaxDocOps = 2
  ClearBatchLimit = 2
  MaxOp = 3
  MaxFailures = 1
INVARIANTS
  ReadsConsistent
CHECK_DEADLOCK FALSE
