\* An idle source, and a restart at the end of its snapshot.
SPECIFICATION Spec
CONSTANTS
  Tables = {"t1"}
  Rows = {1, 2}
  TableOf <- OneTable
  Xs = {1}
  Ts = {1}
  Toast = Toast
  Buckets = {"b1", "b2"}
  EvaluateRow <- OneBucket
  Nothing = Nothing
  SoftDelete = TRUE
  IsToasted = FALSE
  CreateEmptyCheckpoints = TRUE
  MaxWal = 0
  MaxChanges = 2
  MaxCrashes = 1
  MaxLsn = 0
  MaxOp = 0
  MaxBatch = 0
INVARIANTS
  ConsistentCheckpoint
CHECK_DEADLOCK FALSE
