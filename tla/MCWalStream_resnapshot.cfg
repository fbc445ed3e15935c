\* One row whose value decides its bucket, without restarts.
SPECIFICATION Spec
CONSTANTS
  Tables = {"t1"}
  Rows = {1}
  TableOf <- OneTable
  Xs = {1, 2}
  Ts = {1}
  Toast = Toast
  Buckets = {"b1", "b2"}
  EvaluateRow <- BucketEach
  Nothing = Nothing
  SoftDelete = TRUE
  IsToasted = FALSE
  CreateEmptyCheckpoints = TRUE
  MaxWal = 3
  MaxChanges = 1
  MaxCrashes = 0
  MaxLsn = 0
  MaxOp = 0
  MaxBatch = 0
INVARIANTS
  ConsistentCheckpoint
CHECK_DEADLOCK FALSE
