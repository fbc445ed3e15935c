\* One row; truncating its table twice is truncating a further, empty table.
SPECIFICATION BatchSpec
CONSTANTS
  Tables = {"t1"}
  Rows = {1}
  TableOf <- MCTableOf
  Xs = {1, 2}
  Ts = {1}
  Toast = Toast
  Buckets = {"b1", "b2"}
  EvaluateRow <- MCEvaluateRow
  Nothing = Nothing
  SoftDelete = TRUE
  MaxLsn = 2
  MaxOp = 2
  MaxBatch = 1
INVARIANTS
  AccountedFor
  ActiveHasCheckpoint
PROPERTY CheckpointsMoveForward
CHECK_DEADLOCK FALSE
