\* Two tables of one row each, with a TOASTed column and truncates of one or both, and no empty checkpoints.
SPECIFICATION Spec
CONSTANTS
  Tables = {"t1", "t2"}
  Rows = {1, 2}
  TableOf <- TableEach
  Xs = {1}
  Ts = {1, 2}
  Toast = Toast
  Buckets = {"b1", "b2"}
  EvaluateRow <- OneBucket
  Nothing = Nothing
  SoftDelete = TRUE
  IsToasted = TRUE
  CreateEmptyCheckpoints = FALSE
  MaxWal = 2
  MaxChanges = 1
  MaxCrashes = 1
  MaxLsn = 0
  MaxOp = 0
  MaxBatch = 0
INVARIANTS
  ConvergedCheckpoint
  AccountedFor
  ActiveHasCheckpoint
PROPERTY CheckpointsMoveForward
CHECK_DEADLOCK FALSE
