\* Two rows and two transactions of up to two changes, during the snapshot or after it.
SPECIFICATION FairSpec
CONSTANTS
  Tables = {"t1"}
  Rows = {1, 2}
  TableOf <- OneTable
  Xs = {1}
  Ts = {1}
  Toast = Toast
  Buckets = {"b1", "b2"}
  EvaluateRow <- OneBucket
  Nothing = Nothing
  SoftDelete = TRUE
  IsToasted = FALSE
  CreateEmptyCheckpoints = TRUE
  MaxWal = 2
  MaxChanges = 2
  MaxCrashes = 0
  MaxLsn = 0
  MaxOp = 0
  MaxBatch = 0
INVARIANTS
  WalTypeOK
PROPERTIES
  ImplementsView
  CatchesUp
CHECK_DEADLOCK FALSE
