\* Postgres storage: writes during the snapshot are skipped.
SPECIFICATION Spec
CONSTANTS
  Tables = {t1, t2, o1}
  Matched = {t1, t2}
  Keys = {k1, k2}
  Scenarios <- SnapshotOnly
  QueueLimit = 3
  StoresResume = FALSE
  None = None
INVARIANTS
  ConvergedCheckpoint
CHECK_DEADLOCK FALSE
