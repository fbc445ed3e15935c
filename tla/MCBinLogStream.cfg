\* Every scenario that ends in a checkpoint, and one in which the job fails for good.
SPECIFICATION FairSpec
CONSTANTS
  Tables = {t1, t2, o1}
  Matched = {t1, t2}
  Keys = {k1, k2}
  Scenarios <- LiveScenarios
  QueueLimit = 3
  StoresResume = TRUE
  None = None
INVARIANTS
  ConvergedCheckpoint
  QueueContinues
PROPERTIES
  EventuallyCheckpointed
CHECK_DEADLOCK FALSE
