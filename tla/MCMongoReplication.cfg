\* A first snapshot, a collection that comes back, markers of others and restarts.
SPECIFICATION FairSpec
CONSTANTS
  Tables = {t1, t2}
  Docs = {1, 2}
  Configs = {c1}
  ConfigOf <- MCOneConfig
  Scenarios <- MCScenarios
  None = None
INVARIANTS
  CheckpointConsistent
  ResumeLosesNothing
PROPERTIES
  EventuallyCheckpointed
