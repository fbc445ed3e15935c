\* A config is added to the stream of another.
SPECIFICATION Spec
CONSTANTS
  Tables = {t1, t2}
  Docs = {1, 2}
  Configs = {c1, c2}
  ConfigOf <- MCTwoConfigs
  Scenarios <- MCShared
  None = None
INVARIANTS
  CheckpointConsistent
