\* A collection is dropped while it is copied.
SPECIFICATION Spec
CONSTANTS
  Tables = {t1, t2}
  Docs = {1, 2}
  Configs = {c1}
  ConfigOf <- MCOneConfig
  Scenarios <- MCDropped
  None = None
INVARIANTS
  CheckpointConsistent
