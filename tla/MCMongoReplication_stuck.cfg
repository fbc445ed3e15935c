\* A collection is dropped before a restart, when its copy is not complete.
SPECIFICATION FairSpec
CONSTANTS
  Tables = {t1, t2}
  Docs = {1, 2}
  Configs = {c1}
  ConfigOf <- MCOneConfig
  Scenarios <- MCStuck
  None = None
PROPERTIES
  EventuallyCheckpointed
