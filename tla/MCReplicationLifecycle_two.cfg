\* Two deploys at the same time.
SPECIFICATION LifecycleSpec
CONSTANTS
  Streams <- MCStreams3
  Processes = {p1, p2}
  Clients = {c1, c2}
  LockIds <- MCLockIds
  None = None
  Configs <- MCOneConfig
  LoadedConfigs <- MCApi
  FaultKinds = {}
  MaxFaults = 0
  MaxData = 1
INVARIANTS
  OneServing
CHECK_DEADLOCK FALSE
