\* A deploy, two processes, one of which may crash.
SPECIFICATION FairLifecycleSpec
CONSTANTS
  Streams <- MCStreams
  Processes = {p1, p2}
  Clients = {c1}
  LockIds <- MCLockIds
  None = None
  Configs <- MCOneConfig
  LoadedConfigs <- MCApi
  FaultKinds = {"crash"}
  MaxFaults = 1
  MaxData = 1
PROPERTIES
  StoppedIsTerminated
  DeployedIsActivated
CHECK_DEADLOCK FALSE
