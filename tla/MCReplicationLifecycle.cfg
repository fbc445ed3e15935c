\* A deploy or a rolling restart with a new config, two processes and any one fault.
SPECIFICATION LifecycleSpec
CONSTANTS
  Streams <- MCStreams
  Processes = {p1, p2}
  Clients = {c1}
  LockIds <- MCLockIds
  None = None
  Configs <- MCConfigs
  LoadedConfigs <- MCRolling
  FaultKinds = {"crash", "refresh", "slot", "fail"}
  MaxFaults = 1
  MaxData = 1
INVARIANTS
  OneRunnerPerStream
  KeepsServing
  TerminatedStaysEmpty
CHECK_DEADLOCK FALSE
