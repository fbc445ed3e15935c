SPECIFICATION Spec
CONSTANTS
  Subscribers = {s1}
  Batches = {1, 2}
  Empty = Empty
  Requery = Requery
  Done = Done
  None = None
  Supplied = FALSE
  CreateEmptyCheckpoints = TRUE
  MaxRequests = 2
  MaxNotifications = 1
  MaxFaults = 1
INVARIANTS
  AckedIsReplicated
CHECK_DEADLOCK FALSE
