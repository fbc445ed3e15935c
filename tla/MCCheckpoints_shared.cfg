SPECIFICATION FairSpec
CONSTANTS
  Subscribers = {s1, s2}
  Batches = {1}
  Empty = Empty
  Requery = Requery
  Done = Done
  None = None
  Supplied = TRUE
  CreateEmptyCheckpoints = FALSE
  MaxRequests = 1
  MaxNotifications = 1
  MaxFaults = 1
PROPERTIES
  Acknowledged
CHECK_DEADLOCK FALSE
