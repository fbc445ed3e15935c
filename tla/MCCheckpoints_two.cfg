\* Two subscribers of one watcher, and one request.
SPECIFICATION FairSpec
CONSTANTS
  Subscribers = {s1, s2}
  Batches = {1, 2}
  Empty = Empty
  Requery = Requery
  Done = Done
  None = None
  Supplied = TRUE
  CreateEmptyCheckpoints = TRUE
  MaxRequests = 1
  MaxNotifications = 1
  MaxFaults = 1
INVARIANTS
  CheckpointTypeOK
  AckedIsReplicated
PROPERTIES
  SentMovesForward
  EventuallyCurrent
  Acknowledged
CHECK_DEADLOCK FALSE
