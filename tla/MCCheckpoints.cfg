\* Two requests, whose copies may be late, and one fault, activation or piece of unpublished WAL.
SPECIFICATION FairSpec
CONSTANTS
  Subscribers = {s1}
  Batches = {1, 2}
  Empty = Empty
  Requery = Requery
  Done = Done
  None = None
  Supplied = TRUE
  CreateEmptyCheckpoints = TRUE
  MaxRequests = 2
  MaxNotifications = 1
  MaxFaults = 1
INVARIANTS
  AckedIsReplicated
PROPERTIES
  SentMovesForward
  EventuallyCurrent
  Acknowledged
CHECK_DEADLOCK FALSE
