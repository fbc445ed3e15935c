\* One worker that may fail, lose its lease or die, while replication writes and commits.
SPECIFICATION FairMongoSpec
CONSTANTS
  None = None
  Hash <- MCHash
  Rows = {1}
  Values = {"v"}
  Compactors = {1}
  MaxSeen = 1
  QueryLimit = 2
  MaxDocOps = 2
  ClearBatchLimit = 2
  MaxOp = 4
  MaxFailures = 2
INVARIANTS
  MongoTypeOK
  ReadsConsistent
  ChecksumsMatch
  WorkStaysScheduled
PROPERTIES
  StatsConverge
  EventuallyCompacted
CHECK_DEADLOCK FALSE
