\* A table is dropped that was never written to.
SPECIFICATION Spec
CONSTANTS
  Tables = {t1, t2, o1}
  Matched = {t1, t2}
  Keys = {k1, k2}
  Scenarios <- UnusedOnly
  QueueLimit = 3
  StoresResume = TRUE
  None = None
INVARIANTS
  RelationBeforeUse
CHECK_DEADLOCK FALSE
