\* The queue drains while Zongji is still stopping.
SPECIFICATION Spec
CONSTANTS
  Tables = {t1, t2, o1}
  Matched = {t1, t2}
  Keys = {k1, k2}
  Scenarios <- LongOnly
  QueueLimit = 3
  StoresResume = TRUE
  None = None
INVARIANTS
  NeverStandsStill
CHECK_DEADLOCK FALSE
