SPECIFICATION SyncSpec
CONSTANTS
  Pid = {p1, p2, p3}
  SemId = {s1}
  None = None
  MaxSems = 1
  MaxWaiters = 3
  MaxSurplus = 1
PROPERTIES HandoffCompletes
CHECK_DEADLOCK FALSE
