SPECIFICATION SyncSpec
CONSTANTS
  Pid = {p1, p2, p3, p4}
  SemId = {s1, s2, s3}
  None = None
  MaxSems = 2
  MaxWaiters = 3
  MaxSurplus = 1
SYMMETRY PidAndIdSymmetry
INVARIANTS NoIdleToken TokensConserved MutualExclusion SleepersRegistered WaitersInPlace
PROPERTIES NoBarging
CHECK_DEADLOCK FALSE
