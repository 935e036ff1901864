SPECIFICATION ObjectsSpec
CONSTANTS
  p1 = p1
  p2 = p2
  p3 = p3
  Pid = {p1, p2, p3}
  None = None
  SemId = {s1}
  MaxSems = 1
  MaxWaiters = 1
  MaxSurplus = 1
  QueueId = {q1, q2}
  MaxQueues = 1
  Capacity = 1
  WaitqCapacity = 3
  MaxMsgs = 3
  Mixes <- ThreeOrTwo
INVARIANTS SleepersRegistered WaitersInPlace NoLostSpace
PROPERTIES GrantHonoured
CHECK_DEADLOCK FALSE
