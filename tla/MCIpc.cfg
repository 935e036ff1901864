SPECIFICATION IpcSpec
CONSTANTS
  Pid = {p1, p2, p3, p4}
  QueueId = {q1, q2}
  None = None
  MaxQueues = 1
  Capacity = 2
  WaitqCapacity = 2
  MaxMsgs = 5
SYMMETRY PidAndIdSymmetry
INVARIANTS NoMessageBesideWaiter ExactlyOnce WaitersInPlace
PROPERTIES ImplementsChannel
CHECK_DEADLOCK FALSE
