SPECIFICATION IpcSpec
CONSTANTS
  Pid = {p1, p2, p3}
  QueueId = {q1}
  None = None
  MaxQueues = 1
  Capacity = 1
  WaitqCapacity = 3
  MaxMsgs = 3
PROPERTIES HandoffWakes
CHECK_DEADLOCK FALSE
