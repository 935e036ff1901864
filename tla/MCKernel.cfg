SPECIFICATION KernelSpec
CONSTANTS
  Pid = {1, 2, 3}
  None = None
  Commands = {"run", "kill", "sched", "prio", "nice"}
  InitAlgos = {"RR"}
  Levels = 2
  DefaultQuantum = 2
  MaxQuantum = 2
  Quanta = {2}
  Prios = {1}
  Nices <- NiceArgs
  MaxPrio = 1
  AgingInterval = 1
  MaxAge = 1
  BoostInterval = 1
  MaxBurst = 1
  MaxIo = 1
  MaxGuard = 2
INVARIANTS KernelTypeOK ReadyIffQueued
PROPERTIES LeastPriorityRuns FifoOrder LifecycleSpec
