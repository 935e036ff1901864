SPECIFICATION FairSpec
CONSTANTS
  Pid = {1, 2}
  None = None
  Commands = {"run"}
  InitAlgos = {"MLFQ"}
  Levels = 2
  DefaultQuantum = 2
  MaxQuantum = 2
  Quanta = {2}
  Prios = {0}
  Nices <- NiceArgs
  MaxPrio = 0
  AgingInterval = 1
  MaxAge = 0
  BoostInterval = 3
  MaxBurst = 2
  MaxIo = 1
  MaxGuard = 2
PROPERTIES NoStarvation
