SPECIFICATION FairSpec
CONSTANTS
  Pid = {1, 2}
  None = None
  Commands = {"run", "kill", "quantum", "start", "stop"}
  InitAlgos = {"RR", "PRIO"}
  Levels = 1
  DefaultQuantum = 2
  MaxQuantum = 2
  Quanta = {0, 2}
  Prios = {0, 2}
  Nices <- NiceArgs
  MaxPrio = 2
  AgingInterval = 2
  MaxAge = 5
  BoostInterval = 0
  MaxBurst = 2
  MaxIo = 2
  MaxGuard = 2
INVARIANTS QuantumEnforced
PROPERTIES NoStarvation IoEnds
