SPECIFICATION Spec
CONSTANTS
  PageWords = 6
  HeapStart = 6
  HeapPages = 4
  Sizes = {0, 1, 2, 5}
  MaxInsns = 3
  Modulus = 8
  Junk = Junk
  NoFile = NoFile
  MaxProcs = 2
  MaxEvents = 16
  Files <- SmallFiles
  MaxPid = 4
  MaxTick = 5
INVARIANTS LiveDisjoint PayloadsUntouched Coalesced StatsExact LiveListed TablesAgree ResourcesOwned TicksAccounted TraceReplays NoInternalExit
CHECK_DEADLOCK FALSE
