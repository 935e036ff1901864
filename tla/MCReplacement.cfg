SPECIFICATION ReplacementSpec
CONSTANTS
  Pid = {p1, p2}
  None = None
  Zero = Zero
  Vpn = {0, 1}
  ReadOnly = {}
  HeapStart = 2
  HeapPages = 0
  Frame = {0, 1}
  Slot = {0,1}
  TlbSize = 1
  Policies = {"fifo", "lru", "clock"}
INVARIANTS PolicyTracks
PROPERTY RetriesMakeProgress
CHECK_DEADLOCK FALSE
SYMMETRY PidSymmetry
VIEW WithoutContents
