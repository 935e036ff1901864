SPECIFICATION PagingSpec
CONSTANTS
  Pid = {p1, p2}
  None = None
  Zero = Zero
  Vpn = {0, 1, 2}
  ReadOnly = {0}
  HeapStart = 2
  HeapPages = 1
  Frame = {0, 1}
  Slot = {0}
  TlbSize = 1
  Policies = {"fifo", "lru"}
SYMMETRY PidSymmetry
VIEW WithoutExitCode
INVARIANTS PagesOwnTheirStore TlbIsOwn FramesHoldOwnData CleanPagesTracked NothingLeaks
PROPERTIES WritesSurvive
CHECK_DEADLOCK FALSE
