SPECIFICATION Spec
CONSTANTS
  MAX_PROCESS_CNT = 3
  PAGE_TABLE_ENTRIES = 2
  ProcPages = 4
  Data = {"a"}
  ImagePages = {1, 2}
  Procs = {p1, p2}
  Ends = {1, 2}
  ArgSizes = {0, 1}
  HEAP = 2
  Increments = {1, 2}
  BlockMax = 3
  Tasks = {1, 2}
  KWords = 56
  MaxExecs = 2
  Programs <- MCPrograms
  HZ = 3
  Rates = {2, 3, 5}
  NSEC = 10
  WORD = 50
  CAL_MAX = 4
  TSC_MAX = 30
  LastYear = 2099
  W = 6
  Pow <- MCPow
INVARIANTS HeapCorrect FramesCorrect ArithCorrect
PROPERTIES MmCorrect TimeCorrect
