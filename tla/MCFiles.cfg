SPECIFICATION Spec
CONSTANTS
  MAX_FILENAME_LEN = 6
  VFS_MAX_SEGMENTS = 7
  MAX_MOUNTS = 3
  Char = {"/", ".", "a"}
  MaxArg = 3
  BootMounts <- MCBootMounts
  Task = {t1, t2}
  MAX_FILE_CNT = 4
  RLIMIT_NOFILE = 2
  FILE_COUNTER_MOD = 8
  NIL = NIL
  MAX_PROCESS_CNT = 2
  COUNTER_MOD = 4
  MAX_GENERATION = 1
  PROC_NOFILE = 1
  NameLen = 2
  PathLen = 1
  StatLen = 3
  CtxtLen = 3
  ProcMaxCount = 4
  TTY_COUNT = 2
  MAX_DEVICES = 6
  Bins <- MCBins
  BinSize = 5
  DirentSize = 2
  FsMaxCount = 16
VIEW View
INVARIANT FilesCorrect
PROPERTIES PathsCorrect ProcCorrect FsCorrect
