SPECIFICATION Spec
CONSTANTS
  Readers = {r1, r2, r3}
  Swapper = Swapper
  NIL = NIL
  InputMax = 2
  MAX_VARS = 2
  Names = {"HOME", "x", "y"}
  Values = {"/", "u"}
  Defaults <- MCDefaults
  Commands <- MCCommands
  Bin = {"ls"}
  Missing = {"/none"}
  Statuses = {256}
  Pids = {1, 2}
  NoPid = NoPid
  TTY_COUNT = 3
  InitPids = {1, 2, 3, 4}
INVARIANT WaitCorrect
PROPERTIES ShellCorrect InitCorrect KeysGetRead PromptReturns
