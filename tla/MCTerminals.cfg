SPECIFICATION Spec
CONSTANTS
  Keys = {"LShift", "LCtrl", "LAlt", "RAlt", "A", "F1", "Pad8", "Up"}
  MaxHeld = 3
  MaxPending = 2
  TTY_COUNT = 2
  TTY_INPUT_BUF_SIZE = 2
  TTY_OUTPUT_BUF_SIZE = 2
  CounterMod = 4
  MaxTyped = 4
  MaxWritten = 4
  MaxCount = 2
  COLS = 3
  ROWS = 2
  TABW = 2
  PARAMS = 1
  Glyphs = {"x"}
  Digits = {"1"}
  Final = {"[", "m", "H", "J", "K"}
  ParamBound = 1
  LINE_MAX = 3
  HISTORY_MAX = 2
  Chars = {"[", "A", "B"}
  EnteredMax = 3
  MAX_VARS = 2
  ARG_MAX = 7
  MAX_ARGS = 2
  MAX_VAR_NAME = 3
  MAX_VAR_VALUE = 4
  Letters = {"a"}
  NameDigits = {"1"}
  Special <- MCSpecial
  Value <- MCValue
  LineBound = 5
  Sizes = {1, 4}
  Items <- MCItems
  PTR_DIGITS = 4
  VALUE_MAX = 200
  BEYOND = 2
VIEW View
INVARIANTS KeyboardCorrect TtyCorrect LineCorrect WordsCorrect
PROPERTIES ConsoleCorrect FormatCorrect
