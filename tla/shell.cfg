\* The shell on two small terminals, with programs that draw.
CONSTANTS
  WIDTH = 3
  HEIGHT = 2
  Chars = {" ", ">", "r", "s", "c", "h"}
  BLANK = " "
  NL = "nl"
  Colours = {"black", "white", "cyan"}
  BLACK = "black"
  WHITE = "white"
  MAX_TERMS = 2
  TERM_BUF_SIZE = 3
  MAX_ARGS = 2
  PROMPT <- MCPrompt
  GT = ">"
  commands <- MCCommands
  Messages <- MCMessages
  Texts <- MCTexts
  Typed = {" ", "r", "s", "c", "h"}
  TICKS = 8
  pit_hz = 1
  SECOND = 2
  Delays = {0, 5}
  MAX_KEYS = 5
SPECIFICATION Spec
INVARIANTS
  TypeOK
  LineOnScreen
  ScreenShowsTerminal
PROPERTIES
  RowsKeepStep
  OthersUntouched
  ShellComesBack
\* The machine stops for good after halt, exit or a fault.
CHECK_DEADLOCK FALSE
