\* The editor on a small screen.
CONSTANTS
  WIDTH = 4
  HEIGHT = 4
  Chars = {" ", "a", "#", "f"}
  BLANK = " "
  NL = "nl"
  Colours = {"black", "white", "blue", "cyan"}
  BLACK = "black"
  WHITE = "white"
  BLUE = "blue"
  CYAN = "cyan"
  Border = "#"
  TEXT_TOP = 1
  TEXT_BOT = 2
  BUF_MAX = 4
  TAB_W = 2
  CMD_MAX = 1
  FS_MAX_NAME = 2
  TAB = "tab"
  Typed = {"a"}
  NameKeys = {"f"}
  Contents <- MCContents
  Missing = Missing
  TooBig = TooBig
  Damaged = Damaged
  Field <- MCField
  LATE_READ_FAULTS = FALSE
SPECIFICATION Spec
INVARIANTS
  TerminalExact
  CaretOnCharacter
  CleanIsSaved
\* The editor ends.
CHECK_DEADLOCK FALSE
