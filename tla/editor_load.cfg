\* A read of a file that fails after its first sector.
CONSTANTS
  WIDTH = 4
  HEIGHT = 4
  Chars = {" ", "a", "#", "f", "g"}
  BLANK = " "
  NL = "nl"
  Colours = {"black", "white", "blue", "cyan"}
  BLACK = "black"
  WHITE = "white"
  BLUE = "blue"
  CYAN = "cyan"
  Border = "#"
  TEXT_TOP = 1
  TEXT_BOT = 2
  BUF_MAX = 4
  TAB_W = 2
  CMD_MAX = 1
  FS_MAX_NAME = 2
  TAB = "tab"
  Typed = {"a"}
  NameKeys = {"f", "g"}
  Contents <- MCTwoSectors
  Missing = Missing
  TooBig = TooBig
  Damaged = Damaged
  Field <- MCField
  LATE_READ_FAULTS = TRUE
SPECIFICATION Spec
PROPERTY
  UntouchedOnFailure
CHECK_DEADLOCK FALSE
