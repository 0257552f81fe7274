\* The drawing program on a small canvas.
CONSTANTS
  WIDTH = 2
  HEIGHT = 3
  Chars = {" ", "*", "d", "m", "k", "b", "r"}
  BLANK = " "
  NL = "nl"
  Colours = {"black", "white", "blue", "red"}
  BLACK = "black"
  WHITE = "white"
  BLUE = "blue"
  Palette <- MCPalette
  fgcol0 = 1
  Star = "*"
  DRAW = "d"
  MOVE = "m"
  Swatch <- MCSwatch
  NoFile = NoFile
  Foreign = Foreign
SPECIFICATION Spec
INVARIANT
  PictureShown
\* The program ends.
CHECK_DEADLOCK FALSE
