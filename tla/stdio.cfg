\* Streams over the kernel's handles.
CONSTANTS
  Name = {"f"}
  Missing = Missing
  Byte = {"a", "n"}
  NLBYTE = "n"
  Put = {"a"}
  ZERO = "n"
  FD_BUF_SIZE = 2
  WORD = 8
  Fd = {3, 4}
  Slot = {p, q}
  Contents <- MCContents
  Sizes = {1, 3}
  Offsets <- MCOffsets
  MAX_POS = 2
SYMMETRY MCSymmetry
SPECIFICATION Spec
INVARIANTS
  HandlesOwned
  EofTruthful
  NoSilentLoss
