\* Boot, programs and their address spaces on a 16-frame machine.
CONSTANTS
  ENTRIES = 4
  PAGE_SIZE = 4
  LOW_END = 4
  USER_BASE = 16
  USER_TOP = 32
  USER_STACK = 28
  KERNEL_END = 5
  E820Maps <- MCMaps
  USER_PROG_MAX = 8
  TCC_FLAT_BASE = 20
  TCC_FLAT_MAX = 6
  FLAT_HEADER = 2
  Images <- MCImages
  ArgSizes = {1, 5}
  MAX_RUNS = 2
SPECIFICATION Spec
INVARIANTS
  FramesAccounted
  NoFrameLeaks
  FramesOwnedOnce
  UserIsolation
  NoStaleData
  ActiveTablesHeld
  KernelReachesFrames
  BreakAboveImage
PROPERTIES
  BreakNeverShrinks
  KernelGetsThere
\* The machine may halt.
CHECK_DEADLOCK FALSE
