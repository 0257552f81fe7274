\* The library's computations, compared with what they are meant to be.
CONSTANTS
  W = 4
  BYTE = 3
  Widths = {0, 4}
  Keys = {0, 1, 2}
  MAX_ITEMS = 4
  MEMORY = 6
  Lengths = {1, 2, 3, 5}
  STACK_TOP = 64
  Days <- MCDays
  Seconds <- MCSeconds
  Capacities = {0, 1, 2, 3, 4}
SPECIFICATION LibSpec
INVARIANTS
  NumbersExact
  MemoryExact
