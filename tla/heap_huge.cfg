\* Requests so large that malloc's sums wrap.
CONSTANTS
  WORD = 64
  MIN_ALIGN = 2
  BLOCK_HDR = 2
  PAGE = 8
  Breaks = {0, 8}
  heap_start = 2
  USER_STACK = 20
  USER_TOP = 21
  Sizes = {3, 59}
  Counts = {2}
  Increments = {3}
SPECIFICATION Spec
INVARIANTS
  BlocksCarved
