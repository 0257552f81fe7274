\* malloc, calloc, realloc, strdup and free until the break meets the stack.
CONSTANTS
  WORD = 64
  MIN_ALIGN = 2
  BLOCK_HDR = 2
  PAGE = 8
  Breaks = {0, 8}
  heap_start = 2
  USER_STACK = 20
  USER_TOP = 21
  Sizes = {0, 3, 10}
  Counts = {2, 7}
  Increments = {3}
SPECIFICATION Spec
INVARIANTS
  BytesOwnedOnce
  ListMerged
  RoomEnough
PROPERTIES
  MallocReturns
