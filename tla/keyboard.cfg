\* The keyboard interrupt against kbd_getc and kbd_flush.
CONSTANTS
  BUF_SIZE = 3
  Key <- MCKeys
  Letter = {30}
  scancodes <- MCScancodes
  scancodes_shift <- MCScancodesShift
  MAX_EVENTS = 3
  MAX_WIRE = 2
SPECIFICATION Spec
INVARIANTS
  KeysAsMeant
PROPERTIES
  ImplementsByteQueue
  KeyWakesReader
\* A reader may wait for a key that nobody presses.
CHECK_DEADLOCK FALSE
