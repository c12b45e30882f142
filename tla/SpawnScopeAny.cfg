SPECIFICATION Spec
CONSTANTS
  Addresses = {a1, a2}
  NONE = NONE
  Nested = FALSE
  MaxFrames = 3
INVARIANT EnteredIsAlive
CHECK_DEADLOCK FALSE
