SPECIFICATION Spec
CONSTANTS
  Boxes = {b1, b2}
  Wakers = {w1}
  Cancellers = {c1}
  NONE = NONE
  Ordered = FALSE
INVARIANT WakesLiveWaker
CHECK_DEADLOCK FALSE
