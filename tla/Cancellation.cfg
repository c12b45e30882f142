SPECIFICATION Spec
CONSTANTS
  Boxes = {b1, b2, b3}
  Wakers = {w1, w2}
  Cancellers = {c1, c2}
  NONE = NONE
  Ordered = TRUE
INVARIANTS TypeOK BoxesOwnedOnce TwoBoxes NoLostCancel
PROPERTIES ContractSafe CancelEndsTask CancelIsLockFree
CHECK_DEADLOCK FALSE
