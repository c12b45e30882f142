SPECIFICATION Spec
CONSTANTS
  Boxes = {b1, b2}
  TaskWakers = {t1}
  OwnerWakers = {j1}
  Owner = owner
  CancelHandles = {c1}
  NONE = NONE
  Ordered = TRUE
  DropMayPanic = TRUE
INVARIANTS TypeOK NothingLeft NoCancelStuck
PROPERTIES ImplementsContract CancelledForAReason CancelReachesOwner DropEndsTask
CHECK_DEADLOCK FALSE
