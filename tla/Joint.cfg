SPECIFICATION Spec
CONSTANTS
  Outcomes <- MCOutcomes
  Wakers = {w1, w2}
  NONE = NONE
  DropMayPanic = TRUE
  Repoll = FALSE
INVARIANTS
  TypeOK
  NoPanic
  NoLostOutcome
  NoLostWakeup
  NothingRetained
PROPERTIES
  NoLockAfterDrop
  WaitingResolves
  ImplementsContract
CHECK_DEADLOCK FALSE
