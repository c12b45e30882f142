SPECIFICATION Spec
CONSTANTS
  Outcomes <- MCOutcomes
  Wakers = {w1}
  NONE = NONE
  DropMayPanic = FALSE
  Repoll = TRUE
INVARIANTS
  NoUnreachable
CHECK_DEADLOCK FALSE
