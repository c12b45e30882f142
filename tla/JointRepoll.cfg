SPECIFICATION Spec
CONSTANTS
  Outcomes <- MCOutcomes
  Wakers = {w1, w2}
  NONE = NONE
  DropMayPanic = TRUE
  Repoll = TRUE
PROPERTIES
  DeliveredOnce
CHECK_DEADLOCK FALSE
