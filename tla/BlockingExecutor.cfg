SPECIFICATION Spec
CONSTANTS
  Tasks = {t1, t2}
  MaxThreads = 3
  NONE = NONE
  DropMayPanic = TRUE
INVARIANTS TypeOK NoOrphan
PROPERTIES ScopeEndsFirst WorkersEnd QueuedRuns
CHECK_DEADLOCK FALSE
