SPECIFICATION Spec
CONSTANTS
  Threads = {h1, h2}
  Custom <- MCCustom
  MaxCompats = 3
  NONE = NONE
  NotFound = NotFound
  MultipleGlobals = MultipleGlobals
SYMMETRY Symmetry
INVARIANTS TypeOK OneForAll OneForAReason LocalFirst
