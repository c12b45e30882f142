SPECIFICATION Spec
CONSTANTS
  Tasks = {t1, t2, t3}
  Threads = {h1, h2}
  Modulus = 4
  NONE = NONE
SYMMETRY Symmetry
INVARIANTS TypeOK RunningIsInnermost NoneIsOutside UniqueUntilWrap
