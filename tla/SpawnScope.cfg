SPECIFICATION Spec
CONSTANTS
  Addresses = {a1, a2, a3}
  NONE = NONE
  Nested = TRUE
  MaxFrames = 5
INVARIANTS TypeOK InnermostSpawns EnteredIsAlive DropsQuietly
