SPECIFICATION Spec
CONSTANTS
  Procs = {1, 2, 3}
  NR_LOCKS = 2
  MaxPos = 2
  Mixed = FALSE
INVARIANTS TableSound WaitersBlocked
PROPERTIES UnlockExact
