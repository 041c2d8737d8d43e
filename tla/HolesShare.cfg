SPECIFICATION Spec
CONSTANTS
  NR_HOLES = 6
  NR_PROCS = 4
  Chunks <- TwoChunks
  Sizes = {1, 2}
  Texts = {0, 1}
INVARIANTS TextKept
CHECK_DEADLOCK FALSE
