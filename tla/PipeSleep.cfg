SPECIFICATION Spec
CONSTANTS
  Procs = {1, 2}
  Kinds = {"fifo", "pipe"}
  PIPE_SIZE = 2
  MaxBytes = 3
  DiskFull = TRUE
  MaxIntr = 1
INVARIANTS NoLostWakeup
CHECK_DEADLOCK FALSE
