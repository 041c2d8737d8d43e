SPECIFICATION Spec
CONSTANTS
  NR_TASKS = 4
  NR_PROCS = 4
  Sig = {SIGSTKFLT, SIGTRAP}
  SIGSTKFLT = SIGSTKFLT
  SIGTRAP = SIGTRAP
  Slots = {1, 2}
  Talks <- SigTalks
  MaxPending = 2
  Driver <- ClockDriver
  Calls = {"kill", "trap", "tasksig", "exec", "fork", "xit"}
INVARIANTS CountsSound SignalsReachMM
