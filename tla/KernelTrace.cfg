SPECIFICATION Spec
CONSTANTS
  NR_TASKS = 4
  NR_PROCS = 4
  Sig = {SIGSTKFLT, SIGTRAP}
  SIGSTKFLT = SIGSTKFLT
  SIGTRAP = SIGTRAP
  Slots = {1, 2}
  Talks <- ForkTalks
  MaxPending = 0
  Driver <- ClockDriver
  Calls = {"fork", "trace"}
INVARIANTS ReadyQueues
