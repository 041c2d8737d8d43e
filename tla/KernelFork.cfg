SPECIFICATION Spec
CONSTANTS
  NR_TASKS = 4
  NR_PROCS = 5
  Sig = {SIGSTKFLT, SIGTRAP}
  SIGSTKFLT = SIGSTKFLT
  SIGTRAP = SIGTRAP
  Slots = {1, 2, 3}
  Talks <- ForkTalks
  MaxPending = 0
  Driver <- ClockDriver
  Calls = {"fork", "xit", "exec", "tick"}
INVARIANTS ImageOwnership RunsInPlace
