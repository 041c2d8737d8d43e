CONSTANTS
  NR_PROCS = 5
  LAST_FEW = 0
  MaxPid = 3
  Sig = {1, 5, 9, 14}
  KernelSig = {}
  SigActs <- NoActs
  WaitKinds = {"any"}
  Masks <- NoMask
  MaxFrames = 0
  Calls = {"FORK", "WAITPID", "PTRACE", "ALARM", "EXEC", "PAUSE"}
SPECIFICATION Spec
INVARIANTS AnsweredOnce
PROPERTIES AlarmsKept
CHECK_DEADLOCK FALSE
