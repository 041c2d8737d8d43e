CONSTANTS
  NR_PROCS = 4
  LAST_FEW = 0
  MaxPid = 3
  Sig = {1, 9, 14}
  KernelSig = {}
  SigActs <- NoActs
  WaitKinds = {}
  Masks <- NoMask
  MaxFrames = 1
  Calls = {"FORK", "ALARM", "SIGACTION"}
SPECIFICATION Spec
INVARIANTS AlarmsKnown
CHECK_DEADLOCK FALSE
