CONSTANTS
  NR_PROCS = 5
  LAST_FEW = 0
  MaxPid = 5
  Sig = {1, 9}
  KernelSig = {}
  SigActs <- NoActs
  WaitKinds = {"any", "pid", "group"}
  Masks <- NoMask
  MaxFrames = 0
  Calls = {"FORK", "EXIT", "WAITPID", "KILL", "SETSID", "EXEC"}
SPECIFICATION Spec
INVARIANTS TableSound ParentsAlive NoLostWait AnsweredOnce
PROPERTIES WaitRight
CHECK_DEADLOCK FALSE
