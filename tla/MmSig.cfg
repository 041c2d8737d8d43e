CONSTANTS
  NR_PROCS = 4
  LAST_FEW = 0
  MaxPid = 3
  Sig = {1, 2, 9}
  KernelSig = {2}
  SigActs <- SomeActs
  WaitKinds = {}
  Masks <- SomeMasks
  MaxFrames = 2
  Calls = {"FORK", "KILL", "PAUSE", "SETSID", "SIGRETURN", "SIGACTION", "SIGPROCMASK", "SIGSUSPEND"}
SPECIFICATION Spec
INVARIANTS AnsweredOnce MaskRestored PendingDelivered
CHECK_DEADLOCK FALSE
