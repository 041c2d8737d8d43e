SPECIFICATION Spec
CONSTANTS
  NR_TASKS = 5
  NR_PROCS = 3
  Sig = {SIGSTKFLT, SIGTRAP}
  SIGSTKFLT = SIGSTKFLT
  SIGTRAP = SIGTRAP
  Slots = {1}
  Talks <- IpcTalks
  MaxPending = 0
  Driver <- IpcDriver
  Calls = {"hold", "trace"}
INVARIANTS
  ReadyQueues
  Scheduled
  CallerQueues
  NoMissedRendezvous
  NoSendCycle
  NoLostInterrupt
