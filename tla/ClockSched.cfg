SPECIFICATION Spec
CONSTANTS
  Users = {u1, u2, u3, u4}
  Watched = {}
  Sync = {}
  IDLE = IDLE
  AlarmUsers = {}
  Sharers = {u1, u2, u3}
  FirstOwner = u1
  SCHED_RATE = 2
  FLIPWAIT = 1
  MaxDelta = 0
  MaxRaces = 1
  MaxEvents = 1
INVARIANTS SchedSound
PROPERTIES ImagePinned FairShare ShadowsRun
