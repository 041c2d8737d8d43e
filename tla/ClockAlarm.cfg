SPECIFICATION Spec
CONSTANTS
  Users = {}
  Watched = {disk}
  Sync = {inet}
  IDLE = IDLE
  AlarmUsers = {a1, a2}
  Sharers = {}
  FirstOwner = IDLE
  SCHED_RATE = 1
  FLIPWAIT = 0
  MaxDelta = 1
  MaxRaces = 2
  MaxEvents = 0
INVARIANTS AlarmsSound
PROPERTIES AlarmsServed SyncDelivered
