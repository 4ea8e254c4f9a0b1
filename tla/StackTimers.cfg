SPECIFICATION FairSpec
CONSTANTS
  MaxTimers = 2
  EVENT_SYNC_QUEUE_NUM = 2
INVARIANTS
  TypeOK
  MapIsCleared
PROPERTIES
  TimersAreServed
  ElapsedFires
  CallsReturn
CHECK_DEADLOCK FALSE
