SPECIFICATION FairSpec
CONSTANTS
  Producer = {p1, p2}
  Mission = {m1, m2}
  NoProducer = NoProducer
  NoMission = NoMission
  MaxSessions = 2
  Kind = {message}
  Thresholds <- MCThresholds
  Allowed <- MCAllowed
INVARIANTS
  TypeOK
  ReadsAreSafe
  OneOwner
  CounterCoversQueue
  StoppedAfterFini
PROPERTIES
  MissionQueues
  AcceptedIsServed
CHECK_DEADLOCK FALSE
