SPECIFICATION FairSpec
CONSTANTS
  Thread = {t1, t2}
  Msg = {m1, m2, m3}
  Stateless = {m3}
  MaxQueueNum = 1
  NoThread = NoThread
  NoMsg = NoMsg
INVARIANTS
  TypeOK
  MessagesAreCounted
PROPERTIES
  BoundedQueue
  QueuedIsHandled
CHECK_DEADLOCK FALSE
