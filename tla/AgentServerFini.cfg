SPECIFICATION FairSpec
CONSTANTS
  Thread = {t1, t2}
  Msg = {m1, m2}
  Stateless = {}
  MaxQueueNum = 1
  NoThread = NoThread
  NoMsg = NoMsg
PROPERTIES
  FiniEnds
CHECK_DEADLOCK FALSE
