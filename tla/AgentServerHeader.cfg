SPECIFICATION Spec
CONSTANTS
  Thread = {t1, t2}
  Msg = {m1, m2}
  Stateless = {m2}
  MaxQueueNum = 1
  NoThread = NoThread
  NoMsg = NoMsg
INVARIANT
  DeletedByServer
CHECK_DEADLOCK FALSE
