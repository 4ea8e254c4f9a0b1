SPECIFICATION FairSpec
CONSTANTS
  Caller = {t1, t2}
  Dispatcher = {d1, d2}
  CallId = {c1, c2}
  MaxMsgs = 2
  NoOne = NoOne
  NoId = NoId
  NoMsg = NoMsg
INVARIANTS
  TypeOK
  UsedIsLive
  NoLostWakeup
PROPERTIES
  BlockingCalls
  CallReturns
CHECK_DEADLOCK FALSE
