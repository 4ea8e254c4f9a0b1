SPECIFICATION FairSpec
CONSTANTS
  MaxStarts = 2
  Trigger <- MCTrigger
  NoTrigger = NoTrigger
INVARIANTS
  TypeOK
  NothingIsUsedAfterDelete
  StopsWhatItStarted
PROPERTIES
  CallsReturn
  DatagramsAreRead
CHECK_DEADLOCK FALSE
