SPECIFICATION FairSpec
CONSTANTS
  Call = {c1, c2}
  Req = {r1}
  NoCall = NoCall
  NoOne = NoOne
  NoNote = NoNote
  MaxKey = 3
INVARIANTS
  TypeOK
  NoteHasOneOwner
  IdNamesItsCall
PROPERTIES
  NotesAreReleased
  IdsAreServed
CHECK_DEADLOCK FALSE
