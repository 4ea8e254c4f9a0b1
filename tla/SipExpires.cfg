SPECIFICATION Spec
CONSTANTS
  r1 = r1
  r2 = r2
  r3 = r3
  r4 = r4
  s1 = s1
  s2 = s2
  s3 = s3
  Request = {r1, r2}
  NoRequest = NoRequest
  Server = {s1, s2, s3}
  LoginServer = s1
  Contacts <- MCContacts
  ConfiguredExpires = 2
  GrantedExpires = {1}
  MAX_NUM_AUTH_INFO_CHANGE = 1
  MaxCSeq = 4
SYMMETRY Symmetry
INVARIANTS
  RegisterNeverUnregisters
CHECK_DEADLOCK FALSE
