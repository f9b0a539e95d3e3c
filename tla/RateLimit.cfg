SPECIFICATION Spec
CONSTANTS
  Requests = {r1, r2, r3}
  Limit = 2
  Window = 3
INVARIANTS
  TypeOK
  
  AtMostTwoWindows
PROPERTY
  UnblockedUnlessLost
