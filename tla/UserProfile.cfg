SPECIFICATION Spec
CONSTANTS
  Requests = {r1, r2, r3}
  MaxVersion = 2
  CacheMayFail = TRUE
  None = None
SYMMETRY Symmetry
INVARIANTS
  TypeOK
  StaleOnlyByRaceOrFailure
