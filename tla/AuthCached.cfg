SPECIFICATION Spec
CONSTANTS
  Requests = {r1, r2}
  Users = {u1}
  SessionIds = {s1, s2}
  TokenIds = {t1, t2}
  MaxDevices = 1
  CacheInjected = TRUE
  CacheMayFail = TRUE
  NoSession = NoSession
  NoToken = NoToken
  NoUser = NoUser
  AccessToken = AccessToken
SYMMETRY Symmetry
INVARIANTS
  FlagsOnlyDead
  InvalidateAllIsComplete
