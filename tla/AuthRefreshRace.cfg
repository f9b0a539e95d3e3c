SPECIFICATION Spec
CONSTANTS
  Requests = {r1, r2}
  Users = {u1}
  SessionIds = {s1}
  TokenIds = {t1, t2, t3}
  MaxDevices = 1
  CacheInjected = FALSE
  CacheMayFail = FALSE
  NoSession = NoSession
  NoToken = NoToken
  NoUser = NoUser
  AccessToken = AccessToken
SYMMETRY Symmetry
INVARIANTS
  TheftMeansReuse
