SPECIFICATION ClientsSpec
CONSTANTS
  Procs = {p1}
  NoProc = NoProc
  Calls <- MCCalls
  Keys = {page, k1}
  MaxValue = 1
  Requests = {r1, r2}
  Checks = {h1}
  Others = {o1}
  Together <- MCTogether
  OtherOps = {"get", "set", "exists", "expire", "ttl", "incr", "decr", "del", "mget", "mset", "keys", "clear", "ping"}
  Page = page
  CacheTtl = 0
INVARIANTS
  ClientsTypeOK
  PositiveMeansDone
  LinkUsedUnlessStartFailed
  
  HealthTruthful

  
