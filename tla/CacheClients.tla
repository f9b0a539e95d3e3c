---------------------------- MODULE CacheClients ----------------------------
(***************************************************************************)
(* Clients of CacheService, over the connection and the commands of that   *)
(* module: GET requests to a handler with @CacheKey under CacheInterceptor *)
(* (src/common/interceptors/cache.interceptor.ts), the health checks       *)
(* (src/health/health.controller.ts), and calls of any method by others.   *)
(*                                                                         *)
(* The handler answers with the version of a row.  All the requests are    *)
(* for one URL; CacheTtl is the argument of @CacheTTL.                     *)
(***************************************************************************)
EXTENDS CacheService

CONSTANTS
  Requests,   \* requests to the route with the interceptor
  Checks,     \* requests to /health and /health/detailed
  Others,     \* other calls of CacheService
  OtherOps,   \* the methods they call
  Together,   \* bound: the sets of clients of which a behaviour has one
  Page,       \* the key of the route in the cache
  CacheTtl    \* @CacheTTL, 0 when the decorator is missing

CallsOf == Requests \X {"get", "set"} \cup Checks \X {"ping"} \cup Others \X {"other"}

ASSUME CallsAssumption == Calls = CallsOf
ASSUME ClientsAssumption ==
  Requests \cap Checks = {} /\ OtherOps \subseteq OneKey \cup ManyKeys \cup NoKeys
ASSUME PageAssumption == Page \in Keys /\ CacheTtl \in Nat

VARIABLES
  around,     \* the clients of this behaviour
  row,        \* version of the row the handler reads
  database,   \* the database answers
  stage,      \* where each request is
  host,       \* its process
  body,       \* version in its response, or Null
  probe,      \* what checkDatabase of each health check found
  verdict     \* status in its response

served == <<stage, host, body>>
health == <<probe, verdict>>
world == <<around, row, database>>
allVars == <<vars, world, served, health>>

Hosts == Requests \cup Checks
Stages == {"idle", "looking", "missed", "bypassed", "served", "failed"}

ClientsTypeOK ==
  /\ TypeOK
  /\ around \in Together
  /\ row \in 0 .. MaxValue /\ database \in BOOLEAN
  /\ stage \in [Requests -> Stages]
  /\ host \in [Hosts -> Procs \cup {NoProc}]
  /\ body \in [Requests -> Values \cup {Null}]
  /\ probe \in [Checks -> {"none", "pending", "up", "down"}]
  /\ verdict \in [Checks -> {"none", "basic", "detailed", "ok", "error", "detailed ok"}]

ClientsInit ==
  /\ Init
  /\ around \in Together
  /\ row = 0 /\ database = TRUE
  /\ stage = [r \in Requests |-> "idle"]
  /\ host = [h \in Hosts |-> NoProc]
  /\ body = [r \in Requests |-> Null]
  /\ probe = [h \in Checks |-> "none"]
  /\ verdict = [h \in Checks |-> "none"]

\* The module's init hook is awaited before the process listens.
Listening(p) == client[p] # "none" \/ mode = "disabled"

-----------------------------------------------------------------------------
(* CacheInterceptor.                                                       *)

Advance(r, to, version) ==
  /\ stage' = [stage EXCEPT ![r] = to]
  /\ body' = [body EXCEPT ![r] = version]

\* Mutant: @CacheTTL(0) and a missing decorator are taken as given.
TtlAsGiven == CacheTtl

DEFAULT_CACHE_TTL == 300
TtlSeconds == IF CacheTtl = 0 THEN DEFAULT_CACHE_TTL ELSE CacheTtl

\* intercept, up to its await: not a GET with a key, or no connection, and the
\* handler runs without the cache.
Intercept(r, p) ==
  /\ r \in around /\ stage[r] = "idle" /\ Listening(p)
  /\ host' = [host EXCEPT ![r] = p]
  /\ \/ Advance(r, "bypassed", Null) /\ UNCHANGED calls
     \/ /\ connected[p]
        /\ Advance(r, "looking", Null)
        /\ Call(<<r, "get">>, Job(p, "get", {Page}, 0, FALSE))
  /\ UNCHANGED <<links, redis, world, health>>

\* The cached value is served; null is a miss.
Looked(r) ==
  /\ stage[r] = "looking" /\ at[<<r, "get">>] = "answered"
  /\ IF result[<<r, "get">>] # Null
     THEN Advance(r, "served", result[<<r, "get">>])
     ELSE Advance(r, "missed", Null)
  /\ UNCHANGED <<vars, world, host, health>>

\* The handler answers, and tap starts a set nobody awaits.
Handle(r) ==
  /\ stage[r] \in {"missed", "bypassed"} /\ database
  /\ Advance(r, "served", row)
  /\ IF stage[r] = "missed"
     THEN Call(<<r, "set">>, Job(host[r], "set", {Page}, row, TtlSeconds > 0))
     ELSE UNCHANGED calls
  /\ UNCHANGED <<links, redis, world, host, health>>

\* The handler throws: nothing is cached.
HandlerThrows(r) ==
  /\ stage[r] \in {"missed", "bypassed"} /\ ~database
  /\ Advance(r, "failed", Null)
  /\ UNCHANGED <<vars, world, host, health>>

-----------------------------------------------------------------------------
(* The health checks.                                                      *)

\* check and checkDetailed start both probes at once.
Check(h, p, kind) ==
  /\ h \in around /\ verdict[h] = "none" /\ Listening(p)
  /\ host' = [host EXCEPT ![h] = p]
  /\ verdict' = [verdict EXCEPT ![h] = kind]
  /\ probe' = [probe EXCEPT ![h] = "pending"]
  /\ Call(<<h, "ping">>, Job(p, "ping", {}, 0, FALSE))
  /\ UNCHANGED <<links, redis, world, stage, body>>

\* prismaService.isHealthy: SELECT 1.
CheckDatabase(h) ==
  /\ probe[h] = "pending"
  /\ probe' = [probe EXCEPT ![h] = IF database THEN "up" ELSE "down"]
  /\ UNCHANGED <<vars, world, served, verdict>>

BothIn(h) == probe[h] \in {"up", "down"} /\ at[<<h, "ping">>] = "answered"

\* Mutant: one service is enough.
VerdictOfAny(h) ==
  IF verdict[h] = "detailed" THEN "detailed ok"
  ELSE IF probe[h] = "up" \/ result[<<h, "ping">>] = 1 THEN "ok" ELSE "error"

\* The status in the body.  Terminus counts what an indicator throws, and these
\* two resolve whatever they find.
Verdict(h) ==
  IF verdict[h] = "detailed" THEN "detailed ok"
  ELSE IF probe[h] = "up" /\ result[<<h, "ping">>] = 1 THEN "ok" ELSE "error"

Conclude(h) ==
  /\ verdict[h] \in {"basic", "detailed"}
  /\ probe[h] \in {"up", "down"} /\ at[<<h, "ping">>] = "answered"
  /\ verdict' = [verdict EXCEPT ![h] = Verdict(h)]
  /\ UNCHANGED <<vars, world, served, probe>>

-----------------------------------------------------------------------------
(* The rest of the world.                                                  *)

\* Another service calls a method, on keys that are not the page's.
OtherCall(o, p) ==
  /\ o \in around /\ at[<<o, "other">>] = "idle" /\ Listening(p)
  /\ \E op \in OtherOps, K \in SUBSET (Keys \ {Page}), ex \in BOOLEAN :
       /\ op \in OneKey => Cardinality(K) = 1
       /\ op \in NoKeys => K = {}
       /\ op \notin {"set", "mset", "expire"} => ~ex
       /\ Call(<<o, "other">>, Job(p, op, K, 1, ex))
  /\ UNCHANGED <<links, redis, world, served, health>>

Write == row < MaxValue /\ row' = row + 1 /\ UNCHANGED <<vars, around, database, served, health>>

DatabaseFlips == database' = ~database /\ UNCHANGED <<vars, around, row, served, health>>

\* A process dies with its requests.
Dies(p) ==
  LET back(f, none) == [h \in DOMAIN f |-> IF host[h] = p THEN none ELSE f[h]] IN
  /\ Crash(p)
  /\ stage' = back(stage, "idle") /\ body' = back(body, Null)
  /\ probe' = back(probe, "none") /\ verdict' = back(verdict, "none")
  /\ host' = back(host, NoProc)
  /\ UNCHANGED world

Step(r) == Looked(r) \/ Handle(r) \/ HandlerThrows(r)

Request(r) == (\E p \in Procs : Intercept(r, p)) \/ Step(r)

Probing(h) == CheckDatabase(h) \/ Conclude(h)

HealthCheck(h) == (\E p \in Procs : Check(h, p, "basic") \/ Check(h, p, "detailed")) \/ Probing(h)

Environment ==
  \/ Write \/ DatabaseFlips
  \/ \E p \in Procs : Dies(p)
  \/ /\ UNCHANGED <<world, served, health>>
     /\ Command \/ \E p \in Procs : Connection(p)

ClientsNext ==
  \/ \E r \in Requests : Request(r)
  \/ \E h \in Checks : HealthCheck(h)
  \/ \E o \in Others, p \in Procs : OtherCall(o, p)
  \/ Environment

\* Node resumes what has settled, and ioredis rejects what is queued on a link
\* that stays down.  A connection that comes up again and again stays long enough
\* for one command; it need not come up at all.
Still == UNCHANGED <<world, served, health>>
Fairness ==
  /\ \A r \in Requests : WF_allVars(Step(r))
  /\ \A h \in Checks : WF_allVars(Probing(h))
  /\ \A p \in Procs : WF_allVars(GiveUp(p) /\ Still)
  /\ \A c \in Requests \X {"get"} : SF_allVars(Execute(c) /\ Still) /\ SF_allVars(Settle(c) /\ Still)
  /\ \A c \in Checks \X {"ping"} : SF_allVars(Execute(c) /\ Still) /\ SF_allVars(Settle(c) /\ Still)

ClientsSpec == ClientsInit /\ [][ClientsNext]_allVars /\ Fairness

-----------------------------------------------------------------------------
\* CacheService's answers: whatever the link does, an answer other than the
\* fallback means that Redis has executed the command.  Of mset it means that
\* every SET was executed or refused, as exec() resolves either way.
PositiveMeansDone ==
  \A c \in Calls :
    at[c] = "answered" /\ result[c] # Fallback(job[c].op)
    => c \in ran \/ (job[c].op = "mset" /\ c \in errors)

\* A process whose client has a connection uses it, unless its first connection
\* failed: the flag of cache.service.ts:121 is never written again.
LinkUsedUnlessStartFailed ==
  \A p \in Procs : client[p] = "up" => connected[p] \/ p \in unlinked

\* What the interceptor caches expires, whatever @CacheTTL says: a response
\* outlives its row by one TTL at most.
EntriesExpire == value[Page] # Null => Page \in expiring

\* /health says ok only when, since the check began, the database has answered and
\* Redis has executed a PING of this check, however the two overlap with a
\* breaking link, a queued command sent again, or a restart.
HealthTruthful ==
  \A h \in Checks : verdict[h] = "ok" => probe[h] = "up" /\ <<h, "ping">> \in ran

\* A request under the interceptor and a health check come to an end, though Redis
\* may be lost for ever while they wait for it.
EveryRequestAnswered ==
  /\ \A r \in Requests : stage[r] = "looking" ~> stage[r] # "looking"
  /\ \A h \in Checks : verdict[h] \in {"basic", "detailed"}
       ~> verdict[h] \notin {"basic", "detailed"}
=============================================================================
