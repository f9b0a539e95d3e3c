------------------------------ MODULE RateLimit ------------------------------
(***************************************************************************)
(* RateLimitMiddleware (src/common/middleware/rate-limit.middleware.ts) on *)
(* one Redis key rate_limit:{identifier}:{endpoint}, with the CacheService *)
(* commands it awaits (src/core/cache/cache.service.ts).                   *)
(*                                                                         *)
(* The requests of one client run in several Node processes; INCR, EXPIRE  *)
(* and TTL are three awaited commands, so requests interleave between      *)
(* them, a process can die between INCR and EXPIRE, and an INCR whose      *)
(* reply is lost is executed again.  Time advances in ticks; Window ticks  *)
(* stand for WINDOW_SECONDS.  A process whose cache never connected calls  *)
(* next() at once and touches nothing.                                     *)
(***************************************************************************)
EXTENDS Integers

CONSTANTS
  Requests,   \* requests of the client that can be in flight together
  Limit,      \* GLOBAL_LIMIT
  Window      \* WINDOW_SECONDS, in ticks

ASSUME LimitAssumption == Limit \in Nat \ {0}
ASSUME WindowAssumption == Window \in Nat \ {0}

VARIABLES
  count,     \* the counter; 0 while the key does not exist
  ttl,       \* remaining ticks of the key; NoTtl while it does not expire
  pc,        \* where each request is
  current,   \* currentCount of each request
  recent,    \* history: recent[i] = requests counted within the limit i ticks ago
  lost       \* history: requests that created the key and never came to EXPIRE

vars == <<count, ttl, pc, current, recent, lost>>

NoTtl == -1
Ages == 0 .. Window - 1

\* Bound: the code only asks whether the counter is 1 or above Limit, so the
\* model stops counting one past Limit.
Counts == 0 .. Limit + 1
Up(n) == IF n > Limit THEN n ELSE n + 1

TypeOK ==
  /\ count \in Counts
  /\ ttl \in {NoTtl} \cup 1 .. Window
  /\ pc \in [Requests -> {"idle", "incr", "expire", "ttl", "rejected"}]
  /\ current \in [Requests -> Counts]
  /\ recent \in [Ages -> 0 .. Limit]
  /\ lost \subseteq Requests

Init ==
  /\ count = 0 /\ ttl = NoTtl
  /\ pc = [r \in Requests |-> "idle"]
  /\ current = [r \in Requests |-> 0]
  /\ recent = [i \in Ages |-> 0]
  /\ lost = {}

\* A request reaches the middleware: identifier, endpoint and limit are computed.
Arrive(r) ==
  /\ pc[r] \in {"idle", "rejected"}
  /\ pc' = [pc EXCEPT ![r] = "incr"]
  /\ current' = [current EXCEPT ![r] = 0]
  /\ UNCHANGED <<count, ttl, recent, lost>>

\* Mutant: a window that never ends is renewed by every request within it.
IncrRenewing(r) ==
  /\ pc[r] = "incr"
  /\ count' = Up(count)
  /\ current' = [current EXCEPT ![r] = Up(count)]
  /\ pc' = [pc EXCEPT ![r] = "expire"]
  /\ recent' = [recent EXCEPT ![0] = @ + (IF Up(count) > Limit THEN 0 ELSE 1)]
  /\ UNCHANGED <<ttl, lost>>

\* Mutant: the test is on the counter as it was before INCR.
IncrTestsOldCount(r) ==
  /\ pc[r] = "incr"
  /\ count' = Up(count)
  /\ current' = [current EXCEPT ![r] = Up(count)]
  /\ pc' = [pc EXCEPT ![r] = IF count = 1 THEN "expire" ELSE "ttl"]
  /\ recent' = [recent EXCEPT ![0] = @ + (IF Up(count) > Limit THEN 0 ELSE 1)]
  /\ UNCHANGED <<ttl, lost>>

\* cacheService.incr, then the test currentCount === 1.
Incr(r) ==
  /\ pc[r] = "incr"
  /\ count' = Up(count)
  /\ current' = [current EXCEPT ![r] = Up(count)]
  /\ pc' = [pc EXCEPT ![r] = IF Up(count) = 1 THEN "expire" ELSE "ttl"]
  /\ recent' = [recent EXCEPT ![0] = @ + (IF Up(count) > Limit THEN 0 ELSE 1)]
  /\ UNCHANGED <<ttl, lost>>

\* Redis executes the INCR and its reply is lost with the connection: ioredis sends
\* it again.  The request that created the key will not see a 1.
IncrUnanswered(r) ==
  /\ pc[r] = "incr"
  /\ count' = Up(count)
  /\ lost' = IF count = 0 THEN lost \cup {r} ELSE lost
  /\ UNCHANGED <<ttl, pc, current, recent>>

\* incr swallows the error and returns 0: the request will be let through.
IncrFails(r) ==
  /\ pc[r] = "incr"
  /\ pc' = [pc EXCEPT ![r] = "ttl"]
  /\ UNCHANGED <<count, ttl, current, recent, lost>>

\* Mutant: EXPIRE with half the window.
ExpireEarly(r) ==
  /\ pc[r] = "expire"
  /\ ttl' = IF count > 0 THEN 1 ELSE ttl
  /\ pc' = [pc EXCEPT ![r] = "ttl"]
  /\ UNCHANGED <<count, current, recent, lost>>

\* cacheService.expire on the key, if it exists.
Expire(r) ==
  /\ pc[r] = "expire"
  /\ ttl' = IF count > 0 THEN Window ELSE ttl
  /\ pc' = [pc EXCEPT ![r] = "ttl"]
  /\ UNCHANGED <<count, current, recent, lost>>

\* expire swallows the error and returns false, which use() does not look at.
ExpireFails(r) ==
  /\ pc[r] = "expire"
  /\ pc' = [pc EXCEPT ![r] = "ttl"]
  /\ lost' = lost \cup {r}
  /\ UNCHANGED <<count, ttl, current, recent>>

\* cacheService.ttl for the headers, then the decision: 429 or next().
Decide(r) ==
  /\ pc[r] = "ttl"
  /\ pc' = [pc EXCEPT ![r] = IF current[r] > Limit THEN "rejected" ELSE "idle"]
  /\ UNCHANGED <<count, ttl, current, recent, lost>>

\* The process dies: PM2 restarts it, the request is gone.
Crash(r) ==
  /\ pc[r] \in {"incr", "expire", "ttl"}
  /\ pc' = [pc EXCEPT ![r] = "idle"]
  /\ lost' = IF pc[r] = "expire" THEN lost \cup {r} ELSE lost
  /\ UNCHANGED <<count, ttl, current, recent>>

\* Mutant: the TTL of a key without one is counted down as well.
TickBelowZero ==
  /\ recent' = [i \in Ages |-> IF i = 0 THEN 0 ELSE recent[i - 1]]
  /\ ttl' = IF ttl = 1 THEN NoTtl ELSE ttl - 1
  /\ count' = IF ttl = 1 THEN 0 ELSE count
  /\ UNCHANGED <<pc, current, lost>>

\* Time passes; Redis drops the key when its TTL runs out.
Tick ==
  /\ recent' = [i \in Ages |-> IF i = 0 THEN 0 ELSE recent[i - 1]]
  /\ ttl' = IF ttl \in {NoTtl, 1} THEN NoTtl ELSE ttl - 1
  /\ count' = IF ttl = 1 THEN 0 ELSE count
  /\ UNCHANGED <<pc, current, lost>>

Progress(r) == Incr(r) \/ Expire(r) \/ Decide(r)
Fault(r) == IncrUnanswered(r) \/ IncrFails(r) \/ ExpireFails(r) \/ Crash(r)

Next == Tick \/ \E r \in Requests : Arrive(r) \/ Progress(r) \/ Fault(r)

\* Node resumes every request whose await has settled, and time passes.
Fairness == WF_vars(Tick) /\ \A r \in Requests : WF_vars(Progress(r))

Spec == Init /\ [][Next]_vars /\ Fairness

-----------------------------------------------------------------------------
Counted == LET sum[i \in Ages] == recent[i] + (IF i = 0 THEN 0 ELSE sum[i - 1])
           IN  sum[Window - 1]

\* A fixed window that starts with its first request: within any Window ticks
\* the client gets at most two windows' worth of counted requests, however its
\* requests interleave between INCR and EXPIRE.
AtMostTwoWindows == Counted <= 2 * Limit

\* A key that does not expire yet is the key of exactly one request, the one
\* that created it, and that request is on its way to EXPIRE; the only other
\* way to a key without TTL is the loss of that request.  No other failure, and
\* no interleaving, leads there.
OneExpirerPerKey ==
  /\ count > 0 /\ ttl = NoTtl => lost # {} \/ \E r \in Requests : pc[r] = "expire"
  /\ \A r \in Requests : pc[r] = "expire" =>
       /\ count > 0 /\ ttl = NoTtl
       /\ \A q \in Requests : pc[q] = "expire" => q = r

\* A client whose counter is beyond the limit is served again, unless the
\* request that created the key was lost before EXPIRE.
UnblockedUnlessLost == (count > Limit) ~> (count <= Limit \/ lost # {})
=============================================================================
