---------------------------- MODULE AuthSessions ----------------------------
(***************************************************************************)
(* Sessions and refresh tokens (src/auth/auth.service.ts) behind the       *)
(* endpoints of auth.controller.ts and the TokenValidationGuard.           *)
(*                                                                         *)
(* PM2 runs one Node process per core (ecosystem.config.js) on one MySQL   *)
(* and one Redis, so any two requests interleave at every await.  Each     *)
(* statement that is awaited is one action; the synchronous code between   *)
(* two awaits belongs to the action that precedes it.                      *)
(*                                                                         *)
(* A request is a worker of Requests that walks the program counter pc:    *)
(*   login      find -> kill -> mark* -> create -> hash -> info -> reply   *)
(*   refresh    refresh -> hash -> reply                                   *)
(*              refresh -> findAll -> killAll -> mark* -> theft            *)
(*   guarded    flag -> cached -> row -> info -> ok                        *)
(*              ... -> killOne / findAll -> killAll -> mark* -> clear      *)
(* The account part of a login (user.findUnique .. user.update) ends       *)
(* before the first action: the user exists.                               *)
(***************************************************************************)
EXTENDS FiniteSets, Integers

CONSTANTS
  Requests,       \* workers: the requests that can be in flight together
  Users,
  SessionIds,     \* UserSession rows that can be created
  TokenIds,       \* refresh tokens that can be signed (the random tokenId)
  MaxDevices,     \* jwt.maxDevicesPerUser; 0 is "no limit"
  CacheInjected,  \* has setCacheService been called?  Nothing calls it.
  CacheMayFail,   \* may a Redis call fall back to its default?
  NoSession, NoToken, NoUser,
  AccessToken     \* an access token posted where a refresh token belongs

ASSUME RequestsAssumption == IsFiniteSet(Requests)
ASSUME MaxDevicesAssumption == MaxDevices \in Nat
ASSUME FlagsAssumption == CacheInjected \in BOOLEAN /\ CacheMayFail \in BOOLEAN
ASSUME NullsAssumption ==
  /\ NoSession \notin SessionIds
  /\ NoToken \notin TokenIds
  /\ AccessToken \notin TokenIds \cup {NoToken}
  /\ NoUser \notin Users

VARIABLES
  owner,      \* [SessionIds -> user, or NoUser while the row does not exist]
  valid,      \* UserSession.isValid
  hash,       \* UserSession.refreshToken: NoToken is the initial ''
  expired,    \* sessions whose expiresAt has passed
  flagged,    \* keys session_invalid:{id} in Redis
  userInfo,   \* users whose user_info:{id}, written by AuthService, is cached
  tokenOf,    \* the session a signed refresh token names
  parent,     \* the token whose refresh signed it; NoToken after a login
  delivered,  \* refresh tokens that reached a client
  stored,     \* history: tokens whose hash has ever been in a row
  pc,         \* where each request is
  job,        \* its operation, user, and the user's live sessions at its start
  sess,       \* the session it is about
  tok,        \* the token it presents, then the one it has signed
  seen        \* sessions read by findMany, then those still to be flagged

db     == <<owner, valid, hash, expired>>
redis  == <<flagged, userInfo>>
tokens == <<tokenOf, parent, delivered, stored>>
local  == <<job, sess, tok, seen>>
vars   == <<db, redis, tokens, local, pc>>

Ended == {"idle", "ok", "theft"}
Running == {"find", "kill", "mark", "create", "hash", "info", "reply",
            "refresh", "expire", "findAll", "killAll", "killOne", "clear",
            "flag", "cached", "row"}
Guarded == {"access", "logout", "logoutAll"}
Ops == Guarded \cup {"login", "refresh"}

Jobs == [op : Ops, user : Users \cup {NoUser}, prior : SUBSET SessionIds]
NoJob == [op |-> "login", user |-> NoUser, prior |-> {}]

TypeOK ==
  /\ owner \in [SessionIds -> Users \cup {NoUser}]
  /\ valid \in [SessionIds -> BOOLEAN]
  /\ hash \in [SessionIds -> TokenIds \cup {NoToken}]
  /\ expired \subseteq SessionIds
  /\ flagged \subseteq SessionIds
  /\ userInfo \subseteq Users
  /\ tokenOf \in [TokenIds -> SessionIds \cup {NoSession}]
  /\ parent \in [TokenIds -> TokenIds \cup {NoToken}]
  /\ delivered \subseteq TokenIds
  /\ stored \subseteq TokenIds
  /\ pc \in [Requests -> Ended \cup Running]
  /\ job \in [Requests -> Jobs]
  /\ sess \in [Requests -> SessionIds \cup {NoSession}]
  /\ tok \in [Requests -> TokenIds \cup {NoToken, AccessToken}]
  /\ seen \in [Requests -> SUBSET SessionIds]

Init ==
  /\ owner = [s \in SessionIds |-> NoUser]
  /\ valid = [s \in SessionIds |-> FALSE]
  /\ hash = [s \in SessionIds |-> NoToken]
  /\ expired = {} /\ flagged = {} /\ userInfo = {}
  /\ tokenOf = [t \in TokenIds |-> NoSession]
  /\ parent = [t \in TokenIds |-> NoToken]
  /\ delivered = {} /\ stored = {}
  /\ pc = [r \in Requests |-> "idle"]
  /\ job = [r \in Requests |-> NoJob]
  /\ sess = [r \in Requests |-> NoSession]
  /\ tok = [r \in Requests |-> NoToken]
  /\ seen = [r \in Requests |-> {}]

-----------------------------------------------------------------------------
(* Operators shared by the handlers.                                       *)

Op(r) == job[r].op
UserOf(r) == job[r].user

\* The rows findMany({userId, isValid: true, deletedAt: null}) returns.
LiveOf(u) == {s \in SessionIds : owner[s] = u /\ valid[s]}

Unused == {t \in TokenIds : tokenOf[t] = NoSession}

Goto(r, label) == pc' = [pc EXCEPT ![r] = label]

\* The request ends and its locals are gone: refused, failed, or answered where
\* no property asks for the answer.
End(r) ==
  /\ Goto(r, "idle")
  /\ job' = [job EXCEPT ![r] = NoJob]
  /\ sess' = [sess EXCEPT ![r] = NoSession]
  /\ tok' = [tok EXCEPT ![r] = NoToken]
  /\ seen' = [seen EXCEPT ![r] = {}]

\* updateMany/update with data {isValid: false} on the rows K.
Invalidate(K) == valid' = [s \in SessionIds |-> valid[s] /\ s \notin K]

\* Mutant: the tokenId is not random, so a token can be signed twice.
SignTokenAgain(r, s, from) ==
  \E t \in TokenIds :
    /\ tokenOf' = [tokenOf EXCEPT ![t] = s]
    /\ parent' = [parent EXCEPT ![t] = from]
    /\ tok' = [tok EXCEPT ![r] = t]

\* generateTokens for session s: a token no one has signed before.
SignToken(r, s, from) ==
  \E t \in Unused :
    /\ tokenOf' = [tokenOf EXCEPT ![t] = s]
    /\ parent' = [parent EXCEPT ![t] = from]
    /\ tok' = [tok EXCEPT ![r] = t]

\* Where a request continues once its sessions are invalidated and flagged.
AfterInvalidation(r) ==
  CASE Op(r) = "login" -> "create"
    [] Op(r) = "refresh" -> "theft"
    [] OTHER -> IF CacheInjected THEN "clear" ELSE "ok"

\* markSessionInvalidInCache returns at once without a cache service.
FlagNext(r, K) == IF CacheInjected /\ K # {} THEN "mark" ELSE AfterInvalidation(r)

\* The guard has let the request in: its handler runs.
HandlerStart(r) ==
  CASE Op(r) = "logout" -> "killOne"
    [] Op(r) = "logoutAll" -> "findAll"
    [] OTHER -> "ok"

-----------------------------------------------------------------------------
(* Requests arrive.                                                        *)

Begin(r, op, u, s, t, label) ==
  /\ pc[r] \in Ended
  /\ job' = [job EXCEPT ![r] =
       [op |-> op, user |-> u, prior |-> IF op = "login" THEN {} ELSE LiveOf(u)]]
  /\ sess' = [sess EXCEPT ![r] = s]
  /\ tok' = [tok EXCEPT ![r] = t]
  /\ seen' = [seen EXCEPT ![r] = {}]
  /\ Goto(r, label)
  /\ UNCHANGED <<db, redis, tokens>>

BeginLogin(r) ==
  \E u \in Users : Begin(r, "login", u, NoSession, NoToken, "find")

\* A client posts a refresh token it was given, however old.
BeginRefresh(r) ==
  \E t \in delivered :
    Begin(r, "refresh", owner[tokenOf[t]], tokenOf[t], t, "refresh")

\* The access token of the same pair is a JWT of the same secret: it passes
\* jwtService.verify too.
BeginRefreshWithAccessToken(r) ==
  \E t \in delivered :
    Begin(r, "refresh", owner[tokenOf[t]], tokenOf[t], AccessToken, "refresh")

\* A request that JwtAuthGuard lets through, to a guarded endpoint or logout.
BeginGuarded(r) ==
  \E t \in delivered, op \in Guarded :
    Begin(r, op, owner[tokenOf[t]], tokenOf[t], NoToken,
          IF CacheInjected THEN "flag" ELSE "row")

-----------------------------------------------------------------------------
(* handleGoogleLogin.                                                      *)

\* Mutant: > for >= in the device limit.
LoginFindOffByOne(r) ==
  /\ pc[r] = "find"
  /\ LET active == LiveOf(UserOf(r)) IN
       /\ seen' = [seen EXCEPT ![r] = active]
       /\ Goto(r, IF MaxDevices > 0 /\ Cardinality(active) > MaxDevices
                  THEN "kill" ELSE "create")
  /\ UNCHANGED <<db, redis, tokens, job, sess, tok>>

\* Mutant: the sessions are flagged before the rows are updated.
LoginFlagFirst(r) ==
  /\ pc[r] = "find"
  /\ seen' = [seen EXCEPT ![r] = LiveOf(UserOf(r))]
  /\ Goto(r, FlagNext(r, LiveOf(UserOf(r))))
  /\ UNCHANGED <<db, redis, tokens, job, sess, tok>>

\* invalidateExistingSessions: findMany and the device limit.
LoginFind(r) ==
  /\ pc[r] = "find"
  /\ LET active == LiveOf(UserOf(r)) IN
       /\ seen' = [seen EXCEPT ![r] = active]
       /\ Goto(r, IF MaxDevices > 0 /\ Cardinality(active) >= MaxDevices
                  THEN "kill" ELSE "create")
  /\ UNCHANGED <<db, redis, tokens, job, sess, tok>>

\* invalidateExistingSessions: updateMany by the ids read.
LoginKill(r) ==
  /\ pc[r] = "kill"
  /\ Invalidate(seen[r])
  /\ Goto(r, FlagNext(r, seen[r]))
  /\ UNCHANGED <<owner, hash, expired, redis, tokens, local>>

\* createSession, then generateTokens.
LoginCreate(r) ==
  /\ pc[r] = "create"
  /\ \E s \in SessionIds :
       /\ owner[s] = NoUser
       /\ owner' = [owner EXCEPT ![s] = UserOf(r)]
       /\ valid' = [valid EXCEPT ![s] = TRUE]
       /\ sess' = [sess EXCEPT ![r] = s]
       /\ SignToken(r, s, NoToken)
  /\ Goto(r, "hash")
  /\ UNCHANGED <<hash, expired, redis, delivered, stored, job, seen>>

\* Mutant: the hash of the wrong token of the pair.
WriteHashOfAccessToken(r) ==
  /\ pc[r] = "hash"
  /\ hash' = [hash EXCEPT ![sess[r]] = AccessToken]
  /\ stored' = stored \cup {tok[r]}
  /\ Goto(r, "reply")
  /\ UNCHANGED <<owner, valid, expired, redis, tokenOf, parent, delivered, local>>

\* Mutant: the update writes the whole row back as it was read.
WriteHashAndRow(r) ==
  /\ pc[r] = "hash"
  /\ hash' = [hash EXCEPT ![sess[r]] = tok[r]]
  /\ valid' = [valid EXCEPT ![sess[r]] = TRUE]
  /\ stored' = stored \cup {tok[r]}
  /\ Goto(r, "reply")
  /\ UNCHANGED <<owner, expired, redis, tokenOf, parent, delivered, local>>

\* userSession.update with the hash of the token just signed; login and refresh.
WriteHash(r) ==
  /\ pc[r] = "hash"
  /\ hash' = [hash EXCEPT ![sess[r]] = tok[r]]
  /\ stored' = stored \cup {tok[r]}
  /\ Goto(r, IF Op(r) = "login" /\ CacheInjected THEN "info" ELSE "reply")
  /\ UNCHANGED <<owner, valid, expired, redis, tokenOf, parent, delivered, local>>

\* cacheUserInfo, at the end of a login and of a validation that read the row.
WriteInfo(r) ==
  /\ pc[r] = "info"
  /\ \/ userInfo' = userInfo \cup {UserOf(r)}
     \/ CacheMayFail /\ UNCHANGED userInfo
  /\ Goto(r, IF Op(r) = "login" THEN "reply" ELSE HandlerStart(r))
  /\ UNCHANGED <<db, flagged, tokens, local>>

\* The response reaches the client.
Reply(r) ==
  /\ pc[r] = "reply"
  /\ delivered' = delivered \cup {tok[r]}
  /\ End(r)
  /\ UNCHANGED <<db, redis, tokenOf, parent, stored>>

-----------------------------------------------------------------------------
(* refreshTokens.                                                          *)

\* findUnique and the checks on what it returned, up to the next await.
RefreshRead(r) ==
  LET s == sess[r] IN
  /\ pc[r] = "refresh"
  /\ \/ ~valid[s] /\ End(r) /\ UNCHANGED <<tokenOf, parent>>
     \/ /\ valid[s] /\ s \in expired
        /\ Goto(r, "expire") /\ UNCHANGED <<tokenOf, parent, local>>
     \/ /\ valid[s] /\ s \notin expired /\ hash[s] # tok[r]
        /\ Goto(r, "findAll") /\ UNCHANGED <<tokenOf, parent, local>>
     \/ /\ valid[s] /\ s \notin expired /\ hash[s] = tok[r]
        /\ SignToken(r, s, tok[r])
        /\ Goto(r, "hash") /\ UNCHANGED <<job, sess, seen>>
  /\ UNCHANGED <<db, redis, delivered, stored>>

\* The expiry branch of refreshTokens and of validateSession.
ExpireSession(r) ==
  /\ pc[r] = "expire"
  /\ Invalidate({sess[r]})
  /\ End(r)
  /\ UNCHANGED <<owner, hash, expired, redis, tokens>>

-----------------------------------------------------------------------------
(* invalidateAllUserSessions, for a token mismatch and for allDevices.     *)

FindAll(r) ==
  /\ pc[r] = "findAll"
  /\ LET active == LiveOf(UserOf(r)) IN
       /\ seen' = [seen EXCEPT ![r] = active]
       /\ Goto(r, IF active = {} THEN AfterInvalidation(r) ELSE "killAll")
  /\ UNCHANGED <<db, redis, tokens, job, sess, tok>>

\* Mutant: the session the request came with is spared.
KillAllOthers(r) ==
  /\ pc[r] = "killAll"
  /\ Invalidate(LiveOf(UserOf(r)) \ {sess[r]})
  /\ Goto(r, FlagNext(r, seen[r]))
  /\ UNCHANGED <<owner, hash, expired, redis, tokens, local>>

\* updateMany by userId: rows created since FindAll are invalidated as well,
\* but only the rows FindAll returned are flagged.
KillAll(r) ==
  /\ pc[r] = "killAll"
  /\ Invalidate(LiveOf(UserOf(r)))
  /\ Goto(r, FlagNext(r, seen[r]))
  /\ UNCHANGED <<owner, hash, expired, redis, tokens, local>>

\* markSessionInvalidInCache for one of the sessions still to be flagged.
Mark(r) ==
  /\ pc[r] = "mark"
  /\ \E s \in seen[r] :
       /\ \/ flagged' = flagged \cup {s}
          \/ CacheMayFail /\ UNCHANGED flagged
       /\ seen' = [seen EXCEPT ![r] = @ \ {s}]
       /\ Goto(r, FlagNext(r, seen[r] \ {s}))
  /\ UNCHANGED <<db, userInfo, tokens, job, sess, tok>>

-----------------------------------------------------------------------------
(* validateSession, called by TokenValidationGuard.                        *)

CheckFlag(r) ==
  /\ pc[r] = "flag"
  /\ \/ sess[r] \in flagged /\ End(r)
     \/ /\ sess[r] \notin flagged \/ CacheMayFail
        /\ Goto(r, "cached") /\ UNCHANGED local
  /\ UNCHANGED <<db, redis, tokens>>

\* A hit on user_info answers without the session row.
ReadCachedInfo(r) ==
  /\ pc[r] = "cached"
  /\ \/ UserOf(r) \in userInfo /\ Goto(r, HandlerStart(r))
     \/ (UserOf(r) \notin userInfo \/ CacheMayFail) /\ Goto(r, "row")
  /\ UNCHANGED <<db, redis, tokens, local>>

\* Mutant: isValid is not looked at.
ReadRowIgnoringIsValid(r) ==
  /\ pc[r] = "row"
  /\ Goto(r, IF sess[r] \in expired THEN "expire"
             ELSE IF CacheInjected THEN "info" ELSE HandlerStart(r))
  /\ UNCHANGED <<db, redis, tokens, local>>

ReadRow(r) ==
  LET s == sess[r] IN
  /\ pc[r] = "row"
  /\ \/ (~valid[s] \/ owner[s] # UserOf(r)) /\ End(r)
     \/ /\ valid[s] /\ owner[s] = UserOf(r)
        /\ Goto(r, IF s \in expired THEN "expire"
                   ELSE IF CacheInjected THEN "info" ELSE HandlerStart(r))
        /\ UNCHANGED local
  /\ UNCHANGED <<db, redis, tokens>>

-----------------------------------------------------------------------------
(* logout.                                                                 *)

\* invalidateSingleSession, up to markSessionInvalidInCache.
KillOne(r) ==
  /\ pc[r] = "killOne"
  /\ Invalidate({sess[r]})
  /\ seen' = [seen EXCEPT ![r] = {sess[r]}]
  /\ Goto(r, FlagNext(r, {sess[r]}))
  /\ UNCHANGED <<owner, hash, expired, redis, tokens, job, sess, tok>>

ClearInfo(r) ==
  /\ pc[r] = "clear"
  /\ \/ userInfo' = userInfo \ {UserOf(r)}
     \/ CacheMayFail /\ UNCHANGED userInfo
  /\ Goto(r, "ok")
  /\ UNCHANGED <<db, flagged, tokens, local>>

-----------------------------------------------------------------------------
(* The environment.                                                        *)

\* An awaited statement rejects, the process dies, or the answer is lost.
Fail(r) ==
  /\ pc[r] \in Running
  /\ End(r)
  /\ UNCHANGED <<db, redis, tokens>>

\* expiresAt passes.
SessionExpires(s) ==
  /\ owner[s] # NoUser /\ s \notin expired
  /\ expired' = expired \cup {s}
  /\ UNCHANGED <<owner, valid, hash, redis, tokens, local, pc>>

\* The TTL of user_info runs out, or UserService deletes or overwrites the key
\* (getCachedUserInfo cannot parse what UserService writes).  A flag's TTL of 30
\* days outlives every access token of its session (15 minutes): flags stay.
InfoExpires(u) ==
  /\ u \in userInfo
  /\ userInfo' = userInfo \ {u}
  /\ UNCHANGED <<db, flagged, tokens, local, pc>>

LoginStep(r) ==
  \/ BeginLogin(r) \/ LoginFind(r) \/ LoginKill(r) \/ LoginCreate(r)
  \/ WriteHash(r) \/ WriteInfo(r) \/ Reply(r)

RefreshStep(r) ==
  \/ BeginRefresh(r) \/ BeginRefreshWithAccessToken(r)
  \/ RefreshRead(r) \/ ExpireSession(r)
  \/ FindAll(r) \/ KillAll(r) \/ Mark(r)

GuardedStep(r) ==
  \/ BeginGuarded(r) \/ CheckFlag(r) \/ ReadCachedInfo(r) \/ ReadRow(r)
  \/ KillOne(r) \/ ClearInfo(r)

Next ==
  \/ \E r \in Requests : LoginStep(r) \/ RefreshStep(r) \/ GuardedStep(r) \/ Fail(r)
  \/ \E s \in SessionIds : SessionExpires(s)
  \/ \E u \in Users : InfoExpires(u)

Spec == Init /\ [][Next]_vars

-----------------------------------------------------------------------------
(* Correctness.                                                            *)

\* A request has passed every check on its session.
Admitted(r) ==
  /\ Op(r) # "login"
  /\ pc[r] \in {"hash", "reply", "ok", "killOne", "findAll", "killAll", "mark",
                "clear", "theft", "info"}

\* Once a session is invalidated (logout, allDevices, detected theft, device
\* limit, expiry), no request that arrives later is let in or refreshed with it.
\* A request that was already running may still be.  A hit on user_info in
\* validateSession (CacheInjected) breaks this.
DeadSessionsStayOut == \A r \in Requests : Admitted(r) => sess[r] \in job[r].prior

\* When logout({allDevices}) or the answer "all sessions have been invalidated"
\* ends, none of the sessions the user had when the request arrived is valid,
\* whatever logins and refreshes ran in between (updateMany is by userId).
InvalidateAllIsComplete ==
  \A r \in Requests :
    (pc[r] = "theft" \/ (pc[r] = "ok" /\ Op(r) = "logoutAll"))
      => \A s \in job[r].prior : ~valid[s]

\* Refresh token rotation: a token whose hash has been replaced never becomes
\* the stored one again, although several refreshes of one session overwrite
\* each other's hash in any order.
RotationNeverReturns ==
  [][\A s \in SessionIds : hash'[s] # hash[s] => hash'[s] \notin stored]_vars

\* The requests together implement the ledger of SessionLedger: whatever they
\* interleave, a session row is created once and never revived, and the tokens
\* stored in it are pairwise different.
Ledger == INSTANCE SessionLedger WITH
  account <- owner,
  live    <- {s \in SessionIds : valid[s]},
  current <- hash,
  retired <- stored \ {hash[s] : s \in SessionIds}

ImplementsLedger == Ledger!Spec

\* invalidateExistingSessions reads, then writes, then createSession adds:
\* concurrent logins can pass the device limit, but only by the number of
\* requests that ran beside the login; one at a time, the limit is exact.
DeviceLimitUpToConcurrency ==
  MaxDevices > 0 =>
    \A u \in Users :
      Cardinality(LiveOf(u)) <= MaxDevices + Cardinality(Requests) - 1

\* A session_invalid flag is only ever set on an invalidated session: the cache
\* never refuses a session the database accepts.
FlagsOnlyDead == \A s \in flagged : ~valid[s]

\* auth.service.ts:298, "Token reuse detected": a refresh token that is answered
\* with this error has been used before.
TheftMeansReuse ==
  \A r \in Requests :
    (pc[r] = "theft" /\ tok[r] \in TokenIds)
      => \E c \in TokenIds : parent[c] = tok[r]
=============================================================================
