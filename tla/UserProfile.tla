----------------------------- MODULE UserProfile -----------------------------
(***************************************************************************)
(* UserService (src/user/user.service.ts) and its repository on the row of *)
(* one user and the key user_info:{id}, which caches that row: getProfile, *)
(* update, softDelete and restore, each with the getProfile its endpoint   *)
(* in user.controller.ts appends, and the login of a user whose name or    *)
(* picture changed at Google (handleGoogleLogin in src/auth/               *)
(* auth.service.ts), which updates the row and leaves the key alone.       *)
(*                                                                         *)
(* Each awaited database or Redis command is one action; requests run in   *)
(* several Node processes and interleave at every await.  A row is its     *)
(* version (name and picture) and whether deletedAt is set.  A cached row  *)
(* is JSON: its dates are strings.  The module models the service for the  *)
(* id it is given, whatever caller supplies it.  invalidateUserSessions    *)
(* only reads and deletes keys that nothing writes, and is left out.       *)
(***************************************************************************)
EXTENDS Integers

CONSTANTS
  Requests,      \* requests about the user that can be in flight together
  MaxVersion,    \* bound on the number of updates
  CacheMayFail,  \* may a Redis command fall back to its default?
  None

ASSUME MaxVersionAssumption == MaxVersion \in Nat
ASSUME CacheMayFailAssumption == CacheMayFail \in BOOLEAN

Rows == [version : 0 .. MaxVersion, deleted : BOOLEAN]

ASSUME NoneAssumption == None \notin Rows

VARIABLES
  row,       \* the User row
  cache,     \* user_info:{id}: the row it was written from, or None
  pc,        \* where each request is
  op,        \* its operation; "profile" once only getProfile is left
  got,       \* the row it has read or written, or None
  answer,    \* what the last request of each worker was answered
  suspects   \* history: requests that may have left, or may still write, a
             \* cached row other than the row

vars == <<row, cache, pc, op, got, answer, suspects>>

Ops == {"profile", "update", "login", "delete", "restore"}

\* r is on its way to write the row it holds to the cache.
Holds(r) == pc[r] = "set" \/ (pc[r] = "del" /\ op[r] = "update")

\* The types, and that a request about to write the cache holds a row to write.
TypeOK ==
  /\ row \in Rows
  /\ cache \in Rows \cup {None}
  /\ pc \in [Requests -> {"idle", "check", "write", "del", "set", "get", "read"}]
  /\ op \in [Requests -> Ops]
  /\ got \in [Requests -> Rows \cup {None}]
  /\ answer \in [Requests -> {"none", "done", "profile", "not found", "error"}]
  /\ suspects \subseteq Requests
  /\ \A r \in Requests : Holds(r) => got[r] # None

Init ==
  /\ row = [version |-> 0, deleted |-> FALSE]
  /\ cache = None
  /\ pc = [r \in Requests |-> "idle"]
  /\ op = [r \in Requests |-> "profile"]
  /\ got = [r \in Requests |-> None]
  /\ answer = [r \in Requests |-> "none"]
  /\ suspects = {}

-----------------------------------------------------------------------------
Goto(r, label) == pc' = [pc EXCEPT ![r] = label]

Finish(r, a) ==
  /\ Goto(r, "idle")
  /\ got' = [got EXCEPT ![r] = None]
  /\ answer' = [answer EXCEPT ![r] = a]

\* Once the key is gone only those matter that can still write it.
StillSuspect == {r \in suspects : Holds(r)}

\* The commands of CacheService (src/core/cache/cache.service.ts) on
\* user_info:{id}.  A failing one answers with its default, and so does every one
\* while Redis is not connected: the caller is not told.
CacheDel(r) ==
  \/ cache' = None /\ suspects' = StillSuspect
  \/ CacheMayFail /\ suspects' = suspects \cup {r} /\ UNCHANGED cache

CacheSet(r, value) ==
  \/ cache' = value /\ UNCHANGED suspects
  \/ CacheMayFail /\ suspects' = suspects \cup {r} /\ UNCHANGED cache

\* What get can return.
CacheGet == {cache} \cup (IF CacheMayFail THEN {None} ELSE {})

Begin(r) ==
  /\ pc[r] = "idle"
  /\ \E o \in Ops :
       /\ op' = [op EXCEPT ![r] = o]
       /\ Goto(r, IF o = "profile" THEN "get" ELSE "check")
  /\ answer' = [answer EXCEPT ![r] = "none"]
  /\ UNCHANGED <<row, cache, got, suspects>>

\* userRepository.findById, findDeletedById for restore, or the login's
\* findUnique, and its check; a login that brings nothing new writes nothing.
Check(r) ==
  /\ pc[r] = "check"
  /\ \/ row.deleted = (op[r] = "restore") /\ Goto(r, "write") /\ UNCHANGED <<got, answer>>
     \/ op[r] = "login" /\ ~row.deleted /\ Finish(r, "done")
     \/ row.deleted # (op[r] = "restore") /\ Finish(r, "not found")
  /\ UNCHANGED <<row, cache, op, suspects>>

\* The statement that changes the row: by id, whatever the row is now.
ChangeRow(r) ==
  \/ /\ op[r] \in {"update", "login"} /\ row.version < MaxVersion
     /\ row' = [row EXCEPT !.version = @ + 1]
  \/ op[r] = "delete" /\ row' = [row EXCEPT !.deleted = TRUE]
  \/ op[r] = "restore" /\ row' = [row EXCEPT !.deleted = FALSE]

\* The requests whose row this change makes an old one.
Overtaken(r) == {q \in Requests \ {r} : Holds(q)}

\* Mutant: what the repository returns is not kept.
WriteWithoutResult(r) ==
  /\ pc[r] = "write" /\ op[r] # "login"
  /\ ChangeRow(r)
  /\ Goto(r, IF op[r] = "restore" THEN "set" ELSE "del")
  /\ suspects' = suspects \cup Overtaken(r)
  /\ UNCHANGED <<cache, op, got, answer>>

\* userRepository.update, softDelete or restore, which keep what they return.
Write(r) ==
  /\ pc[r] = "write" /\ op[r] # "login"
  /\ ChangeRow(r)
  /\ got' = [got EXCEPT ![r] = row']
  /\ Goto(r, IF op[r] = "restore" THEN "set" ELSE "del")
  /\ suspects' = suspects \cup Overtaken(r)
  /\ UNCHANGED <<cache, op, answer>>

\* The login's prisma.user.update.  Nothing after it looks at user_info:{id}.
LoginWrite(r) ==
  /\ pc[r] = "write" /\ op[r] = "login"
  /\ ChangeRow(r)
  /\ suspects' = suspects \cup Overtaken(r) \cup {r}
  /\ Finish(r, "done")
  /\ UNCHANGED <<cache, op>>

\* Mutant: a deletion leaves the key to its TTL.
DelOnlyOnUpdate(r) ==
  /\ pc[r] = "del"
  /\ cache' = IF op[r] = "update" THEN None ELSE cache
  /\ suspects' = StillSuspect
  /\ IF op[r] = "update" THEN Goto(r, "set") /\ UNCHANGED <<got, answer>>
                         ELSE Finish(r, "done")
  /\ UNCHANGED <<row, op>>

\* cacheService.del of user_info, in update and at the end of softDelete.
Del(r) ==
  /\ pc[r] = "del"
  /\ CacheDel(r)
  /\ IF op[r] = "update" THEN Goto(r, "set") /\ UNCHANGED <<got, answer>>
                         ELSE Finish(r, "done")
  /\ UNCHANGED <<row, op>>

\* cacheService.set of the row the request holds.  getProfile then answers;
\* update and restore are followed by the controller's getProfile.
Set(r) ==
  /\ pc[r] = "set"
  /\ CacheSet(r, got[r])
  /\ IF op[r] = "profile" THEN Finish(r, "profile")
                          ELSE Goto(r, "get") /\ UNCHANGED <<got, answer>>
  /\ op' = [op EXCEPT ![r] = "profile"]
  /\ UNCHANGED row

\* findById looks in the cache.  On a hit getProfile calls toISOString on the
\* cached createdAt, a string, which throws.
Get(r) ==
  /\ pc[r] = "get"
  /\ \/ cache # None /\ Finish(r, "error")
     \/ /\ None \in CacheGet
        /\ Goto(r, "read") /\ UNCHANGED <<got, answer>>
  /\ UNCHANGED <<row, cache, op, suspects>>

\* findById reads the row on a miss.
Read(r) ==
  /\ pc[r] = "read"
  /\ \/ row.deleted /\ Finish(r, "not found")
     \/ /\ ~row.deleted
        /\ got' = [got EXCEPT ![r] = row]
        /\ Goto(r, "set") /\ UNCHANGED answer
  /\ UNCHANGED <<row, cache, op, suspects>>

\* An awaited statement rejects or the process dies: the rest is not run.
Fail(r) ==
  /\ pc[r] # "idle"
  /\ Finish(r, "none")
  /\ suspects' = IF pc[r] \in {"del", "set"} THEN suspects \cup {r} ELSE suspects
  /\ UNCHANGED <<row, cache, op>>

\* CACHE_TTL.USER_INFO runs out.
Expire ==
  /\ cache # None
  /\ cache' = None
  /\ suspects' = StillSuspect
  /\ UNCHANGED <<row, pc, op, got, answer>>

Next ==
  \/ Expire
  \/ \E r \in Requests :
       \/ Begin(r) \/ Check(r) \/ Write(r) \/ LoginWrite(r)
       \/ Del(r) \/ Set(r) \/ Get(r) \/ Read(r) \/ Fail(r)

Spec == Init /\ [][Next]_vars

-----------------------------------------------------------------------------
\* A request has written the row and has not yet brought the cache in line.
Pending(r) == pc[r] = "del" \/ (pc[r] = "set" /\ op[r] = "restore")

\* The cached user is the user in the database, except while the request that
\* changed the row is on its way to the cache, and after one of three things: the
\* row was changed under a request that then cached the row it held, a cache
\* write failed or was never reached, or a login changed the row.  Plain reads, in
\* any number, never make it stale, and the next deletion or expiry of the key ends
\* it.
StaleOnlyByRaceOrFailure ==
  \/ cache \in {None, row}
  \/ suspects # {}
  \/ \E r \in Requests : Pending(r)
=============================================================================
