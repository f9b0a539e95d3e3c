------------------------- MODULE AuthSessionsProofs -------------------------
(***************************************************************************)
(* Proofs about AuthSessions for every set of requests, users, sessions    *)
(* and tokens, every device limit, and with or without the cache.          *)
(***************************************************************************)
EXTENDS AuthSessions, FiniteSetTheorems, TLAPS

(***************************************************************************)
(* What holds of a request by where it is in its handler.                  *)
(***************************************************************************)
OpAtLabel(r) ==
  /\ pc[r] \in {"find", "kill", "create"} => Op(r) = "login"
  /\ pc[r] \in {"hash", "reply"} => Op(r) \in {"login", "refresh"}
  /\ pc[r] = "refresh" => Op(r) = "refresh"
  /\ pc[r] = "expire" => Op(r) \in Guarded \cup {"refresh"}
  /\ pc[r] \in {"findAll", "killAll"} => Op(r) \in {"refresh", "logoutAll"}
  /\ pc[r] = "theft" => Op(r) = "refresh"
  /\ pc[r] = "killOne" => Op(r) = "logout"
  /\ pc[r] = "clear" => Op(r) \in {"logout", "logoutAll"}
  /\ pc[r] \in {"flag", "cached", "row", "ok"} => Op(r) \in Guarded
  /\ pc[r] = "info" => Op(r) \in Guarded \cup {"login"}
  /\ pc[r] = "mark" => Op(r) \in {"login", "refresh", "logout", "logoutAll"}

\* A request past the signing of its token, until the token is delivered.
Signed(r) == pc[r] \in {"hash", "reply"} \/ (pc[r] = "info" /\ Op(r) = "login")

Shape ==
  /\ \A t \in TokenIds : tokenOf[t] # NoSession => owner[tokenOf[t]] # NoUser
  /\ \A t \in delivered \cup stored : tokenOf[t] # NoSession
  /\ \A r \in Requests : OpAtLabel(r)
  /\ \A r \in Requests : pc[r] # "idle" => UserOf(r) \in Users
  /\ \A r \in Requests :
       pc[r] # "idle" /\ Op(r) # "login" =>
         sess[r] \in SessionIds /\ owner[sess[r]] = UserOf(r)
  /\ \A r \in Requests :
       Signed(r) => tok[r] \in TokenIds /\ sess[r] \in SessionIds
                    /\ tokenOf[tok[r]] = sess[r]

\* The branch labels are program counters.
LEMMA LabelsTyped ==
  ASSUME NEW r
  PROVE  /\ AfterInvalidation(r) \in {"create", "theft", "clear", "ok"}
         /\ HandlerStart(r) \in {"killOne", "findAll", "ok"}
BY DEF AfterInvalidation, HandlerStart

LEMMA FlagLabelTyped ==
  ASSUME NEW r, NEW K
  PROVE  FlagNext(r, K) \in {"mark", "create", "theft", "clear", "ok"}
BY LabelsTyped DEF FlagNext

LEMMA InitTyped == Init => TypeOK
BY DEF Init, TypeOK, Ended, Running, Jobs, NoJob, Ops, Guarded

LEMMA StepTyped == TypeOK /\ Shape /\ [Next]_vars => TypeOK'
<1> SUFFICES ASSUME TypeOK, Shape, [Next]_vars PROVE TypeOK'
  OBVIOUS
<1> USE DEF TypeOK, Shape, Goto, Ended, Running, db, redis, tokens, local, Op, UserOf
<1>1. ASSUME NEW r \in Requests, BeginLogin(r) PROVE TypeOK'
  BY <1>1 DEF BeginLogin, Begin, Jobs, Ops, Guarded, LiveOf
<1>2. ASSUME NEW r \in Requests, LoginFind(r) PROVE TypeOK'
  BY <1>2 DEF LoginFind, LiveOf
<1>3. ASSUME NEW r \in Requests, LoginKill(r) PROVE TypeOK'
  BY <1>3, FlagLabelTyped DEF LoginKill, Invalidate
<1>4. ASSUME NEW r \in Requests, LoginCreate(r) PROVE TypeOK'
  BY <1>4 DEF LoginCreate, SignToken, Unused
<1>5. ASSUME NEW r \in Requests, WriteHash(r) PROVE TypeOK'
  BY <1>5 DEF WriteHash, Signed
<1>6. ASSUME NEW r \in Requests, WriteInfo(r) PROVE TypeOK'
  BY <1>6, LabelsTyped DEF WriteInfo, Signed, OpAtLabel, Guarded
<1>7. ASSUME NEW r \in Requests, Reply(r) PROVE TypeOK'
  BY <1>7 DEF Reply, End, Jobs, NoJob, Ops, Signed
<1>8. ASSUME NEW r \in Requests, BeginRefresh(r) PROVE TypeOK'
  BY <1>8 DEF BeginRefresh, Begin, Jobs, Ops, Guarded, LiveOf
<1>9. ASSUME NEW r \in Requests, BeginRefreshWithAccessToken(r) PROVE TypeOK'
  BY <1>9 DEF BeginRefreshWithAccessToken, Begin, Jobs, Ops, Guarded, LiveOf
<1>10. ASSUME NEW r \in Requests, RefreshRead(r) PROVE TypeOK'
  <2>1. CASE End(r) /\ UNCHANGED <<tokenOf, parent>>
    BY <1>10, <2>1
      DEF RefreshRead, SignToken, Unused, End, Jobs, NoJob, Ops, OpAtLabel, Guarded
  <2>2. CASE Goto(r, "expire") /\ UNCHANGED <<tokenOf, parent, local>>
    BY <1>10, <2>2
      DEF RefreshRead, SignToken, Unused, End, Jobs, NoJob, Ops, OpAtLabel, Guarded
  <2>3. CASE Goto(r, "findAll") /\ UNCHANGED <<tokenOf, parent, local>>
    BY <1>10, <2>3
      DEF RefreshRead, SignToken, Unused, End, Jobs, NoJob, Ops, OpAtLabel, Guarded
  <2>4. CASE /\ hash[sess[r]] = tok[r]
             /\ SignToken(r, sess[r], tok[r]) /\ Goto(r, "hash")
             /\ UNCHANGED <<job, sess, seen>>
    BY <1>10, <2>4
      DEF RefreshRead, SignToken, Unused, End, Jobs, NoJob, Ops, OpAtLabel, Guarded
  <2> QED
    BY <1>10, <2>1, <2>2, <2>3, <2>4 DEF RefreshRead
<1>11. ASSUME NEW r \in Requests, ExpireSession(r) PROVE TypeOK'
  BY <1>11 DEF ExpireSession, Invalidate, End, Jobs, NoJob, Ops
<1>12. ASSUME NEW r \in Requests, FindAll(r) PROVE TypeOK'
  BY <1>12, LabelsTyped DEF FindAll, LiveOf
<1>13. ASSUME NEW r \in Requests, KillAll(r) PROVE TypeOK'
  BY <1>13, FlagLabelTyped DEF KillAll, Invalidate
<1>14. ASSUME NEW r \in Requests, Mark(r) PROVE TypeOK'
  BY <1>14, FlagLabelTyped DEF Mark
<1>15. ASSUME NEW r \in Requests, BeginGuarded(r) PROVE TypeOK'
  BY <1>15 DEF BeginGuarded, Begin, Jobs, Ops, Guarded, LiveOf
<1>16. ASSUME NEW r \in Requests, CheckFlag(r) PROVE TypeOK'
  <2>1. CASE End(r)
    BY <1>16, <2>1 DEF CheckFlag, End, Jobs, NoJob, Ops
  <2>2. CASE Goto(r, "cached") /\ UNCHANGED local
    BY <1>16, <2>2 DEF CheckFlag, End, Jobs, NoJob, Ops
  <2> QED
    BY <1>16, <2>1, <2>2 DEF CheckFlag
<1>17. ASSUME NEW r \in Requests, ReadCachedInfo(r) PROVE TypeOK'
  BY <1>17, LabelsTyped DEF ReadCachedInfo
<1>18. ASSUME NEW r \in Requests, ReadRow(r) PROVE TypeOK'
  <2>1. CASE End(r)
    BY <1>18, <2>1, LabelsTyped DEF ReadRow, End, Jobs, NoJob, Ops
  <2>2. CASE UNCHANGED local
    BY <1>18, <2>2, LabelsTyped, SMTT(30) DEF ReadRow, End, Jobs, NoJob, Ops
  <2> QED
    BY <1>18, <2>1, <2>2 DEF ReadRow
<1>19. ASSUME NEW r \in Requests, KillOne(r) PROVE TypeOK'
  BY <1>19, FlagLabelTyped DEF KillOne, Invalidate, OpAtLabel, Guarded
<1>20. ASSUME NEW r \in Requests, ClearInfo(r) PROVE TypeOK'
  BY <1>20 DEF ClearInfo, OpAtLabel, Guarded
<1>21. ASSUME NEW r \in Requests, Fail(r) PROVE TypeOK'
  BY <1>21 DEF Fail, End, Jobs, NoJob, Ops
<1>22. ASSUME NEW s \in SessionIds, SessionExpires(s) PROVE TypeOK'
  BY <1>22 DEF SessionExpires
<1>23. ASSUME NEW u \in Users, InfoExpires(u) PROVE TypeOK'
  BY <1>23 DEF InfoExpires
<1>24. CASE UNCHANGED vars
  BY <1>24 DEF vars
<1> QED
  BY <1>1, <1>2, <1>3, <1>4, <1>5, <1>6, <1>7, <1>8, <1>9, <1>10, <1>11, <1>12, <1>13,
     <1>14, <1>15, <1>16, <1>17, <1>18, <1>19, <1>20, <1>21, <1>22, <1>23, <1>24
  DEF Next, LoginStep, RefreshStep, GuardedStep

\* Every variable keeps its type, whatever the requests do.
LEMMA StepShape == TypeOK /\ TypeOK' /\ Shape /\ [Next]_vars => Shape'
<1> SUFFICES ASSUME TypeOK, TypeOK', Shape, [Next]_vars PROVE Shape'
  OBVIOUS
<1> USE DEF TypeOK, Shape, OpAtLabel, Signed, Goto, Ended, Running, db, redis, tokens,
            local, Op, UserOf
<1>1. ASSUME NEW r \in Requests, BeginLogin(r) PROVE Shape'
  BY <1>1, NullsAssumption DEF BeginLogin, Begin, Jobs, Ops, Guarded, LiveOf
<1>2. ASSUME NEW r \in Requests, LoginFind(r) PROVE Shape'
  BY <1>2, NullsAssumption
    DEF LoginFind, LiveOf, AfterInvalidation, FlagNext, HandlerStart, Guarded
<1>3. ASSUME NEW r \in Requests, LoginKill(r) PROVE Shape'
  BY <1>3, NullsAssumption
    DEF LoginKill, Invalidate, AfterInvalidation, FlagNext, HandlerStart, Guarded
<1>4. ASSUME NEW r \in Requests, LoginCreate(r) PROVE Shape'
  BY <1>4, NullsAssumption
    DEF LoginCreate, SignToken, Unused, AfterInvalidation, FlagNext, HandlerStart,
        Guarded
<1>5. ASSUME NEW r \in Requests, WriteHash(r) PROVE Shape'
  BY <1>5, NullsAssumption DEF WriteHash, AfterInvalidation, FlagNext, HandlerStart, Guarded
<1>6. ASSUME NEW r \in Requests, WriteInfo(r) PROVE Shape'
  BY <1>6, NullsAssumption DEF WriteInfo, AfterInvalidation, FlagNext, HandlerStart, Guarded
<1>7. ASSUME NEW r \in Requests, Reply(r) PROVE Shape'
  BY <1>7, NullsAssumption
    DEF Reply, End, Jobs, NoJob, Ops, AfterInvalidation, FlagNext, HandlerStart, Guarded
<1>8. ASSUME NEW r \in Requests, BeginRefresh(r) PROVE Shape'
  BY <1>8, NullsAssumption DEF BeginRefresh, Begin, Jobs, Ops, Guarded, LiveOf
<1>9. ASSUME NEW r \in Requests, BeginRefreshWithAccessToken(r) PROVE Shape'
  BY <1>9, NullsAssumption
    DEF BeginRefreshWithAccessToken, Begin, Jobs, Ops, Guarded, LiveOf
<1>10. ASSUME NEW r \in Requests, RefreshRead(r) PROVE Shape'
  <2>1. CASE End(r) /\ UNCHANGED <<tokenOf, parent>>
    BY <1>10, <2>1, NullsAssumption
      DEF RefreshRead, SignToken, Unused, End, Jobs, NoJob, Ops, AfterInvalidation,
          FlagNext, HandlerStart, Guarded
  <2>2. CASE Goto(r, "expire") /\ UNCHANGED <<tokenOf, parent, local>>
    BY <1>10, <2>2, NullsAssumption
      DEF RefreshRead, SignToken, Unused, End, Jobs, NoJob, Ops, AfterInvalidation,
          FlagNext, HandlerStart, Guarded
  <2>3. CASE Goto(r, "findAll") /\ UNCHANGED <<tokenOf, parent, local>>
    BY <1>10, <2>3, NullsAssumption
      DEF RefreshRead, SignToken, Unused, End, Jobs, NoJob, Ops, AfterInvalidation,
          FlagNext, HandlerStart, Guarded
  <2>4. CASE /\ hash[sess[r]] = tok[r]
             /\ SignToken(r, sess[r], tok[r]) /\ Goto(r, "hash")
             /\ UNCHANGED <<job, sess, seen>>
    <3> USE <1>10, <2>4, NullsAssumption DEF RefreshRead
    <3>1. PICK t \in Unused : /\ tokenOf' = [tokenOf EXCEPT ![t] = sess[r]]
                              /\ tok' = [tok EXCEPT ![r] = t]
      BY <2>4 DEF SignToken
    <3>2. sess[r] \in SessionIds /\ owner[sess[r]] = UserOf(r) /\ UserOf(r) \in Users
      BY SMTT(30)
    <3>3. t \in TokenIds /\ tokenOf[t] = NoSession
      BY <3>1 DEF Unused
    <3>4. \A u \in TokenIds : tokenOf'[u] # NoSession => owner'[tokenOf'[u]] # NoUser
      BY <3>1, <3>2, <3>3, SMTT(30)
    <3>5. \A u \in delivered' \cup stored' : tokenOf'[u] # NoSession
      BY <3>1, <3>2, SMTT(30)
    <3>6. \A q \in Requests : OpAtLabel(q)'
      BY SMTT(30)
    <3>7. \A q \in Requests : pc'[q] # "idle" => UserOf(q)' \in Users
      BY SMTT(30)
    <3>8. \A q \in Requests :
            pc'[q] # "idle" /\ Op(q)' # "login"
            => sess'[q] \in SessionIds /\ owner'[sess'[q]] = UserOf(q)'
      BY SMTT(30)
    <3>9. \A q \in Requests :
            Signed(q)' => tok'[q] \in TokenIds /\ sess'[q] \in SessionIds
                          /\ tokenOf'[tok'[q]] = sess'[q]
      BY <3>1, <3>2, <3>3, SMTT(30)
    <3> HIDE <1>10, <2>4 DEF OpAtLabel, Signed, UserOf, Op
    <3> QED
      BY <3>4, <3>5, <3>6, <3>7, <3>8, <3>9
  <2> QED
    BY <1>10, <2>1, <2>2, <2>3, <2>4 DEF RefreshRead
<1>11. ASSUME NEW r \in Requests, ExpireSession(r) PROVE Shape'
  BY <1>11, NullsAssumption
    DEF ExpireSession, Invalidate, End, Jobs, NoJob, Ops, AfterInvalidation, FlagNext,
        HandlerStart, Guarded
<1>12. ASSUME NEW r \in Requests, FindAll(r) PROVE Shape'
  BY <1>12, NullsAssumption
    DEF FindAll, LiveOf, AfterInvalidation, FlagNext, HandlerStart, Guarded
<1>13. ASSUME NEW r \in Requests, KillAll(r) PROVE Shape'
  BY <1>13, NullsAssumption
    DEF KillAll, Invalidate, AfterInvalidation, FlagNext, HandlerStart, Guarded
<1>14. ASSUME NEW r \in Requests, Mark(r) PROVE Shape'
  BY <1>14, NullsAssumption DEF Mark, AfterInvalidation, FlagNext, HandlerStart, Guarded
<1>15. ASSUME NEW r \in Requests, BeginGuarded(r) PROVE Shape'
  BY <1>15, NullsAssumption DEF BeginGuarded, Begin, Jobs, Ops, Guarded, LiveOf
<1>16. ASSUME NEW r \in Requests, CheckFlag(r) PROVE Shape'
  <2>1. CASE End(r)
    BY <1>16, <2>1, NullsAssumption
      DEF CheckFlag, End, Jobs, NoJob, Ops, AfterInvalidation, FlagNext, HandlerStart,
          Guarded
  <2>2. CASE Goto(r, "cached") /\ UNCHANGED local
    BY <1>16, <2>2, NullsAssumption
      DEF CheckFlag, End, Jobs, NoJob, Ops, AfterInvalidation, FlagNext, HandlerStart,
          Guarded
  <2> QED
    BY <1>16, <2>1, <2>2 DEF CheckFlag
<1>17. ASSUME NEW r \in Requests, ReadCachedInfo(r) PROVE Shape'
  BY <1>17, NullsAssumption
    DEF ReadCachedInfo, AfterInvalidation, FlagNext, HandlerStart, Guarded
<1>18. ASSUME NEW r \in Requests, ReadRow(r) PROVE Shape'
  <2>1. CASE End(r)
    BY <1>18, <2>1, NullsAssumption
      DEF ReadRow, End, Jobs, NoJob, Ops, AfterInvalidation, FlagNext, HandlerStart,
          Guarded
  <2>2. CASE UNCHANGED local
    BY <1>18, <2>2, NullsAssumption
      DEF ReadRow, End, Jobs, NoJob, Ops, AfterInvalidation, FlagNext, HandlerStart,
          Guarded
  <2> QED
    BY <1>18, <2>1, <2>2 DEF ReadRow
<1>19. ASSUME NEW r \in Requests, KillOne(r) PROVE Shape'
  BY <1>19, NullsAssumption
    DEF KillOne, Invalidate, AfterInvalidation, FlagNext, HandlerStart, Guarded
<1>20. ASSUME NEW r \in Requests, ClearInfo(r) PROVE Shape'
  BY <1>20, NullsAssumption
    DEF ClearInfo, AfterInvalidation, FlagNext, HandlerStart, Guarded
<1>21. ASSUME NEW r \in Requests, Fail(r) PROVE Shape'
  BY <1>21, NullsAssumption
    DEF Fail, End, Jobs, NoJob, Ops, AfterInvalidation, FlagNext, HandlerStart, Guarded
<1>22. ASSUME NEW s \in SessionIds, SessionExpires(s) PROVE Shape'
  BY <1>22, NullsAssumption
    DEF SessionExpires, AfterInvalidation, FlagNext, HandlerStart, Guarded
<1>23. ASSUME NEW u \in Users, InfoExpires(u) PROVE Shape'
  BY <1>23, NullsAssumption
    DEF InfoExpires, AfterInvalidation, FlagNext, HandlerStart, Guarded
<1>24. CASE UNCHANGED vars
  BY <1>24 DEF vars
<1> QED
  BY <1>1, <1>2, <1>3, <1>4, <1>5, <1>6, <1>7, <1>8, <1>9, <1>10, <1>11, <1>12, <1>13,
     <1>14, <1>15, <1>16, <1>17, <1>18, <1>19, <1>20, <1>21, <1>22, <1>23, <1>24
  DEF Next, LoginStep, RefreshStep, GuardedStep

(***************************************************************************)
(* Rotation: the hash in a row is that of a token signed for the row; a    *)
(* request about to store its token is the only one that ever will.        *)
(***************************************************************************)
Hashes ==
  /\ \A s \in SessionIds :
       hash[s] # NoToken => hash[s] \in stored /\ tokenOf[hash[s]] = s
  /\ \A r \in Requests : pc[r] = "hash" => tok[r] \notin stored
  /\ \A r, q \in Requests :
       r # q /\ pc[r] = "hash" /\ pc[q] = "hash" => tok[r] # tok[q]

LEMMA StepHashes == TypeOK /\ Shape /\ Hashes /\ [Next]_vars => Hashes'
<1> SUFFICES ASSUME TypeOK, Shape, Hashes, [Next]_vars PROVE Hashes'
  OBVIOUS
<1> USE DEF TypeOK, Shape, Signed, OpAtLabel, Hashes, Goto, Op, UserOf, Ended, Running,
            db, redis, tokens, local
<1>1. ASSUME NEW r \in Requests, BeginLogin(r) PROVE Hashes'
  BY <1>1, NullsAssumption
    DEF BeginLogin, Begin, Jobs, Ops, Guarded, LiveOf, AfterInvalidation, FlagNext,
        HandlerStart
<1>2. ASSUME NEW r \in Requests, LoginFind(r) PROVE Hashes'
  BY <1>2, NullsAssumption
    DEF LoginFind, LiveOf, AfterInvalidation, FlagNext, HandlerStart, Guarded
<1>3. ASSUME NEW r \in Requests, LoginKill(r) PROVE Hashes'
  BY <1>3, NullsAssumption
    DEF LoginKill, Invalidate, AfterInvalidation, FlagNext, HandlerStart, Guarded
<1>4. ASSUME NEW r \in Requests, LoginCreate(r) PROVE Hashes'
  BY <1>4, NullsAssumption
    DEF LoginCreate, SignToken, Unused, AfterInvalidation, FlagNext, HandlerStart,
        Guarded
<1>5. ASSUME NEW r \in Requests, WriteHash(r) PROVE Hashes'
  BY <1>5, NullsAssumption DEF WriteHash, AfterInvalidation, FlagNext, HandlerStart, Guarded
<1>6. ASSUME NEW r \in Requests, WriteInfo(r) PROVE Hashes'
  BY <1>6, NullsAssumption DEF WriteInfo, AfterInvalidation, FlagNext, HandlerStart, Guarded
<1>7. ASSUME NEW r \in Requests, Reply(r) PROVE Hashes'
  BY <1>7, NullsAssumption
    DEF Reply, End, Jobs, NoJob, Ops, AfterInvalidation, FlagNext, HandlerStart, Guarded
<1>8. ASSUME NEW r \in Requests, BeginRefresh(r) PROVE Hashes'
  BY <1>8, NullsAssumption
    DEF BeginRefresh, Begin, Jobs, Ops, Guarded, LiveOf, AfterInvalidation, FlagNext,
        HandlerStart
<1>9. ASSUME NEW r \in Requests, BeginRefreshWithAccessToken(r) PROVE Hashes'
  BY <1>9, NullsAssumption
    DEF BeginRefreshWithAccessToken, Begin, Jobs, Ops, Guarded, LiveOf,
        AfterInvalidation, FlagNext, HandlerStart
<1>10. ASSUME NEW r \in Requests, RefreshRead(r) PROVE Hashes'
  <2>1. CASE End(r) /\ UNCHANGED <<tokenOf, parent>>
    BY <1>10, <2>1, NullsAssumption
      DEF RefreshRead, SignToken, Unused, End, Jobs, NoJob, Ops, AfterInvalidation,
          FlagNext, HandlerStart, Guarded
  <2>2. CASE Goto(r, "expire") /\ UNCHANGED <<tokenOf, parent, local>>
    BY <1>10, <2>2, NullsAssumption
      DEF RefreshRead, SignToken, Unused, End, Jobs, NoJob, Ops, AfterInvalidation,
          FlagNext, HandlerStart, Guarded
  <2>3. CASE Goto(r, "findAll") /\ UNCHANGED <<tokenOf, parent, local>>
    BY <1>10, <2>3, NullsAssumption
      DEF RefreshRead, SignToken, Unused, End, Jobs, NoJob, Ops, AfterInvalidation,
          FlagNext, HandlerStart, Guarded
  <2>4. CASE /\ hash[sess[r]] = tok[r]
             /\ SignToken(r, sess[r], tok[r]) /\ Goto(r, "hash")
             /\ UNCHANGED <<job, sess, seen>>
    BY <1>10, <2>4, NullsAssumption
      DEF RefreshRead, SignToken, Unused, End, Jobs, NoJob, Ops, AfterInvalidation,
          FlagNext, HandlerStart, Guarded
  <2> QED
    BY <1>10, <2>1, <2>2, <2>3, <2>4 DEF RefreshRead
<1>11. ASSUME NEW r \in Requests, ExpireSession(r) PROVE Hashes'
  BY <1>11, NullsAssumption
    DEF ExpireSession, Invalidate, End, Jobs, NoJob, Ops, AfterInvalidation, FlagNext,
        HandlerStart, Guarded
<1>12. ASSUME NEW r \in Requests, FindAll(r) PROVE Hashes'
  BY <1>12, NullsAssumption
    DEF FindAll, LiveOf, AfterInvalidation, FlagNext, HandlerStart, Guarded
<1>13. ASSUME NEW r \in Requests, KillAll(r) PROVE Hashes'
  BY <1>13, NullsAssumption
    DEF KillAll, Invalidate, AfterInvalidation, FlagNext, HandlerStart, Guarded
<1>14. ASSUME NEW r \in Requests, Mark(r) PROVE Hashes'
  BY <1>14, NullsAssumption DEF Mark, AfterInvalidation, FlagNext, HandlerStart, Guarded
<1>15. ASSUME NEW r \in Requests, BeginGuarded(r) PROVE Hashes'
  BY <1>15, NullsAssumption
    DEF BeginGuarded, Begin, Jobs, Ops, Guarded, LiveOf, AfterInvalidation, FlagNext,
        HandlerStart
<1>16. ASSUME NEW r \in Requests, CheckFlag(r) PROVE Hashes'
  <2>1. CASE End(r)
    BY <1>16, <2>1, NullsAssumption
      DEF CheckFlag, End, Jobs, NoJob, Ops, AfterInvalidation, FlagNext, HandlerStart,
          Guarded
  <2>2. CASE Goto(r, "cached") /\ UNCHANGED local
    BY <1>16, <2>2, NullsAssumption
      DEF CheckFlag, End, Jobs, NoJob, Ops, AfterInvalidation, FlagNext, HandlerStart,
          Guarded
  <2> QED
    BY <1>16, <2>1, <2>2 DEF CheckFlag
<1>17. ASSUME NEW r \in Requests, ReadCachedInfo(r) PROVE Hashes'
  BY <1>17, NullsAssumption
    DEF ReadCachedInfo, AfterInvalidation, FlagNext, HandlerStart, Guarded
<1>18. ASSUME NEW r \in Requests, ReadRow(r) PROVE Hashes'
  <2>1. CASE End(r)
    BY <1>18, <2>1, NullsAssumption
      DEF ReadRow, End, Jobs, NoJob, Ops, AfterInvalidation, FlagNext, HandlerStart,
          Guarded
  <2>2. CASE UNCHANGED local
    BY <1>18, <2>2, NullsAssumption
      DEF ReadRow, End, Jobs, NoJob, Ops, AfterInvalidation, FlagNext, HandlerStart,
          Guarded
  <2> QED
    BY <1>18, <2>1, <2>2 DEF ReadRow
<1>19. ASSUME NEW r \in Requests, KillOne(r) PROVE Hashes'
  BY <1>19, NullsAssumption
    DEF KillOne, Invalidate, AfterInvalidation, FlagNext, HandlerStart, Guarded
<1>20. ASSUME NEW r \in Requests, ClearInfo(r) PROVE Hashes'
  BY <1>20, NullsAssumption
    DEF ClearInfo, AfterInvalidation, FlagNext, HandlerStart, Guarded
<1>21. ASSUME NEW r \in Requests, Fail(r) PROVE Hashes'
  BY <1>21, NullsAssumption
    DEF Fail, End, Jobs, NoJob, Ops, AfterInvalidation, FlagNext, HandlerStart, Guarded
<1>22. ASSUME NEW s \in SessionIds, SessionExpires(s) PROVE Hashes'
  BY <1>22, NullsAssumption
    DEF SessionExpires, AfterInvalidation, FlagNext, HandlerStart, Guarded
<1>23. ASSUME NEW u \in Users, InfoExpires(u) PROVE Hashes'
  BY <1>23, NullsAssumption
    DEF InfoExpires, AfterInvalidation, FlagNext, HandlerStart, Guarded
<1>24. CASE UNCHANGED vars
  BY <1>24 DEF vars
<1> QED
  BY <1>1, <1>2, <1>3, <1>4, <1>5, <1>6, <1>7, <1>8, <1>9, <1>10, <1>11, <1>12, <1>13,
     <1>14, <1>15, <1>16, <1>17, <1>18, <1>19, <1>20, <1>21, <1>22, <1>23, <1>24
  DEF Next, LoginStep, RefreshStep, GuardedStep

(***************************************************************************)
(* Invalidation: what a request knows of the sessions its user had when it *)
(* arrived (prior) grows monotonically more dead.                          *)
(***************************************************************************)
AllInvalidated(r) ==
  \/ pc[r] = "theft"
  \/ Op(r) = "logoutAll" /\ pc[r] \in {"mark", "clear", "ok"}
  \/ Op(r) = "refresh" /\ pc[r] = "mark"

Deaths ==
  /\ \A s \in SessionIds : valid[s] => owner[s] # NoUser
  /\ \A r \in Requests : \A s \in job[r].prior :
       owner[s] # NoUser /\ owner[s] = UserOf(r)
  /\ \A r \in Requests :
       pc[r] # "idle" /\ Op(r) # "login" /\ valid[sess[r]]
         => sess[r] \in job[r].prior
  /\ \A r \in Requests : AllInvalidated(r) => \A s \in job[r].prior : ~valid[s]

LEMMA StepDeaths == TypeOK /\ Shape /\ Deaths /\ [Next]_vars => Deaths'
<1> SUFFICES ASSUME TypeOK, Shape, Deaths, [Next]_vars PROVE Deaths'
  OBVIOUS
<1> USE DEF TypeOK, Shape, OpAtLabel, Deaths, AllInvalidated, Invalidate, Goto, Op,
            UserOf, Ended, Running, db, redis, tokens, local
<1>1. ASSUME NEW r \in Requests, BeginLogin(r) PROVE Deaths'
  BY <1>1, NullsAssumption
    DEF BeginLogin, Begin, Jobs, Ops, Guarded, LiveOf, AfterInvalidation, FlagNext,
        HandlerStart
<1>2. ASSUME NEW r \in Requests, LoginFind(r) PROVE Deaths'
  BY <1>2, NullsAssumption
    DEF LoginFind, LiveOf, AfterInvalidation, FlagNext, HandlerStart, Guarded
<1>3. ASSUME NEW r \in Requests, LoginKill(r) PROVE Deaths'
  <2>1. \A s \in SessionIds : valid'[s] <=> valid[s] /\ s \notin seen[r]
    BY <1>3 DEF LoginKill, Invalidate
  <2>2. UNCHANGED <<owner, job, sess>> /\ pc' = [pc EXCEPT ![r] = pc'[r]]
    BY <1>3 DEF LoginKill
  <2>3. \A q \in Requests : \A s \in job'[q].prior : s \in SessionIds /\ owner[s] = job[q].user
    BY <2>2 DEF Jobs
  <2>4. \A q \in Requests : AllInvalidated(q)' => \A s \in job'[q].prior : ~valid'[s]
    BY <1>3, <2>1, <2>2, <2>3 DEF LoginKill, FlagNext, AfterInvalidation
  <2>5. \A q \in Requests : pc'[q] # "idle" => pc[q] # "idle"
    BY <1>3, <2>2 DEF LoginKill
  <2> QED
    BY <2>1, <2>2, <2>3, <2>4, <2>5
<1>4. ASSUME NEW r \in Requests, LoginCreate(r) PROVE Deaths'
  BY <1>4, NullsAssumption
    DEF LoginCreate, SignToken, Unused, AfterInvalidation, FlagNext, HandlerStart,
        Guarded, LiveOf
<1>5. ASSUME NEW r \in Requests, WriteHash(r) PROVE Deaths'
  BY <1>5, NullsAssumption
    DEF WriteHash, AfterInvalidation, FlagNext, HandlerStart, Guarded, LiveOf
<1>6. ASSUME NEW r \in Requests, WriteInfo(r) PROVE Deaths'
  BY <1>6, NullsAssumption
    DEF WriteInfo, AfterInvalidation, FlagNext, HandlerStart, Guarded, LiveOf
<1>7. ASSUME NEW r \in Requests, Reply(r) PROVE Deaths'
  BY <1>7, NullsAssumption
    DEF Reply, End, Jobs, NoJob, Ops, AfterInvalidation, FlagNext, HandlerStart,
        Guarded, LiveOf
<1>8. ASSUME NEW r \in Requests, BeginRefresh(r) PROVE Deaths'
  BY <1>8, NullsAssumption
    DEF BeginRefresh, Begin, Jobs, Ops, Guarded, LiveOf, AfterInvalidation, FlagNext,
        HandlerStart
<1>9. ASSUME NEW r \in Requests, BeginRefreshWithAccessToken(r) PROVE Deaths'
  BY <1>9, NullsAssumption
    DEF BeginRefreshWithAccessToken, Begin, Jobs, Ops, Guarded, LiveOf,
        AfterInvalidation, FlagNext, HandlerStart
<1>10. ASSUME NEW r \in Requests, RefreshRead(r) PROVE Deaths'
  <2>1. CASE End(r) /\ UNCHANGED <<tokenOf, parent>>
    BY <1>10, <2>1, NullsAssumption
      DEF RefreshRead, SignToken, Unused, End, Jobs, NoJob, Ops, AfterInvalidation,
          FlagNext, HandlerStart, Guarded, LiveOf
  <2>2. CASE Goto(r, "expire") /\ UNCHANGED <<tokenOf, parent, local>>
    BY <1>10, <2>2, NullsAssumption
      DEF RefreshRead, SignToken, Unused, End, Jobs, NoJob, Ops, AfterInvalidation,
          FlagNext, HandlerStart, Guarded, LiveOf
  <2>3. CASE Goto(r, "findAll") /\ UNCHANGED <<tokenOf, parent, local>>
    BY <1>10, <2>3, NullsAssumption
      DEF RefreshRead, SignToken, Unused, End, Jobs, NoJob, Ops, AfterInvalidation,
          FlagNext, HandlerStart, Guarded, LiveOf
  <2>4. CASE /\ hash[sess[r]] = tok[r]
             /\ SignToken(r, sess[r], tok[r]) /\ Goto(r, "hash")
             /\ UNCHANGED <<job, sess, seen>>
    BY <1>10, <2>4, NullsAssumption
      DEF RefreshRead, SignToken, Unused, End, Jobs, NoJob, Ops, AfterInvalidation,
          FlagNext, HandlerStart, Guarded, LiveOf
  <2> QED
    BY <1>10, <2>1, <2>2, <2>3, <2>4 DEF RefreshRead
<1>11. ASSUME NEW r \in Requests, ExpireSession(r) PROVE Deaths'
  BY <1>11, NullsAssumption
    DEF ExpireSession, Invalidate, End, Jobs, NoJob, Ops, AfterInvalidation, FlagNext,
        HandlerStart, Guarded, LiveOf
<1>12. ASSUME NEW r \in Requests, FindAll(r) PROVE Deaths'
  <2>1. UNCHANGED <<owner, valid, job, sess>> /\ pc' = [pc EXCEPT ![r] = pc'[r]]
    BY <1>12 DEF FindAll
  <2>2. ASSUME AllInvalidated(r)' PROVE \A s \in job[r].prior : ~valid[s]
    <3>1. LiveOf(UserOf(r)) = {}
      BY <1>12, <2>2 DEF FindAll
    <3> QED
      BY <3>1 DEF LiveOf, Jobs
  <2>3. pc[r] # "idle"
    BY <1>12 DEF FindAll
  <2> QED
    BY <2>1, <2>2, <2>3
<1>13. ASSUME NEW r \in Requests, KillAll(r) PROVE Deaths'
  <2>1. \A s \in SessionIds : valid'[s] <=> valid[s] /\ s \notin LiveOf(UserOf(r))
    BY <1>13 DEF KillAll, Invalidate
  <2>2. UNCHANGED <<owner, job, sess>> /\ pc' = [pc EXCEPT ![r] = pc'[r]]
    BY <1>13 DEF KillAll
  <2>3. \A q \in Requests : \A s \in job'[q].prior : s \in SessionIds /\ owner[s] = job[q].user
    BY <2>2 DEF Jobs
  <2>4. \A q \in Requests : AllInvalidated(q)' => \A s \in job'[q].prior : ~valid'[s]
    BY <1>13, <2>1, <2>2, <2>3 DEF KillAll, LiveOf
  <2>5. \A q \in Requests : pc'[q] # "idle" => pc[q] # "idle"
    BY <1>13, <2>2 DEF KillAll
  <2> QED
    BY <2>1, <2>2, <2>3, <2>4, <2>5
<1>14. ASSUME NEW r \in Requests, Mark(r) PROVE Deaths'
  BY <1>14, NullsAssumption
    DEF Mark, AfterInvalidation, FlagNext, HandlerStart, Guarded, LiveOf
<1>15. ASSUME NEW r \in Requests, BeginGuarded(r) PROVE Deaths'
  BY <1>15, NullsAssumption
    DEF BeginGuarded, Begin, Jobs, Ops, Guarded, LiveOf, AfterInvalidation, FlagNext,
        HandlerStart
<1>16. ASSUME NEW r \in Requests, CheckFlag(r) PROVE Deaths'
  <2>1. CASE End(r)
    BY <1>16, <2>1, NullsAssumption
      DEF CheckFlag, End, Jobs, NoJob, Ops, AfterInvalidation, FlagNext, HandlerStart,
          Guarded, LiveOf
  <2>2. CASE Goto(r, "cached") /\ UNCHANGED local
    BY <1>16, <2>2, NullsAssumption
      DEF CheckFlag, End, Jobs, NoJob, Ops, AfterInvalidation, FlagNext, HandlerStart,
          Guarded, LiveOf
  <2> QED
    BY <1>16, <2>1, <2>2 DEF CheckFlag
<1>17. ASSUME NEW r \in Requests, ReadCachedInfo(r) PROVE Deaths'
  BY <1>17, NullsAssumption
    DEF ReadCachedInfo, AfterInvalidation, FlagNext, HandlerStart, Guarded, LiveOf
<1>18. ASSUME NEW r \in Requests, ReadRow(r) PROVE Deaths'
  <2>1. CASE End(r)
    BY <1>18, <2>1, NullsAssumption
      DEF ReadRow, End, Jobs, NoJob, Ops, AfterInvalidation, FlagNext, HandlerStart,
          Guarded, LiveOf
  <2>2. CASE UNCHANGED local
    BY <1>18, <2>2, NullsAssumption
      DEF ReadRow, End, Jobs, NoJob, Ops, AfterInvalidation, FlagNext, HandlerStart,
          Guarded, LiveOf
  <2> QED
    BY <1>18, <2>1, <2>2 DEF ReadRow
<1>19. ASSUME NEW r \in Requests, KillOne(r) PROVE Deaths'
  <2>1. \A s \in SessionIds : valid'[s] <=> valid[s] /\ s \notin {sess[r]}
    BY <1>19 DEF KillOne, Invalidate
  <2>2. UNCHANGED <<owner, job, sess>> /\ pc' = [pc EXCEPT ![r] = pc'[r]]
    BY <1>19 DEF KillOne
  <2>3. \A q \in Requests : \A s \in job'[q].prior : s \in SessionIds /\ owner[s] = job[q].user
    BY <2>2 DEF Jobs
  <2>4. \A q \in Requests : AllInvalidated(q)' => \A s \in job'[q].prior : ~valid'[s]
    BY <1>19, <2>1, <2>2, <2>3 DEF KillOne, FlagNext, AfterInvalidation
  <2>5. \A q \in Requests : pc'[q] # "idle" => pc[q] # "idle"
    BY <1>19, <2>2 DEF KillOne
  <2> QED
    BY <2>1, <2>2, <2>3, <2>4, <2>5
<1>20. ASSUME NEW r \in Requests, ClearInfo(r) PROVE Deaths'
  BY <1>20, NullsAssumption
    DEF ClearInfo, AfterInvalidation, FlagNext, HandlerStart, Guarded, LiveOf
<1>21. ASSUME NEW r \in Requests, Fail(r) PROVE Deaths'
  BY <1>21, NullsAssumption
    DEF Fail, End, Jobs, NoJob, Ops, AfterInvalidation, FlagNext, HandlerStart, Guarded,
        LiveOf
<1>22. ASSUME NEW s \in SessionIds, SessionExpires(s) PROVE Deaths'
  BY <1>22, NullsAssumption
    DEF SessionExpires, AfterInvalidation, FlagNext, HandlerStart, Guarded, LiveOf
<1>23. ASSUME NEW u \in Users, InfoExpires(u) PROVE Deaths'
  BY <1>23, NullsAssumption
    DEF InfoExpires, AfterInvalidation, FlagNext, HandlerStart, Guarded, LiveOf
<1>24. CASE UNCHANGED vars
  BY <1>24 DEF vars
<1> QED
  BY <1>1, <1>2, <1>3, <1>4, <1>5, <1>6, <1>7, <1>8, <1>9, <1>10, <1>11, <1>12, <1>13,
     <1>14, <1>15, <1>16, <1>17, <1>18, <1>19, <1>20, <1>21, <1>22, <1>23, <1>24
  DEF Next, LoginStep, RefreshStep, GuardedStep

(***************************************************************************)
(* Flags: only sessions already invalidated are flagged.                   *)
(***************************************************************************)
Flags ==
  /\ \A s \in flagged : owner[s] # NoUser /\ ~valid[s]
  /\ \A r \in Requests : pc[r] = "mark" =>
       \A s \in seen[r] : owner[s] # NoUser /\ ~valid[s]
  /\ \A r \in Requests : pc[r] \in {"kill", "killAll"} =>
       \A s \in seen[r] : owner[s] # NoUser /\ owner[s] = UserOf(r)

LEMMA StepFlags == TypeOK /\ Shape /\ Flags /\ [Next]_vars => Flags'
<1> SUFFICES ASSUME TypeOK, Shape, Flags, [Next]_vars PROVE Flags'
  OBVIOUS
<1> USE DEF TypeOK, Shape, OpAtLabel, Flags, Invalidate, Goto, Op, UserOf, Ended,
            Running, db, redis, tokens, local
<1>1. ASSUME NEW r \in Requests, BeginLogin(r) PROVE Flags'
  BY <1>1, NullsAssumption
    DEF BeginLogin, Begin, Jobs, Ops, Guarded, LiveOf, AfterInvalidation, FlagNext,
        HandlerStart
<1>2. ASSUME NEW r \in Requests, LoginFind(r) PROVE Flags'
  <2>1. /\ UNCHANGED <<owner, valid, flagged, job>>
        /\ pc' = [pc EXCEPT ![r] = pc'[r]] /\ pc'[r] \in {"kill", "create"}
        /\ seen' = [seen EXCEPT ![r] = LiveOf(UserOf(r))]
    BY <1>2 DEF LoginFind
  <2>2. UserOf(r) \in Users /\ NoUser \notin Users
    BY <1>2, NullsAssumption DEF LoginFind
  <2>3. \A s \in seen'[r] : owner[s] # NoUser /\ owner[s] = UserOf(r)
    BY <2>1, <2>2 DEF LiveOf
  <2>4. \A q \in Requests \ {r} : pc'[q] = pc[q] /\ seen'[q] = seen[q]
    BY <2>1
  <2>5. \A q \in Requests : UserOf(q)' = UserOf(q)
    BY <2>1
  <2> HIDE DEF TypeOK, Shape, OpAtLabel, UserOf
  <2> QED
    BY <2>1, <2>3, <2>4, <2>5
<1>3. ASSUME NEW r \in Requests, LoginKill(r) PROVE Flags'
  BY <1>3, NullsAssumption, ZenonT(60)
    DEF LoginKill, Invalidate, AfterInvalidation, FlagNext, HandlerStart, Guarded,
        LiveOf
<1>4. ASSUME NEW r \in Requests, LoginCreate(r) PROVE Flags'
  BY <1>4, NullsAssumption
    DEF LoginCreate, SignToken, Unused, AfterInvalidation, FlagNext, HandlerStart,
        Guarded, LiveOf
<1>5. ASSUME NEW r \in Requests, WriteHash(r) PROVE Flags'
  BY <1>5, NullsAssumption
    DEF WriteHash, AfterInvalidation, FlagNext, HandlerStart, Guarded, LiveOf
<1>6. ASSUME NEW r \in Requests, WriteInfo(r) PROVE Flags'
  BY <1>6, NullsAssumption
    DEF WriteInfo, AfterInvalidation, FlagNext, HandlerStart, Guarded, LiveOf
<1>7. ASSUME NEW r \in Requests, Reply(r) PROVE Flags'
  BY <1>7, NullsAssumption
    DEF Reply, End, Jobs, NoJob, Ops, AfterInvalidation, FlagNext, HandlerStart,
        Guarded, LiveOf
<1>8. ASSUME NEW r \in Requests, BeginRefresh(r) PROVE Flags'
  BY <1>8, NullsAssumption
    DEF BeginRefresh, Begin, Jobs, Ops, Guarded, LiveOf, AfterInvalidation, FlagNext,
        HandlerStart
<1>9. ASSUME NEW r \in Requests, BeginRefreshWithAccessToken(r) PROVE Flags'
  BY <1>9, NullsAssumption
    DEF BeginRefreshWithAccessToken, Begin, Jobs, Ops, Guarded, LiveOf,
        AfterInvalidation, FlagNext, HandlerStart
<1>10. ASSUME NEW r \in Requests, RefreshRead(r) PROVE Flags'
  <2>1. CASE End(r) /\ UNCHANGED <<tokenOf, parent>>
    BY <1>10, <2>1, NullsAssumption
      DEF RefreshRead, SignToken, Unused, End, Jobs, NoJob, Ops, AfterInvalidation,
          FlagNext, HandlerStart, Guarded, LiveOf
  <2>2. CASE Goto(r, "expire") /\ UNCHANGED <<tokenOf, parent, local>>
    BY <1>10, <2>2, NullsAssumption
      DEF RefreshRead, SignToken, Unused, End, Jobs, NoJob, Ops, AfterInvalidation,
          FlagNext, HandlerStart, Guarded, LiveOf
  <2>3. CASE Goto(r, "findAll") /\ UNCHANGED <<tokenOf, parent, local>>
    BY <1>10, <2>3, NullsAssumption
      DEF RefreshRead, SignToken, Unused, End, Jobs, NoJob, Ops, AfterInvalidation,
          FlagNext, HandlerStart, Guarded, LiveOf
  <2>4. CASE /\ hash[sess[r]] = tok[r]
             /\ SignToken(r, sess[r], tok[r]) /\ Goto(r, "hash")
             /\ UNCHANGED <<job, sess, seen>>
    BY <1>10, <2>4, NullsAssumption
      DEF RefreshRead, SignToken, Unused, End, Jobs, NoJob, Ops, AfterInvalidation,
          FlagNext, HandlerStart, Guarded, LiveOf
  <2> QED
    BY <1>10, <2>1, <2>2, <2>3, <2>4 DEF RefreshRead
<1>11. ASSUME NEW r \in Requests, ExpireSession(r) PROVE Flags'
  BY <1>11, NullsAssumption
    DEF ExpireSession, Invalidate, End, Jobs, NoJob, Ops, AfterInvalidation, FlagNext,
        HandlerStart, Guarded, LiveOf
<1>12. ASSUME NEW r \in Requests, FindAll(r) PROVE Flags'
  BY <1>12, NullsAssumption
    DEF FindAll, LiveOf, AfterInvalidation, FlagNext, HandlerStart, Guarded
<1>13. ASSUME NEW r \in Requests, KillAll(r) PROVE Flags'
  <2>1. \A s \in SessionIds : valid'[s] <=> valid[s] /\ s \notin LiveOf(UserOf(r))
    BY <1>13 DEF KillAll, Invalidate
  <2>2. UNCHANGED <<owner, flagged, job, seen>> /\ pc' = [pc EXCEPT ![r] = pc'[r]]
    BY <1>13 DEF KillAll
  <2>3. \A s \in seen[r] : owner[s] # NoUser /\ ~valid'[s]
    BY <1>13, <2>1 DEF KillAll, LiveOf
  <2>4. pc'[r] \notin {"kill", "killAll"}
    BY <1>13, <2>2 DEF KillAll, FlagNext, AfterInvalidation
  <2> QED
    BY <2>1, <2>2, <2>3, <2>4
<1>14. ASSUME NEW r \in Requests, Mark(r) PROVE Flags'
  BY <1>14, NullsAssumption
    DEF Mark, AfterInvalidation, FlagNext, HandlerStart, Guarded, LiveOf
<1>15. ASSUME NEW r \in Requests, BeginGuarded(r) PROVE Flags'
  BY <1>15, NullsAssumption
    DEF BeginGuarded, Begin, Jobs, Ops, Guarded, LiveOf, AfterInvalidation, FlagNext,
        HandlerStart
<1>16. ASSUME NEW r \in Requests, CheckFlag(r) PROVE Flags'
  <2>1. CASE End(r)
    BY <1>16, <2>1, NullsAssumption
      DEF CheckFlag, End, Jobs, NoJob, Ops, AfterInvalidation, FlagNext, HandlerStart,
          Guarded, LiveOf
  <2>2. CASE Goto(r, "cached") /\ UNCHANGED local
    BY <1>16, <2>2, NullsAssumption
      DEF CheckFlag, End, Jobs, NoJob, Ops, AfterInvalidation, FlagNext, HandlerStart,
          Guarded, LiveOf
  <2> QED
    BY <1>16, <2>1, <2>2 DEF CheckFlag
<1>17. ASSUME NEW r \in Requests, ReadCachedInfo(r) PROVE Flags'
  BY <1>17, NullsAssumption
    DEF ReadCachedInfo, AfterInvalidation, FlagNext, HandlerStart, Guarded, LiveOf
<1>18. ASSUME NEW r \in Requests, ReadRow(r) PROVE Flags'
  <2>1. CASE End(r)
    BY <1>18, <2>1, NullsAssumption, SMTT(60)
      DEF ReadRow, End, Jobs, NoJob, Ops, AfterInvalidation, FlagNext, HandlerStart,
          Guarded, LiveOf
  <2>2. CASE UNCHANGED local
    BY <1>18, <2>2, NullsAssumption, SMTT(60)
      DEF ReadRow, End, Jobs, NoJob, Ops, AfterInvalidation, FlagNext, HandlerStart,
          Guarded, LiveOf
  <2> QED
    BY <1>18, <2>1, <2>2 DEF ReadRow
<1>19. ASSUME NEW r \in Requests, KillOne(r) PROVE Flags'
  <2>1. \A s \in SessionIds : valid'[s] <=> valid[s] /\ s # sess[r]
    BY <1>19 DEF KillOne, Invalidate
  <2>2. UNCHANGED <<owner, flagged, job>> /\ pc' = [pc EXCEPT ![r] = pc'[r]]
    BY <1>19 DEF KillOne
  <2>3. sess[r] \in SessionIds /\ owner[sess[r]] # NoUser
    BY <1>19, NullsAssumption DEF KillOne, Guarded
  <2>4. seen' = [seen EXCEPT ![r] = {sess[r]}]
    BY <1>19 DEF KillOne
  <2>5. pc'[r] \notin {"kill", "killAll"}
    BY <1>19, <2>2 DEF KillOne, FlagNext, AfterInvalidation
  <2> QED
    BY <2>1, <2>2, <2>3, <2>4, <2>5
<1>20. ASSUME NEW r \in Requests, ClearInfo(r) PROVE Flags'
  BY <1>20, NullsAssumption
    DEF ClearInfo, AfterInvalidation, FlagNext, HandlerStart, Guarded, LiveOf
<1>21. ASSUME NEW r \in Requests, Fail(r) PROVE Flags'
  BY <1>21, NullsAssumption
    DEF Fail, End, Jobs, NoJob, Ops, AfterInvalidation, FlagNext, HandlerStart, Guarded,
        LiveOf
<1>22. ASSUME NEW s \in SessionIds, SessionExpires(s) PROVE Flags'
  BY <1>22, NullsAssumption
    DEF SessionExpires, AfterInvalidation, FlagNext, HandlerStart, Guarded, LiveOf
<1>23. ASSUME NEW u \in Users, InfoExpires(u) PROVE Flags'
  BY <1>23, NullsAssumption
    DEF InfoExpires, AfterInvalidation, FlagNext, HandlerStart, Guarded, LiveOf
<1>24. CASE UNCHANGED vars
  BY <1>24 DEF vars
<1> QED
  BY <1>1, <1>2, <1>3, <1>4, <1>5, <1>6, <1>7, <1>8, <1>9, <1>10, <1>11, <1>12, <1>13,
     <1>14, <1>15, <1>16, <1>17, <1>18, <1>19, <1>20, <1>21, <1>22, <1>23, <1>24
  DEF Next, LoginStep, RefreshStep, GuardedStep

(***************************************************************************)
(* Admission without a cache: validateSession always reads the row.        *)
(***************************************************************************)
Admission ==
  /\ \A r \in Requests : pc[r] \notin {"flag", "cached", "info", "mark", "clear"}
  /\ DeadSessionsStayOut

LEMMA StepAdmission ==
  ~CacheInjected /\ TypeOK /\ Shape /\ Deaths /\ Admission /\ [Next]_vars => Admission'
<1> SUFFICES ASSUME ~CacheInjected, TypeOK, Shape, Deaths, Admission, [Next]_vars
             PROVE  Admission'
  OBVIOUS
<1> USE DEF TypeOK, Shape, OpAtLabel, Deaths, Admission, DeadSessionsStayOut, Admitted,
            Goto, Op, UserOf, Ended, Running, db, redis, tokens, local
<1>1. ASSUME NEW r \in Requests, BeginLogin(r) PROVE Admission'
  BY <1>1, NullsAssumption
    DEF BeginLogin, Begin, Jobs, Ops, Guarded, LiveOf, AfterInvalidation, FlagNext,
        HandlerStart
<1>2. ASSUME NEW r \in Requests, LoginFind(r) PROVE Admission'
  BY <1>2, NullsAssumption
    DEF LoginFind, LiveOf, AfterInvalidation, FlagNext, HandlerStart, Guarded
<1>3. ASSUME NEW r \in Requests, LoginKill(r) PROVE Admission'
  BY <1>3, NullsAssumption
    DEF LoginKill, Invalidate, AfterInvalidation, FlagNext, HandlerStart, Guarded,
        LiveOf
<1>4. ASSUME NEW r \in Requests, LoginCreate(r) PROVE Admission'
  BY <1>4, NullsAssumption
    DEF LoginCreate, SignToken, Unused, AfterInvalidation, FlagNext, HandlerStart,
        Guarded, LiveOf
<1>5. ASSUME NEW r \in Requests, WriteHash(r) PROVE Admission'
  BY <1>5, NullsAssumption
    DEF WriteHash, AfterInvalidation, FlagNext, HandlerStart, Guarded, LiveOf
<1>6. ASSUME NEW r \in Requests, WriteInfo(r) PROVE Admission'
  BY <1>6, NullsAssumption
    DEF WriteInfo, AfterInvalidation, FlagNext, HandlerStart, Guarded, LiveOf
<1>7. ASSUME NEW r \in Requests, Reply(r) PROVE Admission'
  BY <1>7, NullsAssumption
    DEF Reply, End, Jobs, NoJob, Ops, AfterInvalidation, FlagNext, HandlerStart,
        Guarded, LiveOf
<1>8. ASSUME NEW r \in Requests, BeginRefresh(r) PROVE Admission'
  BY <1>8, NullsAssumption
    DEF BeginRefresh, Begin, Jobs, Ops, Guarded, LiveOf, AfterInvalidation, FlagNext,
        HandlerStart
<1>9. ASSUME NEW r \in Requests, BeginRefreshWithAccessToken(r) PROVE Admission'
  BY <1>9, NullsAssumption
    DEF BeginRefreshWithAccessToken, Begin, Jobs, Ops, Guarded, LiveOf,
        AfterInvalidation, FlagNext, HandlerStart
<1>10. ASSUME NEW r \in Requests, RefreshRead(r) PROVE Admission'
  <2>1. CASE End(r) /\ UNCHANGED <<tokenOf, parent>>
    BY <1>10, <2>1, NullsAssumption
      DEF RefreshRead, SignToken, Unused, End, Jobs, NoJob, Ops, AfterInvalidation,
          FlagNext, HandlerStart, Guarded, LiveOf
  <2>2. CASE Goto(r, "expire") /\ UNCHANGED <<tokenOf, parent, local>>
    BY <1>10, <2>2, NullsAssumption
      DEF RefreshRead, SignToken, Unused, End, Jobs, NoJob, Ops, AfterInvalidation,
          FlagNext, HandlerStart, Guarded, LiveOf
  <2>3. CASE Goto(r, "findAll") /\ UNCHANGED <<tokenOf, parent, local>>
    BY <1>10, <2>3, NullsAssumption
      DEF RefreshRead, SignToken, Unused, End, Jobs, NoJob, Ops, AfterInvalidation,
          FlagNext, HandlerStart, Guarded, LiveOf
  <2>4. CASE /\ hash[sess[r]] = tok[r]
             /\ SignToken(r, sess[r], tok[r]) /\ Goto(r, "hash")
             /\ UNCHANGED <<job, sess, seen>>
    BY <1>10, <2>4, NullsAssumption
      DEF RefreshRead, SignToken, Unused, End, Jobs, NoJob, Ops, AfterInvalidation,
          FlagNext, HandlerStart, Guarded, LiveOf
  <2> QED
    BY <1>10, <2>1, <2>2, <2>3, <2>4 DEF RefreshRead
<1>11. ASSUME NEW r \in Requests, ExpireSession(r) PROVE Admission'
  BY <1>11, NullsAssumption
    DEF ExpireSession, Invalidate, End, Jobs, NoJob, Ops, AfterInvalidation, FlagNext,
        HandlerStart, Guarded, LiveOf
<1>12. ASSUME NEW r \in Requests, FindAll(r) PROVE Admission'
  BY <1>12, NullsAssumption
    DEF FindAll, LiveOf, AfterInvalidation, FlagNext, HandlerStart, Guarded
<1>13. ASSUME NEW r \in Requests, KillAll(r) PROVE Admission'
  BY <1>13, NullsAssumption
    DEF KillAll, Invalidate, AfterInvalidation, FlagNext, HandlerStart, Guarded, LiveOf
<1>14. ASSUME NEW r \in Requests, Mark(r) PROVE Admission'
  BY <1>14, NullsAssumption
    DEF Mark, AfterInvalidation, FlagNext, HandlerStart, Guarded, LiveOf
<1>15. ASSUME NEW r \in Requests, BeginGuarded(r) PROVE Admission'
  BY <1>15, NullsAssumption
    DEF BeginGuarded, Begin, Jobs, Ops, Guarded, LiveOf, AfterInvalidation, FlagNext,
        HandlerStart
<1>16. ASSUME NEW r \in Requests, CheckFlag(r) PROVE Admission'
  <2>1. CASE End(r)
    BY <1>16, <2>1, NullsAssumption
      DEF CheckFlag, End, Jobs, NoJob, Ops, AfterInvalidation, FlagNext, HandlerStart,
          Guarded, LiveOf
  <2>2. CASE Goto(r, "cached") /\ UNCHANGED local
    BY <1>16, <2>2, NullsAssumption
      DEF CheckFlag, End, Jobs, NoJob, Ops, AfterInvalidation, FlagNext, HandlerStart,
          Guarded, LiveOf
  <2> QED
    BY <1>16, <2>1, <2>2 DEF CheckFlag
<1>17. ASSUME NEW r \in Requests, ReadCachedInfo(r) PROVE Admission'
  BY <1>17, NullsAssumption
    DEF ReadCachedInfo, AfterInvalidation, FlagNext, HandlerStart, Guarded, LiveOf
<1>18. ASSUME NEW r \in Requests, ReadRow(r) PROVE Admission'
  <2>1. CASE End(r)
    BY <1>18, <2>1, NullsAssumption
      DEF ReadRow, End, Jobs, NoJob, Ops, AfterInvalidation, FlagNext, HandlerStart,
          Guarded, LiveOf
  <2>2. CASE UNCHANGED local
    BY <1>18, <2>2, NullsAssumption
      DEF ReadRow, End, Jobs, NoJob, Ops, AfterInvalidation, FlagNext, HandlerStart,
          Guarded, LiveOf
  <2> QED
    BY <1>18, <2>1, <2>2 DEF ReadRow
<1>19. ASSUME NEW r \in Requests, KillOne(r) PROVE Admission'
  BY <1>19, NullsAssumption
    DEF KillOne, Invalidate, AfterInvalidation, FlagNext, HandlerStart, Guarded, LiveOf
<1>20. ASSUME NEW r \in Requests, ClearInfo(r) PROVE Admission'
  BY <1>20, NullsAssumption
    DEF ClearInfo, AfterInvalidation, FlagNext, HandlerStart, Guarded, LiveOf
<1>21. ASSUME NEW r \in Requests, Fail(r) PROVE Admission'
  BY <1>21, NullsAssumption
    DEF Fail, End, Jobs, NoJob, Ops, AfterInvalidation, FlagNext, HandlerStart, Guarded,
        LiveOf
<1>22. ASSUME NEW s \in SessionIds, SessionExpires(s) PROVE Admission'
  BY <1>22, NullsAssumption
    DEF SessionExpires, AfterInvalidation, FlagNext, HandlerStart, Guarded, LiveOf
<1>23. ASSUME NEW u \in Users, InfoExpires(u) PROVE Admission'
  BY <1>23, NullsAssumption
    DEF InfoExpires, AfterInvalidation, FlagNext, HandlerStart, Guarded, LiveOf
<1>24. CASE UNCHANGED vars
  BY <1>24 DEF vars
<1> QED
  BY <1>1, <1>2, <1>3, <1>4, <1>5, <1>6, <1>7, <1>8, <1>9, <1>10, <1>11, <1>12, <1>13,
     <1>14, <1>15, <1>16, <1>17, <1>18, <1>19, <1>20, <1>21, <1>22, <1>23, <1>24
  DEF Next, LoginStep, RefreshStep, GuardedStep

(***************************************************************************)
(* The theorems.                                                           *)
(***************************************************************************)
Inv == TypeOK /\ Shape /\ Hashes /\ Deaths /\ Flags

LEMMA InitInv == Init => Inv
<1> SUFFICES ASSUME Init PROVE Inv
  OBVIOUS
<1>1. TypeOK
  BY InitTyped
<1>2. Shape
  BY NullsAssumption DEF Init, Shape, OpAtLabel, Signed, Op, UserOf, NoJob, Guarded
<1>3. Hashes
  BY DEF Init, Hashes
<1>4. Deaths
  BY DEF Init, Deaths, AllInvalidated, Op, UserOf, NoJob
<1>5. Flags
  BY DEF Init, Flags
<1> QED
  BY <1>1, <1>2, <1>3, <1>4, <1>5 DEF Inv

LEMMA StepInv == Inv /\ [Next]_vars => Inv'
BY StepTyped, StepShape, StepHashes, StepDeaths, StepFlags DEF Inv

LEMMA Invariance == Spec => []Inv
BY InitInv, StepInv, PTL DEF Spec

\* Every variable keeps its type, whatever the requests do.
THEOREM TypeCorrect == Spec => []TypeOK
<1>1. Inv => TypeOK
  BY DEF Inv
<1> QED
  BY <1>1, Invariance, PTL

\* A refresh token that has been rotated out never becomes current again.
THEOREM RotationIsFinal == Spec => RotationNeverReturns
<1>1. Inv /\ [Next]_vars =>
        [\A s \in SessionIds : hash'[s] # hash[s] => hash'[s] \notin stored]_vars
  <2> SUFFICES ASSUME Inv, Next, NEW s \in SessionIds, hash'[s] # hash[s]
               PROVE  hash'[s] \notin stored
    OBVIOUS
  <2>1. PICK r \in Requests : WriteHash(r)
    BY ZenonT(60) DEF Next, LoginStep, RefreshStep, GuardedStep, db, redis, tokens, BeginLogin,
       BeginRefresh, BeginRefreshWithAccessToken, BeginGuarded, Begin, LoginFind,
       LoginKill, LoginCreate, WriteInfo, Reply, RefreshRead, ExpireSession, FindAll,
       KillAll, Mark, CheckFlag, ReadCachedInfo, ReadRow, KillOne, ClearInfo, Fail,
       SessionExpires, InfoExpires
  <2>2. tok[r] \notin stored /\ sess[r] \in SessionIds
    BY <2>1 DEF Inv, Hashes, Shape, Signed, WriteHash
  <2> QED
    BY <2>1, <2>2 DEF WriteHash, Inv, TypeOK
<1> QED
  BY <1>1, Invariance, PTL DEF Spec, RotationNeverReturns

\* allDevices and the reaction to a detected theft leave no earlier session.
THEOREM InvalidationIsComplete == Spec => []InvalidateAllIsComplete
<1>1. Inv => InvalidateAllIsComplete
  BY DEF Inv, Deaths, AllInvalidated, InvalidateAllIsComplete
<1> QED
  BY <1>1, Invariance, PTL

\* The cache never flags a session that the database still accepts.
THEOREM FlagsAreSound == Spec => []FlagsOnlyDead
<1>1. Inv => FlagsOnlyDead
  BY DEF Inv, Flags, FlagsOnlyDead
<1> QED
  BY <1>1, Invariance, PTL

\* In the shipped wiring, where nothing calls setCacheService, an invalidated
\* session admits no request that arrives after the invalidation.
THEOREM DeadSessionsNeverAdmitted ==
  ASSUME ~CacheInjected
  PROVE  Spec => []DeadSessionsStayOut
<1>1. Init => Admission
  BY DEF Init, Admission, DeadSessionsStayOut, Admitted
<1>2. Inv /\ Inv' /\ Admission /\ [Next]_vars => Admission'
  BY StepAdmission DEF Inv
<1>3. Admission => DeadSessionsStayOut
  BY DEF Admission
<1> QED
  BY <1>1, <1>2, <1>3, Invariance, PTL DEF Spec

(***************************************************************************)
(* Refinement: each statement of the handlers is a step of the ledger or   *)
(* leaves it alone.                                                        *)
(***************************************************************************)
LEMMA QuietStep ==
  ASSUME UNCHANGED <<owner, valid, hash, stored>>
  PROVE  UNCHANGED Ledger!ledger
BY DEF Ledger!ledger

LEMMA CloseStep ==
  ASSUME TypeOK, NEW K, Invalidate(K), UNCHANGED <<owner, hash, stored>>
  PROVE  Ledger!Next
<1> DEFINE live == {s \in SessionIds : valid[s]}
<1>1. \A s \in SessionIds : valid'[s] <=> valid[s] /\ s \notin K
  BY DEF Invalidate
<1>2. {s \in SessionIds : valid'[s]} = live \ (K \cap live)
  BY <1>1
<1>3. Ledger!Close(K \cap live)
  BY <1>2 DEF Ledger!Close
<1> QED
  BY <1>3 DEF Ledger!Next, Ledger!Close

LEMMA OpenStep ==
  ASSUME TypeOK, Shape, NEW r \in Requests, LoginCreate(r)
  PROVE  Ledger!Next
<1>1. PICK s \in SessionIds :
        /\ owner[s] = NoUser
        /\ owner' = [owner EXCEPT ![s] = UserOf(r)]
        /\ valid' = [valid EXCEPT ![s] = TRUE]
  BY DEF LoginCreate
<1>2. UserOf(r) \in Users
  BY DEF Shape, LoginCreate
<1>3. {q \in SessionIds : valid'[q]} = {q \in SessionIds : valid[q]} \cup {s}
  BY <1>1 DEF TypeOK
<1>4. UNCHANGED <<hash, stored>>
  BY DEF LoginCreate
<1>5. Ledger!Open(s, UserOf(r))
  BY <1>1, <1>3, <1>4 DEF Ledger!Open
<1> QED
  BY <1>2, <1>5 DEF Ledger!Next, Ledger!Open

LEMMA RotateStep ==
  ASSUME Inv, NEW r \in Requests, WriteHash(r)
  PROVE  Ledger!Next
<1> DEFINE s == sess[r]
           t == tok[r]
           spent == stored \ {hash[q] : q \in SessionIds}
<1>1. /\ s \in SessionIds /\ t \in TokenIds
      /\ t \notin stored
      /\ owner[s] # NoUser
  BY NullsAssumption DEF Inv, Shape, Signed, Hashes, WriteHash
<1>2. /\ hash' = [hash EXCEPT ![s] = t]
      /\ stored' = stored \cup {t}
      /\ UNCHANGED <<owner, valid>>
  BY DEF WriteHash
<1>3. \A q \in SessionIds : hash[q] # t
  BY <1>1, NullsAssumption DEF Inv, Hashes
<1>4. \A q \in SessionIds : hash[q] = hash[s] /\ hash[s] # NoToken => q = s
  BY <1>1 DEF Inv, Hashes
<1>5. hash[s] # NoToken => hash[s] \in stored
  BY <1>1 DEF Inv, Hashes
<1>6. NoToken \notin stored
  BY NullsAssumption DEF Inv, TypeOK
<1>7. stored' \ {hash'[q] : q \in SessionIds} = spent \cup ({hash[s]} \ {NoToken})
  <2>1. \A q \in SessionIds : hash'[q] = IF q = s THEN t ELSE hash[q]
    BY <1>1, <1>2 DEF Inv, TypeOK
  <2>2. ASSUME NEW x PROVE x \in stored' \ {hash'[q] : q \in SessionIds}
                           <=> x \in spent \cup ({hash[s]} \ {NoToken})
    BY <1>1, <1>2, <1>3, <1>4, <1>5, <1>6, <2>1
  <2> QED
    BY <2>2
<1>8. Ledger!Rotate(s, t)
  BY <1>1, <1>2, <1>3, <1>7 DEF Ledger!Rotate
<1> QED
  BY <1>1, <1>8 DEF Ledger!Next, Ledger!Rotate

\* The service implements the ledger.
THEOREM Refinement == Spec => ImplementsLedger
<1>1. Init => Ledger!Init
  BY DEF Init, Ledger!Init
<1>2. Inv /\ [Next]_vars => [Ledger!Next]_(Ledger!ledger)
  <2> SUFFICES ASSUME Inv, [Next]_vars PROVE Ledger!Next \/ UNCHANGED Ledger!ledger
    OBVIOUS
  <2>1. ASSUME NEW r \in Requests, LoginKill(r) PROVE Ledger!Next
    BY <2>1, CloseStep DEF LoginKill, Inv, tokens
  <2>2. ASSUME NEW r \in Requests, ExpireSession(r) PROVE Ledger!Next
    BY <2>2, CloseStep DEF ExpireSession, Inv, tokens
  <2>3. ASSUME NEW r \in Requests, KillAll(r) PROVE Ledger!Next
    BY <2>3, CloseStep DEF KillAll, Inv, tokens
  <2>4. ASSUME NEW r \in Requests, KillOne(r) PROVE Ledger!Next
    BY <2>4, CloseStep DEF KillOne, Inv, tokens
  <2>5. ASSUME NEW r \in Requests, LoginCreate(r) PROVE Ledger!Next
    BY <2>5, OpenStep DEF Inv
  <2>6. ASSUME NEW r \in Requests, WriteHash(r) PROVE Ledger!Next
    BY <2>6, RotateStep
  <2>7. ASSUME NEW r \in Requests,
               \/ BeginLogin(r) \/ BeginRefresh(r)
               \/ BeginRefreshWithAccessToken(r) \/ BeginGuarded(r)
               \/ LoginFind(r) \/ WriteInfo(r) \/ Reply(r) \/ RefreshRead(r)
               \/ FindAll(r) \/ Mark(r) \/ CheckFlag(r) \/ ReadCachedInfo(r)
               \/ ReadRow(r) \/ ClearInfo(r) \/ Fail(r)
        PROVE  UNCHANGED Ledger!ledger
    BY <2>7, QuietStep DEF BeginLogin, BeginRefresh, BeginRefreshWithAccessToken,
       BeginGuarded, Begin, LoginFind, WriteInfo, Reply, RefreshRead, FindAll, Mark,
       CheckFlag, ReadCachedInfo, ReadRow, ClearInfo, Fail, db, tokens
  <2>8. ASSUME NEW s \in SessionIds, SessionExpires(s) PROVE UNCHANGED Ledger!ledger
    BY <2>8, QuietStep DEF SessionExpires, tokens
  <2>9. ASSUME NEW u \in Users, InfoExpires(u) PROVE UNCHANGED Ledger!ledger
    BY <2>9, QuietStep DEF InfoExpires, db, tokens
  <2>10. CASE UNCHANGED vars
    BY <2>10, QuietStep DEF vars, db, tokens
  <2> QED
    BY <2>1, <2>2, <2>3, <2>4, <2>5, <2>6, <2>7, <2>8, <2>9, <2>10
    DEF Next, LoginStep, RefreshStep, GuardedStep
<1> QED
  BY <1>1, <1>2, Invariance, PTL DEF Spec, ImplementsLedger, Ledger!Spec

(***************************************************************************)
(* The device limit, for one user.  L is the set of live sessions, P the   *)
(* logins that have read the sessions of the user and not yet created      *)
(* theirs, S what each of them read, and R those of P that invalidate      *)
(* nothing any more.                                                       *)
(***************************************************************************)

\* Fewer than MaxDevices of the live sessions are in K; the others were created by
\* different requests, and a login of one of these that is under way has seen what is
\* in K and what it had created itself.
Covers(L, P, S, K, m) ==
  /\ K \subseteq L /\ IsFiniteSet(K) /\ Cardinality(K) < MaxDevices
  /\ m \in Injection(L \ K, Requests)
  /\ \A x \in L \ K : m[x] \in P => K \subseteq S[m[x]] /\ x \in S[m[x]]

Limited(L, P, S, R) ==
  /\ \E K, m : Covers(L, P, S, K, m)
  /\ \A r, q \in P : S[r] \cap L \subseteq S[q] \/ S[q] \cap L \subseteq S[r]
  /\ \A r \in R : r \in P /\ IsFiniteSet(S[r] \cap L) /\ Cardinality(S[r] \cap L) < MaxDevices

\* What Limited means for the number of sessions.
LEMMA LimitedBounds ==
  ASSUME NEW L, NEW P, NEW S, NEW R, Limited(L, P, S, R)
  PROVE  IsFiniteSet(L) /\ Cardinality(L) <= MaxDevices + Cardinality(Requests) - 1
<1>1. PICK K, m : Covers(L, P, S, K, m)
  BY DEF Limited
<1>2. IsFiniteSet(L \ K) /\ Cardinality(L \ K) <= Cardinality(Requests)
  <2>1. m \in Injection(L \ K, Requests)
    BY <1>1 DEF Covers
  <2> QED
    BY <2>1, RequestsAssumption, FS_Injection
<1>3. /\ IsFiniteSet(K) /\ Cardinality(K) < MaxDevices
      /\ L = K \cup (L \ K) /\ K \cap (L \ K) = {}
  BY <1>1 DEF Covers
<1>4. /\ IsFiniteSet(L)
      /\ Cardinality(L)
           = Cardinality(K) + Cardinality(L \ K) - Cardinality(K \cap (L \ K))
  BY <1>2, <1>3, FS_Union
<1>5. Cardinality(K \cap (L \ K)) = 0
  BY <1>3, FS_EmptySet
<1>6. /\ Cardinality(K) \in Nat /\ Cardinality(L \ K) \in Nat /\ Cardinality(Requests) \in Nat
  BY <1>2, <1>3, RequestsAssumption, FS_CardinalityType
<1> QED
  BY <1>2, <1>3, <1>4, <1>5, <1>6, MaxDevicesAssumption

\* Sessions end, and logins end or have invalidated what they read.
LEMMA LimitedShrinks ==
  ASSUME NEW L, NEW P, NEW S, NEW R, Limited(L, P, S, R),
         NEW L2 \in SUBSET L, NEW P2 \in SUBSET P, NEW S2, NEW R2 \in SUBSET P2,
         \A r \in P2 : S2[r] \cap L2 = S[r] \cap L2,
         \A r \in R2 : r \in R \/ S2[r] \cap L2 = {},
         MaxDevices > 0
  PROVE  Limited(L2, P2, S2, R2)
<1>1. PICK K, m : Covers(L, P, S, K, m)
  BY DEF Limited
<1> DEFINE K2 == K \cap L2
           m2 == [x \in L2 \ K2 |-> m[x]]
<1>2. Covers(L2, P2, S2, K2, m2)
  <2>1. K2 \subseteq L2 /\ K2 \subseteq K /\ L2 \ K2 \subseteq L \ K
    BY <1>1 DEF Covers
  <2>2. IsFiniteSet(K2) /\ Cardinality(K2) < MaxDevices
    <3>1. IsFiniteSet(K) /\ Cardinality(K) < MaxDevices
      BY <1>1 DEF Covers
    <3>2. IsFiniteSet(K2) /\ Cardinality(K2) <= Cardinality(K)
      BY <2>1, <3>1, FS_Subset
    <3> QED
      BY <3>1, <3>2, FS_CardinalityType, MaxDevicesAssumption
  <2>3. m2 \in Injection(L2 \ K2, Requests)
    BY <1>1, <2>1 DEF Covers, Injection, IsInjective
  <2>4. ASSUME NEW x \in L2 \ K2, m2[x] \in P2
        PROVE  K2 \subseteq S2[m2[x]] /\ x \in S2[m2[x]]
    <3>1. K \subseteq S[m2[x]] /\ x \in S[m2[x]]
      BY <1>1, <2>1, <2>4 DEF Covers
    <3> QED
      BY <2>1, <2>4, <3>1
  <2> QED
    BY <2>1, <2>2, <2>3, <2>4 DEF Covers
<1>3. \A r, q \in P2 : S2[r] \cap L2 \subseteq S2[q] \/ S2[q] \cap L2 \subseteq S2[r]
  <2> SUFFICES ASSUME NEW r \in P2, NEW q \in P2
               PROVE  S2[r] \cap L2 \subseteq S2[q] \/ S2[q] \cap L2 \subseteq S2[r]
    OBVIOUS
  <2>1. S[r] \cap L \subseteq S[q] \/ S[q] \cap L \subseteq S[r]
    BY DEF Limited
  <2>2. S2[r] \cap L2 = S[r] \cap L2 /\ S2[q] \cap L2 = S[q] \cap L2
    OBVIOUS
  <2> QED
    BY <2>1, <2>2
<1>4. ASSUME NEW r \in R2
      PROVE  IsFiniteSet(S2[r] \cap L2) /\ Cardinality(S2[r] \cap L2) < MaxDevices
  <2>1. CASE S2[r] \cap L2 = {}
    BY <2>1, FS_EmptySet
  <2>2. CASE r \in R
    <3>1. IsFiniteSet(S[r] \cap L) /\ Cardinality(S[r] \cap L) < MaxDevices
      BY <2>2 DEF Limited
    <3>2. S2[r] \cap L2 \subseteq S[r] \cap L
      OBVIOUS
    <3>3. /\ IsFiniteSet(S2[r] \cap L2)
          /\ Cardinality(S2[r] \cap L2) <= Cardinality(S[r] \cap L)
      BY <3>1, <3>2, FS_Subset
    <3> QED
      BY <3>1, <3>3, FS_CardinalityType, MaxDevicesAssumption
  <2> QED
    BY <2>1, <2>2
<1> QED
  BY <1>2, <1>3, <1>4 DEF Limited

\* A login reads the sessions of the user.
LEMMA LimitedLooks ==
  ASSUME NEW L, NEW P, NEW S, NEW R, Limited(L, P, S, R),
         NEW r0, r0 \notin P, NEW S2, L \subseteq S2[r0],
         \A r \in P : S2[r] = S[r],
         NEW R2 \in SUBSET (R \cup {r0}),
         r0 \in R2 => Cardinality(L) < MaxDevices
  PROVE  Limited(L, P \cup {r0}, S2, R2)
<1>1. PICK K, m : Covers(L, P, S, K, m)
  BY DEF Limited
<1>2. Covers(L, P \cup {r0}, S2, K, m)
  BY <1>1 DEF Covers
<1>3. \A r, q \in P \cup {r0} : S2[r] \cap L \subseteq S2[q] \/ S2[q] \cap L \subseteq S2[r]
  BY DEF Limited
<1>4. ASSUME NEW r \in R2
      PROVE  /\ r \in P \cup {r0}
             /\ IsFiniteSet(S2[r] \cap L) /\ Cardinality(S2[r] \cap L) < MaxDevices
  <2>1. CASE r = r0
    <3>1. S2[r] \cap L = L
      BY <2>1
    <3> QED
      BY <1>4, <2>1, <3>1, LimitedBounds
  <2>2. CASE r # r0
    BY <1>4, <2>2 DEF Limited
  <2> QED
    BY <2>1, <2>2
<1> QED
  BY <1>2, <1>3, <1>4 DEF Limited

\* A login creates its session: if another session is its own, it saw that one, and
\* what it saw takes the place of K.
LEMMA LimitedGrows ==
  ASSUME NEW L, NEW P, NEW S, NEW R, Limited(L, P, S, R),
         NEW r0 \in R, r0 \in Requests, NEW x0, x0 \notin L,
         \A r \in P : x0 \notin S[r],
         NEW S2, \A r \in P \ {r0} : S2[r] = S[r],
         NEW R2 \in SUBSET (R \ {r0})
  PROVE  Limited(L \cup {x0}, P \ {r0}, S2, R2)
<1>1. PICK K, m : Covers(L, P, S, K, m)
  BY DEF Limited
<1>2. m \in [L \ K -> Requests] /\ \A x, y \in L \ K : m[x] = m[y] => x = y
  BY <1>1 DEF Covers, Injection, IsInjective
<1> DEFINE L2 == L \cup {x0}
           P2 == P \ {r0}
<1>3. \E K2, m2 : Covers(L2, P2, S2, K2, m2)
  <2>1. CASE \A x \in L \ K : m[x] # r0
    <3> DEFINE m2 == [x \in L2 \ K |-> IF x = x0 THEN r0 ELSE m[x]]
    <3>1. L2 \ K = (L \ K) \cup {x0}
      BY <1>1 DEF Covers
    <3>2. m2 \in Injection(L2 \ K, Requests)
      BY <1>2, <2>1, <3>1 DEF Injection, IsInjective
    <3>3. \A x \in L2 \ K : m2[x] \in P2 => K \subseteq S2[m2[x]] /\ x \in S2[m2[x]]
      BY <1>1, <3>1 DEF Covers
    <3>4. Covers(L2, P2, S2, K, m2)
      BY <1>1, <3>2, <3>3 DEF Covers
    <3> QED
      BY <3>4
  <2>2. ASSUME NEW x1 \in L \ K, m[x1] = r0
        PROVE  \E K2, m2 : Covers(L2, P2, S2, K2, m2)
    <3> DEFINE K2 == S[r0] \cap L
               m2 == [x \in L2 \ K2 |-> IF x = x0 THEN r0 ELSE m[x]]
    <3>1. r0 \in P /\ IsFiniteSet(K2) /\ Cardinality(K2) < MaxDevices
      BY DEF Limited
    <3>2. K \subseteq K2 /\ x1 \in K2
      BY <1>1, <2>2, <3>1 DEF Covers
    <3>3. L2 \ K2 = (L \ K2) \cup {x0} /\ L \ K2 \subseteq L \ K
      BY <3>2
    <3> HIDE DEF K2
    <3>4. \A x \in L \ K2 : m[x] # r0
      BY <1>2, <2>2, <3>2, <3>3
    <3>5. m2 \in Injection(L2 \ K2, Requests)
      BY <1>2, <3>3, <3>4 DEF Injection, IsInjective
    <3>6. ASSUME NEW x \in L2 \ K2, m2[x] \in P2
          PROVE  K2 \subseteq S2[m2[x]] /\ x \in S2[m2[x]]
      <4>1. x # x0 /\ x \in L \ K2 /\ m2[x] = m[x] /\ m[x] \in P /\ m[x] # r0
        BY <3>3, <3>4, <3>6
      <4>2. x \in S[m[x]] /\ S2[m[x]] = S[m[x]]
        BY <1>1, <3>3, <4>1 DEF Covers
      <4>3. K2 \subseteq S[m[x]]
        <5>1. S[r0] \cap L \subseteq S[m[x]] \/ S[m[x]] \cap L \subseteq S[r0]
          BY <3>1, <4>1 DEF Limited
        <5>2. x \notin S[r0]
          BY <4>1 DEF K2
        <5> QED
          BY <4>1, <4>2, <5>1, <5>2 DEF K2
      <4> QED
        BY <4>1, <4>2, <4>3
    <3>7. K2 \subseteq L2
      BY DEF K2
    <3>8. Covers(L2, P2, S2, K2, m2)
      BY <3>1, <3>5, <3>6, <3>7 DEF Covers
    <3> QED
      BY <3>8
  <2> QED
    BY <2>1, <2>2
<1>4. \A r \in P2 : S2[r] \cap L2 = S[r] \cap L
  OBVIOUS
<1>5. \A r, q \in P2 : S2[r] \cap L2 \subseteq S2[q] \/ S2[q] \cap L2 \subseteq S2[r]
  <2> SUFFICES ASSUME NEW r \in P2, NEW q \in P2
               PROVE  S2[r] \cap L2 \subseteq S2[q] \/ S2[q] \cap L2 \subseteq S2[r]
    OBVIOUS
  <2>1. S[r] \cap L \subseteq S[q] \/ S[q] \cap L \subseteq S[r]
    BY DEF Limited
  <2> QED
    BY <1>4, <2>1
<1>6. ASSUME NEW r \in R2
      PROVE  /\ r \in P2
             /\ IsFiniteSet(S2[r] \cap L2) /\ Cardinality(S2[r] \cap L2) < MaxDevices
  <2>1. r \in R /\ r \in P2
    BY DEF Limited
  <2>2. S2[r] \cap L2 = S[r] \cap L
    BY <1>4, <2>1
  <2> QED
    BY <2>1, <2>2 DEF Limited
<1> QED
  BY <1>3, <1>5, <1>6 DEF Limited

\* The logins that have read the sessions of the user and not yet created their own.
Waiting(r) == pc[r] \in {"kill", "mark", "create"} /\ Op(r) = "login"
Pending(u) == {r \in Requests : Waiting(r) /\ UserOf(r) = u}
Ready(u) == {r \in Pending(u) : pc[r] # "kill"}

Devices ==
  /\ \A u \in Users : Limited(LiveOf(u), Pending(u), seen, Ready(u))
  /\ \A r \in Requests : Waiting(r) => \A s \in seen[r] : owner[s] # NoUser

\* A step in which the login r reads no sessions and creates none.
Calm(r) ==
  Waiting(r)' =>
    /\ Waiting(r) /\ UserOf(r)' = UserOf(r)
    /\ seen'[r] \subseteq seen[r]
    /\ \A s \in seen[r] \ seen'[r] : ~valid'[s]
    /\ pc'[r] # "kill" => pc[r] # "kill" \/ \A s \in seen'[r] : ~valid'[s]

LEMMA CalmForUser ==
  ASSUME NEW u \in Users, MaxDevices > 0,
         Limited(LiveOf(u), Pending(u), seen, Ready(u)),
         LiveOf(u)' \subseteq LiveOf(u),
         \A r \in Requests : UserOf(r)' = u => Calm(r)
  PROVE  Limited(LiveOf(u), Pending(u), seen, Ready(u))'
<1> DEFINE L == LiveOf(u)
           P == Pending(u)
           R == Ready(u)
           L2 == LiveOf(u)'
           P2 == Pending(u)'
           R2 == Ready(u)'
<1>1. \A r \in P2 : Calm(r) /\ Waiting(r)' /\ r \in Requests
  BY DEF Pending
<1>2. P2 \subseteq P
  BY <1>1 DEF Pending, Calm
<1>3. R2 \subseteq P2
  BY DEF Ready
<1>4. ASSUME NEW r \in P2 PROVE seen'[r] \cap L2 = seen[r] \cap L2
  BY <1>1 DEF Calm, LiveOf
<1>5. ASSUME NEW r \in R2 PROVE r \in R \/ seen'[r] \cap L2 = {}
  BY <1>1, <1>2 DEF Ready, Calm, LiveOf
<1>6. Limited(L, P, seen, R)
  OBVIOUS
<1> HIDE DEF L, P, R, L2, P2, R2
<1>7. Limited(L2, P2, seen', R2)
  BY <1>2, <1>3, <1>4, <1>5, <1>6, LimitedShrinks DEF L, L2
<1> QED
  BY <1>7 DEF Limited, Covers, L2, P2, R2

LEMMA CalmStep ==
  ASSUME Devices, MaxDevices > 0, owner' = owner,
         \A s \in SessionIds : valid'[s] => valid[s],
         \A r \in Requests : Calm(r)
  PROVE  Devices'
<1>1. \A u \in Users : LiveOf(u)' \subseteq LiveOf(u)
  BY DEF LiveOf
<1>2. ASSUME NEW u \in Users PROVE Limited(LiveOf(u), Pending(u), seen, Ready(u))'
  BY <1>1, CalmForUser DEF Devices
<1>3. \A r \in Requests : Waiting(r)' => \A s \in seen'[r] : owner'[s] # NoUser
  BY DEF Devices, Calm
<1> QED
  BY <1>2, <1>3 DEF Devices

LEMMA FindStep ==
  ASSUME TypeOK, Shape, Deaths, Devices, MaxDevices > 0, NEW r0 \in Requests,
         LoginFind(r0)
  PROVE  Devices'
<1>0. PICK u0 \in Users : u0 = UserOf(r0)
  BY DEF Shape, LoginFind
<1>1. /\ Op(r0) = "login" /\ pc[r0] = "find"
      /\ UNCHANGED <<owner, valid, job>>
      /\ seen' = [seen EXCEPT ![r0] = LiveOf(u0)]
      /\ pc' = [pc EXCEPT ![r0] =
                   IF MaxDevices > 0 /\ Cardinality(LiveOf(u0)) >= MaxDevices
                   THEN "kill" ELSE "create"]
  BY <1>0 DEF LoginFind, Shape, OpAtLabel, Goto, db
<1>2. \A u : LiveOf(u)' = LiveOf(u)
  BY <1>1 DEF LiveOf
<1>3. \A r \in Requests \ {r0} :
         /\ pc'[r] = pc[r] /\ seen'[r] = seen[r] /\ UserOf(r)' = UserOf(r)
         /\ Waiting(r)' <=> Waiting(r)
  BY <1>0, <1>1 DEF TypeOK, Waiting, Op, UserOf
<1>4. /\ seen'[r0] = LiveOf(u0) /\ UserOf(r0)' = u0 /\ ~Waiting(r0) /\ Waiting(r0)'
      /\ pc'[r0] # "kill" => Cardinality(LiveOf(u0)) < MaxDevices
  <2>1. pc'[r0] = IF Cardinality(LiveOf(u0)) >= MaxDevices THEN "kill" ELSE "create"
    BY <1>1 DEF TypeOK
  <2>2. Limited(LiveOf(u0), Pending(u0), seen, Ready(u0))
    BY <1>1 DEF Devices
  <2>3. Cardinality(LiveOf(u0)) \in Nat
    BY <2>2, LimitedBounds, FS_CardinalityType
  <2>4. pc'[r0] # "kill" => Cardinality(LiveOf(u0)) < MaxDevices
    BY <2>1, <2>3, MaxDevicesAssumption
  <2>5. seen'[r0] = LiveOf(u0) /\ UserOf(r0)' = u0 /\ ~Waiting(r0)
    BY <1>0, <1>1 DEF TypeOK, Waiting, Op, UserOf
  <2>6. Waiting(r0)'
    BY <1>1, <2>1 DEF TypeOK, Waiting, Op
  <2> QED
    BY <2>4, <2>5, <2>6
<1>5. ASSUME NEW u \in Users, u # u0
      PROVE  Limited(LiveOf(u), Pending(u), seen, Ready(u))'
  <2>1. \A r \in Requests : UserOf(r)' = u => Calm(r)
    BY <1>3, <1>4, <1>5 DEF Calm
  <2>2. Limited(LiveOf(u), Pending(u), seen, Ready(u))
    BY DEF Devices
  <2> QED
    BY <1>2, <2>1, <2>2, CalmForUser
<1>6. Limited(LiveOf(u0), Pending(u0), seen, Ready(u0))'
  <2> DEFINE L == LiveOf(u0)
             P == Pending(u0)
             R == Ready(u0)
             L2 == LiveOf(u0)'
             P2 == Pending(u0)'
             R2 == Ready(u0)'
  <2>1. Limited(L, P, seen, R)
    BY <1>1 DEF Devices
  <2>2. P2 = P \cup {r0} /\ r0 \notin P
    BY <1>3, <1>4 DEF Pending
  <2>3. R2 \subseteq R \cup {r0}
    BY <1>3, <1>4 DEF Ready, Pending
  <2>4. r0 \in R2 => Cardinality(L) < MaxDevices
    BY <1>4 DEF Ready
  <2>5. \A r \in P : seen'[r] = seen[r]
    BY <1>3, <2>2 DEF Pending
  <2>6. L \subseteq seen'[r0] /\ L2 = L
    BY <1>2, <1>4
  <2> HIDE DEF L, P, R, L2, P2, R2
  <2>7. Limited(L2, P2, seen', R2)
    BY <2>1, <2>2, <2>3, <2>4, <2>5, <2>6, LimitedLooks
  <2> QED
    BY <2>7 DEF Limited, Covers, L2, P2, R2
<1>7. \A r \in Requests : Waiting(r)' => \A s \in seen'[r] : owner'[s] # NoUser
  BY <1>1, <1>3, <1>4, NullsAssumption DEF Devices, LiveOf
<1> QED
  BY <1>1, <1>5, <1>6, <1>7 DEF Devices

LEMMA CreateStep ==
  ASSUME TypeOK, Shape, Deaths, Devices, MaxDevices > 0, NEW r0 \in Requests,
         LoginCreate(r0)
  PROVE  Devices'
<1>0. PICK u0 \in Users : u0 = UserOf(r0)
  BY DEF Shape, LoginCreate
<1>1. /\ Op(r0) = "login" /\ pc[r0] = "create"
      /\ UNCHANGED <<job, seen>>
      /\ pc' = [pc EXCEPT ![r0] = "hash"]
  BY <1>0 DEF LoginCreate, Shape, OpAtLabel, Goto
<1>2. PICK x0 \in SessionIds : /\ owner[x0] = NoUser
                               /\ owner' = [owner EXCEPT ![x0] = u0]
                               /\ valid' = [valid EXCEPT ![x0] = TRUE]
  BY <1>0 DEF LoginCreate
<1>3. /\ \A u \in Users \ {u0} : LiveOf(u)' = LiveOf(u)
      /\ LiveOf(u0)' = LiveOf(u0) \cup {x0} /\ x0 \notin LiveOf(u0)
  BY <1>1, <1>2, NullsAssumption DEF LiveOf, TypeOK
<1>4. \A r \in Requests \ {r0} :
         /\ pc'[r] = pc[r] /\ seen'[r] = seen[r] /\ UserOf(r)' = UserOf(r)
         /\ Waiting(r)' <=> Waiting(r)
  BY <1>0, <1>1 DEF TypeOK, Waiting, Op, UserOf
<1>5. UserOf(r0)' = u0 /\ Waiting(r0) /\ ~Waiting(r0)' /\ pc[r0] # "kill"
  BY <1>0, <1>1 DEF TypeOK, Waiting, Op, UserOf
<1>6. ASSUME NEW u \in Users, u # u0
      PROVE  Limited(LiveOf(u), Pending(u), seen, Ready(u))'
  <2>1. \A r \in Requests : UserOf(r)' = u => Calm(r)
    BY <1>4, <1>5, <1>6 DEF Calm
  <2>2. Limited(LiveOf(u), Pending(u), seen, Ready(u))
    BY DEF Devices
  <2> QED
    BY <1>3, <1>6, <2>1, <2>2, CalmForUser
<1>7. Limited(LiveOf(u0), Pending(u0), seen, Ready(u0))'
  <2> DEFINE L == LiveOf(u0)
             P == Pending(u0)
             R == Ready(u0)
             L2 == LiveOf(u0)'
             P2 == Pending(u0)'
             R2 == Ready(u0)'
  <2>1. Limited(L, P, seen, R)
    BY <1>1 DEF Devices
  <2>2. P2 = P \ {r0}
    BY <1>4, <1>5 DEF Pending
  <2>3. r0 \in R /\ R2 \subseteq R \ {r0}
    BY <1>0, <1>4, <1>5 DEF Ready, Pending
  <2>4. \A r \in P : x0 \notin seen[r]
    BY <1>2 DEF Devices, Pending
  <2>5. \A r \in P \ {r0} : seen'[r] = seen[r]
    BY <1>1
  <2>6. L2 = L \cup {x0} /\ x0 \notin L
    BY <1>3
  <2> HIDE DEF L, P, R, L2, P2, R2
  <2>7. Limited(L2, P2, seen', R2)
    BY <2>1, <2>2, <2>3, <2>4, <2>5, <2>6, LimitedGrows
  <2> QED
    BY <2>7 DEF Limited, Covers, L2, P2, R2
<1>8. \A r \in Requests : Waiting(r)' => \A s \in seen'[r] : owner'[s] # NoUser
  BY <1>1, <1>2, <1>4, <1>5, NullsAssumption DEF Devices, TypeOK
<1> QED
  BY <1>1, <1>6, <1>7, <1>8 DEF Devices

LEMMA StepDevices ==
  ASSUME MaxDevices > 0
  PROVE  TypeOK /\ Shape /\ Deaths /\ Flags /\ Devices /\ [Next]_vars => Devices'
<1> SUFFICES ASSUME TypeOK, Shape, Deaths, Flags, Devices, [Next]_vars PROVE Devices'
  OBVIOUS
<1> DEFINE Quiet == /\ owner' = owner
                    /\ \A s \in SessionIds : valid'[s] => valid[s]
                    /\ \A r \in Requests : Calm(r)
<1>1. Quiet => Devices'
  BY CalmStep
<1> USE DEF TypeOK, Shape, OpAtLabel, Goto, Op, UserOf, Ended, Running, db, redis, tokens,
            local, Calm, Waiting
<1>2. ASSUME NEW r \in Requests,
             \/ BeginLogin(r) \/ BeginRefresh(r)
             \/ BeginRefreshWithAccessToken(r) \/ BeginGuarded(r)
      PROVE  Quiet
  BY <1>2 DEF BeginLogin, BeginRefresh, BeginRefreshWithAccessToken, BeginGuarded, Begin
<1>3. ASSUME NEW r \in Requests, LoginKill(r) PROVE Quiet
  BY <1>3 DEF LoginKill, Invalidate, FlagNext, AfterInvalidation
<1>4. ASSUME NEW r \in Requests, WriteHash(r) PROVE Quiet
  BY <1>4 DEF WriteHash
<1>5. ASSUME NEW r \in Requests, WriteInfo(r) PROVE Quiet
  BY <1>5, LabelsTyped DEF WriteInfo, Guarded
<1>6. ASSUME NEW r \in Requests, Reply(r) PROVE Quiet
  BY <1>6 DEF Reply, End
<1>7. ASSUME NEW r \in Requests, RefreshRead(r) PROVE Quiet
  <2>1. pc'[r] \notin {"kill", "mark", "create"}
    BY <1>7 DEF RefreshRead, End, SignToken
  <2>2. \A q \in Requests \ {r} : pc'[q] = pc[q] /\ job'[q] = job[q] /\ seen'[q] = seen[q]
    BY <1>7 DEF RefreshRead, End, SignToken
  <2> QED
    BY <1>7, <2>1, <2>2 DEF RefreshRead
<1>8. ASSUME NEW r \in Requests, ExpireSession(r) PROVE Quiet
  BY <1>8 DEF ExpireSession, End, Invalidate
<1>9. ASSUME NEW r \in Requests, FindAll(r) PROVE Quiet
  BY <1>9, LabelsTyped DEF FindAll
<1>10. ASSUME NEW r \in Requests, KillAll(r) PROVE Quiet
  BY <1>10, FlagLabelTyped DEF KillAll, Invalidate
<1>11. ASSUME NEW r \in Requests, Mark(r) PROVE Quiet
  BY <1>11, FlagLabelTyped DEF Mark, Flags
<1>12. ASSUME NEW r \in Requests, CheckFlag(r) PROVE Quiet
  BY <1>12 DEF CheckFlag, End
<1>13. ASSUME NEW r \in Requests, ReadCachedInfo(r) PROVE Quiet
  BY <1>13, LabelsTyped DEF ReadCachedInfo
<1>14. ASSUME NEW r \in Requests, ReadRow(r) PROVE Quiet
  BY <1>14, LabelsTyped DEF ReadRow, End
<1>15. ASSUME NEW r \in Requests, KillOne(r) PROVE Quiet
  BY <1>15, FlagLabelTyped DEF KillOne, Invalidate
<1>16. ASSUME NEW r \in Requests, ClearInfo(r) PROVE Quiet
  BY <1>16 DEF ClearInfo
<1>17. ASSUME NEW r \in Requests, Fail(r) PROVE Quiet
  BY <1>17 DEF Fail, End
<1>18. ASSUME NEW s \in SessionIds, SessionExpires(s) PROVE Quiet
  BY <1>18 DEF SessionExpires
<1>19. ASSUME NEW u \in Users, InfoExpires(u) PROVE Quiet
  BY <1>19 DEF InfoExpires
<1>20. CASE UNCHANGED vars
  <2>1. Quiet
    BY <1>20 DEF vars
  <2> QED
    BY <1>1, <2>1
<1> HIDE DEF Quiet
<1> QED
  BY <1>1, <1>2, <1>3, <1>4, <1>5, <1>6, <1>7, <1>8, <1>9, <1>10, <1>11, <1>12, <1>13,
     <1>14, <1>15, <1>16, <1>17, <1>18, <1>19, <1>20, FindStep, CreateStep
  DEF Next, LoginStep, RefreshStep, GuardedStep

LEMMA InitDevices ==
  ASSUME MaxDevices > 0
  PROVE  Init => Devices
<1> SUFFICES ASSUME Init PROVE Devices
  OBVIOUS
<1>1. /\ \A u : LiveOf(u) = {} /\ Pending(u) = {} /\ Ready(u) = {}
      /\ \A r \in Requests : ~Waiting(r)
  BY DEF Init, LiveOf, Pending, Ready, Waiting
<1>2. ASSUME NEW S PROVE Limited({}, {}, S, {})
  <2> DEFINE m == [x \in {} \ {} |-> x]
  <2>1. m \in Injection({} \ {}, Requests)
    BY DEF Injection, IsInjective
  <2>2. IsFiniteSet({}) /\ Cardinality({}) < MaxDevices
    BY FS_EmptySet
  <2> HIDE DEF m
  <2>3. Covers({}, {}, S, {}, m)
    BY <2>1, <2>2 DEF Covers
  <2> QED
    BY <2>3 DEF Limited
<1> QED
  BY <1>1, <1>2 DEF Devices

\* At no time does a user have more live sessions than the limit plus one for every
\* request that can run beside a login.
THEOREM DeviceLimitHolds == Spec => []DeviceLimitUpToConcurrency
<1>1. ASSUME MaxDevices > 0 PROVE Spec => []DeviceLimitUpToConcurrency
  <2>1. Init => Devices
    BY <1>1, InitDevices
  <2>2. Inv /\ Devices /\ [Next]_vars => Devices'
    BY <1>1, StepDevices DEF Inv
  <2>3. Devices => DeviceLimitUpToConcurrency
    BY LimitedBounds DEF Devices, DeviceLimitUpToConcurrency
  <2> QED
    BY <2>1, <2>2, <2>3, Invariance, PTL DEF Spec
<1>2. ASSUME ~(MaxDevices > 0) PROVE Spec => []DeviceLimitUpToConcurrency
  <2>1. DeviceLimitUpToConcurrency
    BY <1>2 DEF DeviceLimitUpToConcurrency
  <2> QED
    BY <2>1, PTL
<1> QED
  BY <1>1, <1>2
=============================================================================
