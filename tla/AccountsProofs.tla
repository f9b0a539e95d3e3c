---------------------------- MODULE AccountsProofs ----------------------------
(***************************************************************************)
(* Proofs about Accounts for every set of requests, jobs, ids, persons and *)
(* addresses.                                                              *)
(***************************************************************************)
EXTENDS Accounts, TLAPS

\* What the first lookup has established by the time of the second, and both by
\* the time of the insert.
Lookups ==
  /\ \A r \in Requests : pc[r] \in {"email", "create"} =>
       \A u \in steady[r] : person[u] # who[r]
  /\ LookupsCoverKeys

Inv == TypeOK /\ OneAccountEach /\ Lookups

LEMMA InitInv == Init => Inv
BY DEF Init, Inv, TypeOK, OneAccountEach, Lookups, LookupsCoverKeys, Present, Live

LEMMA StepTypeOK == TypeOK /\ [Next]_vars => TypeOK'
<1> SUFFICES ASSUME TypeOK, [Next]_vars PROVE TypeOK'
  OBVIOUS
<1> USE DEF TypeOK, Goto, End, Live, Present, Expired, rows, local
<1>1. ASSUME NEW r \in Requests, BeginLogin(r) PROVE TypeOK'
  BY <1>1 DEF BeginLogin
<1>2. ASSUME NEW r \in Requests, BeginChange(r) PROVE TypeOK'
  BY <1>2 DEF BeginChange
<1>3. ASSUME NEW r \in Requests, FindByGoogleId(r) PROVE TypeOK'
  BY <1>3 DEF FindByGoogleId
<1>4. ASSUME NEW r \in Requests, FindByEmail(r) PROVE TypeOK'
  BY <1>4 DEF FindByEmail
<1>5. ASSUME NEW r \in Requests, Create(r) PROVE TypeOK'
  BY <1>5 DEF Create, Insert
<1>6. ASSUME NEW r \in Requests, OpenSession(r) PROVE TypeOK'
  BY <1>6 DEF OpenSession
<1>7. ASSUME NEW r \in Requests, Check(r) PROVE TypeOK'
  BY <1>7 DEF Check
<1>8. ASSUME NEW r \in Requests, Write(r) PROVE TypeOK'
  BY <1>8 DEF Write
<1>9. ASSUME NEW r \in Requests, Fail(r) PROVE TypeOK'
  BY <1>9 DEF Fail
<1>10. ASSUME NEW j \in Jobs, StartPurge(j) PROVE TypeOK'
  BY <1>10 DEF StartPurge
<1>11. ASSUME NEW j \in Jobs, PurgeSessions(j) PROVE TypeOK'
  BY <1>11 DEF PurgeSessions
<1>12. ASSUME NEW j \in Jobs, PurgeUsers(j) PROVE TypeOK'
  BY <1>12 DEF PurgeUsers
<1>13. ASSUME NEW j \in Jobs, PurgeFails(j) PROVE TypeOK'
  BY <1>13 DEF PurgeFails
<1>14. ASSUME NEW u \in UserIds, Age(u) PROVE TypeOK'
  BY <1>14 DEF Age
<1>15. CASE UNCHANGED vars
  BY <1>15 DEF vars
<1> QED
  BY <1>1, <1>2, <1>3, <1>4, <1>5, <1>6, <1>7, <1>8, <1>9, <1>10, <1>11, <1>12, <1>13,
     <1>14, <1>15
  DEF Next, LoginStep, ChangeStep, PurgeStep

\* The unique keys hold because an insert is checked against every row present.
LEMMA StepOneAccountEach == TypeOK /\ OneAccountEach /\ [Next]_vars => OneAccountEach'
<1> SUFFICES ASSUME TypeOK, OneAccountEach, [Next]_vars PROVE OneAccountEach'
  OBVIOUS
<1> USE DEF TypeOK, OneAccountEach, Present, Live, Expired, rows
<1>1. ASSUME NEW r \in Requests, BeginLogin(r) PROVE OneAccountEach'
  BY <1>1 DEF BeginLogin
<1>2. ASSUME NEW r \in Requests, BeginChange(r) PROVE OneAccountEach'
  BY <1>2 DEF BeginChange
<1>3. ASSUME NEW r \in Requests, FindByGoogleId(r) PROVE OneAccountEach'
  BY <1>3 DEF FindByGoogleId
<1>4. ASSUME NEW r \in Requests, FindByEmail(r) PROVE OneAccountEach'
  BY <1>4 DEF FindByEmail
<1>5. ASSUME NEW r \in Requests, Create(r) PROVE OneAccountEach'
  BY <1>5 DEF Create, Insert
<1>6. ASSUME NEW r \in Requests, OpenSession(r) PROVE OneAccountEach'
  BY <1>6 DEF OpenSession
<1>7. ASSUME NEW r \in Requests, Check(r) PROVE OneAccountEach'
  BY <1>7 DEF Check
<1>8. ASSUME NEW r \in Requests, Write(r) PROVE OneAccountEach'
  BY <1>8 DEF Write
<1>9. ASSUME NEW r \in Requests, Fail(r) PROVE OneAccountEach'
  BY <1>9 DEF Fail
<1>10. ASSUME NEW j \in Jobs, StartPurge(j) PROVE OneAccountEach'
  BY <1>10 DEF StartPurge
<1>11. ASSUME NEW j \in Jobs, PurgeSessions(j) PROVE OneAccountEach'
  BY <1>11 DEF PurgeSessions
<1>12. ASSUME NEW j \in Jobs, PurgeUsers(j) PROVE OneAccountEach'
  BY <1>12 DEF PurgeUsers
<1>13. ASSUME NEW j \in Jobs, PurgeFails(j) PROVE OneAccountEach'
  BY <1>13 DEF PurgeFails
<1>14. ASSUME NEW u \in UserIds, Age(u) PROVE OneAccountEach'
  BY <1>14 DEF Age
<1>15. CASE UNCHANGED vars
  BY <1>15 DEF vars
<1> QED
  BY <1>1, <1>2, <1>3, <1>4, <1>5, <1>6, <1>7, <1>8, <1>9, <1>10, <1>11, <1>12, <1>13,
     <1>14, <1>15
  DEF Next, LoginStep, ChangeStep, PurgeStep

\* Accounts that stay live keep their keys, so what a lookup has seen stays true.
LEMMA StepLookups == TypeOK /\ Lookups /\ [Next]_vars => Lookups'
<1> SUFFICES ASSUME TypeOK, Lookups, [Next]_vars PROVE Lookups'
  OBVIOUS
<1> USE DEF TypeOK, Lookups, LookupsCoverKeys, Goto, End, Live, Present, Expired, rows, local
<1>1. ASSUME NEW r \in Requests, BeginLogin(r) PROVE Lookups'
  BY <1>1 DEF BeginLogin
<1>2. ASSUME NEW r \in Requests, BeginChange(r) PROVE Lookups'
  BY <1>2 DEF BeginChange
<1>3. ASSUME NEW r \in Requests, FindByGoogleId(r) PROVE Lookups'
  BY <1>3 DEF FindByGoogleId
<1>4. ASSUME NEW r \in Requests, FindByEmail(r) PROVE Lookups'
  BY <1>4 DEF FindByEmail
<1>5. ASSUME NEW r \in Requests, Create(r) PROVE Lookups'
  BY <1>5 DEF Create, Insert
<1>6. ASSUME NEW r \in Requests, OpenSession(r) PROVE Lookups'
  BY <1>6 DEF OpenSession
<1>7. ASSUME NEW r \in Requests, Check(r) PROVE Lookups'
  BY <1>7 DEF Check
<1>8. ASSUME NEW r \in Requests, Write(r) PROVE Lookups'
  BY <1>8 DEF Write
<1>9. ASSUME NEW r \in Requests, Fail(r) PROVE Lookups'
  BY <1>9 DEF Fail
<1>10. ASSUME NEW j \in Jobs, StartPurge(j) PROVE Lookups'
  BY <1>10 DEF StartPurge
<1>11. ASSUME NEW j \in Jobs, PurgeSessions(j) PROVE Lookups'
  BY <1>11 DEF PurgeSessions
<1>12. ASSUME NEW j \in Jobs, PurgeUsers(j) PROVE Lookups'
  BY <1>12 DEF PurgeUsers
<1>13. ASSUME NEW j \in Jobs, PurgeFails(j) PROVE Lookups'
  BY <1>13 DEF PurgeFails
<1>14. ASSUME NEW u \in UserIds, Age(u) PROVE Lookups'
  BY <1>14 DEF Age
<1>15. CASE UNCHANGED vars
  BY <1>15 DEF vars
<1> QED
  BY <1>1, <1>2, <1>3, <1>4, <1>5, <1>6, <1>7, <1>8, <1>9, <1>10, <1>11, <1>12, <1>13,
     <1>14, <1>15
  DEF Next, LoginStep, ChangeStep, PurgeStep

\* The inductive invariant of the accounts.
THEOREM Invariance == Spec => []Inv
<1>1. Inv /\ [Next]_vars => Inv'
  BY StepTypeOK, StepOneAccountEach, StepLookups DEF Inv
<1> QED
  BY <1>1, InitInv, PTL DEF Spec

\* Types; sessions only refer to accounts that exist.
THEOREM TypeCorrect == Spec => []TypeOK
<1>1. Inv => TypeOK
  BY DEF Inv
<1> QED
  BY <1>1, Invariance, PTL

\* A person has one account, deleted accounts included.
THEOREM UniqueAccounts == Spec => []OneAccountEach
<1>1. Inv => OneAccountEach
  BY DEF Inv
<1> QED
  BY <1>1, Invariance, PTL

\* An insert does not collide with an account that was live all along.
THEOREM InsertsAreCovered == Spec => []LookupsCoverKeys
<1>1. Inv => LookupsCoverKeys
  BY DEF Inv, Lookups
<1> QED
  BY <1>1, Invariance, PTL

\* Only accounts deleted longer ago than the retention are purged.
THEOREM PurgesSpare == Spec => RetentionRespected
<1> DEFINE Spared ==
      \A u \in UserIds : mark'[u] = "purged" /\ mark[u] # "purged" => mark[u] = "beyond"
<1>1. TypeOK /\ [Next]_vars => [Spared]_vars
  <2> SUFFICES ASSUME TypeOK, [Next]_vars PROVE Spared
    OBVIOUS
  <2> USE DEF TypeOK, Present, Live, Expired, rows
  <2>1. ASSUME NEW r \in Requests, BeginLogin(r) PROVE Spared
    BY <2>1 DEF BeginLogin
  <2>2. ASSUME NEW r \in Requests, BeginChange(r) PROVE Spared
    BY <2>2 DEF BeginChange
  <2>3. ASSUME NEW r \in Requests, FindByGoogleId(r) PROVE Spared
    BY <2>3 DEF FindByGoogleId
  <2>4. ASSUME NEW r \in Requests, FindByEmail(r) PROVE Spared
    BY <2>4 DEF FindByEmail
  <2>5. ASSUME NEW r \in Requests, Create(r) PROVE Spared
    BY <2>5 DEF Create, Insert
  <2>6. ASSUME NEW r \in Requests, OpenSession(r) PROVE Spared
    BY <2>6 DEF OpenSession
  <2>7. ASSUME NEW r \in Requests, Check(r) PROVE Spared
    BY <2>7 DEF Check
  <2>8. ASSUME NEW r \in Requests, Write(r) PROVE Spared
    BY <2>8 DEF Write
  <2>9. ASSUME NEW r \in Requests, Fail(r) PROVE Spared
    BY <2>9 DEF Fail
  <2>10. ASSUME NEW j \in Jobs, StartPurge(j) PROVE Spared
    BY <2>10 DEF StartPurge
  <2>11. ASSUME NEW j \in Jobs, PurgeSessions(j) PROVE Spared
    BY <2>11 DEF PurgeSessions
  <2>12. ASSUME NEW j \in Jobs, PurgeUsers(j) PROVE Spared
    BY <2>12 DEF PurgeUsers
  <2>13. ASSUME NEW j \in Jobs, PurgeFails(j) PROVE Spared
    BY <2>13 DEF PurgeFails
  <2>14. ASSUME NEW u \in UserIds, Age(u) PROVE Spared
    BY <2>14 DEF Age
  <2>15. CASE UNCHANGED vars
    BY <2>15 DEF vars
  <2> QED
    BY <2>1, <2>2, <2>3, <2>4, <2>5, <2>6, <2>7, <2>8, <2>9, <2>10, <2>11, <2>12, <2>13,
       <2>14, <2>15
    DEF Next, LoginStep, ChangeStep, PurgeStep
<1> QED
  BY <1>1, TypeCorrect, PTL DEF Spec, RetentionRespected
=============================================================================
