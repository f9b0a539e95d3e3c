------------------------------- MODULE Accounts -------------------------------
(***************************************************************************)
(* The rows of User: the account part of handleGoogleLogin                 *)
(* (src/auth/auth.service.ts), deletion and restoration (UserService and   *)
(* its repository), the soft-delete middleware every query passes, and the *)
(* nightly purge (src/core/database/delete-migration.service.ts), which    *)
(* the scheduler runs in each process PM2 starts.                          *)
(*                                                                         *)
(* Each awaited statement is one action.  Of UserSession only this is      *)
(* kept: which accounts have rows there.  No code sets UserSession's       *)
(* deletedAt, and its userId is a foreign key without a cascade.  What the *)
(* sessions are is AuthSessions; the name, the picture and their cache are *)
(* UserProfile.                                                            *)
(***************************************************************************)
CONSTANTS
  Requests,   \* logins, deletions and restorations in flight together
  Jobs,       \* processes that run the nightly purge
  UserIds, Persons, Emails,
  NoUser, NoPerson, NoEmail

ASSUME NullsAssumption ==
  NoUser \notin UserIds /\ NoPerson \notin Persons /\ NoEmail \notin Emails

VARIABLES
  person,       \* googleId of each row, unique
  email,        \* email of each row, unique
  mark,         \* "unused" id; "live"; deletedAt within the retention or beyond
  withSession,  \* accounts to which a row of UserSession refers
  pc,           \* where each request is
  op,           \* its operation
  who, mail,    \* the Google profile of a login
  acct,         \* the account a request is about
  job,          \* where each purge is
  steady        \* history: accounts that have been live since the request began

rows == <<person, email, mark>>
local == <<op, who, mail, acct>>
vars == <<rows, withSession, pc, local, job, steady>>

Live == {u \in UserIds : mark[u] = "live"}
Expired == {u \in UserIds : mark[u] = "beyond"}
Present == {u \in UserIds : mark[u] \in {"live", "within", "beyond"}}

TypeOK ==
  /\ person \in [UserIds -> Persons \cup {NoPerson}]
  /\ email \in [UserIds -> Emails \cup {NoEmail}]
  /\ mark \in [UserIds -> {"unused", "live", "within", "beyond", "purged"}]
  /\ withSession \subseteq Present
  /\ pc \in [Requests -> {"idle", "find", "email", "create", "session", "check", "write"}]
  /\ op \in [Requests -> {"login", "delete", "restore"}]
  /\ who \in [Requests -> Persons \cup {NoPerson}]
  /\ mail \in [Requests -> Emails \cup {NoEmail}]
  /\ acct \in [Requests -> UserIds \cup {NoUser}]
  /\ job \in [Jobs -> {"idle", "sessions", "users"}]
  /\ steady \in [Requests -> SUBSET Live]

Init ==
  /\ person = [u \in UserIds |-> NoPerson]
  /\ email = [u \in UserIds |-> NoEmail]
  /\ mark = [u \in UserIds |-> "unused"]
  /\ withSession = {}
  /\ pc = [r \in Requests |-> "idle"]
  /\ op = [r \in Requests |-> "login"]
  /\ who = [r \in Requests |-> NoPerson]
  /\ mail = [r \in Requests |-> NoEmail]
  /\ acct = [r \in Requests |-> NoUser]
  /\ job = [j \in Jobs |-> "idle"]
  /\ steady = [r \in Requests |-> {}]

-----------------------------------------------------------------------------
Goto(r, label) == pc' = [pc EXCEPT ![r] = label]

\* The request is answered, refused or fails.
End(r) ==
  /\ Goto(r, "idle")
  /\ op' = [op EXCEPT ![r] = "login"]
  /\ who' = [who EXCEPT ![r] = NoPerson]
  /\ mail' = [mail EXCEPT ![r] = NoEmail]
  /\ acct' = [acct EXCEPT ![r] = NoUser]
  /\ steady' = [steady EXCEPT ![r] = {}]

\* Google's callback: a person, with the address the Google account has today.
BeginLogin(r) ==
  /\ pc[r] = "idle"
  /\ \E p \in Persons, e \in Emails :
       who' = [who EXCEPT ![r] = p] /\ mail' = [mail EXCEPT ![r] = e]
  /\ Goto(r, "find")
  /\ steady' = [steady EXCEPT ![r] = Live]
  /\ UNCHANGED <<rows, withSession, op, acct, job>>

\* softDelete or restore, of whatever id the service is given.
BeginChange(r) ==
  /\ pc[r] = "idle"
  /\ \E o \in {"delete", "restore"}, u \in Present :
       op' = [op EXCEPT ![r] = o] /\ acct' = [acct EXCEPT ![r] = u]
  /\ Goto(r, "check")
  /\ UNCHANGED <<rows, withSession, who, mail, job, steady>>

\* findUnique by googleId; the middleware hides deleted rows.
FindByGoogleId(r) ==
  /\ pc[r] = "find"
  /\ \/ \E u \in Live :
          /\ person[u] = who[r]
          /\ acct' = [acct EXCEPT ![r] = u]
          /\ Goto(r, "session")
     \/ /\ \A u \in Live : person[u] # who[r]
        /\ Goto(r, "email") /\ UNCHANGED acct
  /\ UNCHANGED <<rows, withSession, op, who, mail, job, steady>>

\* Mutant: the address is not looked up.
FindByEmailSkipped(r) ==
  /\ pc[r] = "email"
  /\ Goto(r, "create")
  /\ UNCHANGED <<rows, withSession, local, job, steady>>

\* findUnique by email: the address must not belong to another account.
FindByEmail(r) ==
  /\ pc[r] = "email"
  /\ \/ (\E u \in Live : email[u] = mail[r]) /\ End(r)
     \/ /\ \A u \in Live : email[u] # mail[r]
        /\ Goto(r, "create") /\ UNCHANGED <<local, steady>>
  /\ UNCHANGED <<rows, withSession, job>>

\* The INSERT of an account for login r.
Insert(r, u) ==
  /\ mark[u] = "unused"
  /\ person' = [person EXCEPT ![u] = who[r]]
  /\ email' = [email EXCEPT ![u] = mail[r]]
  /\ mark' = [mark EXCEPT ![u] = "live"]
  /\ acct' = [acct EXCEPT ![r] = u]

\* Mutant: the unique keys do not count deleted rows.
CreateBesideDeleted(r) ==
  /\ pc[r] = "create"
  /\ \/ /\ \E u \in Live : person[u] = who[r] \/ email[u] = mail[r]
        /\ End(r) /\ UNCHANGED rows
     \/ /\ \A u \in Live : person[u] # who[r] /\ email[u] # mail[r]
        /\ \E u \in UserIds : Insert(r, u)
        /\ Goto(r, "session") /\ UNCHANGED <<op, who, mail, steady>>
  /\ UNCHANGED <<withSession, job>>

\* user.create fails on a unique key, also on that of a deleted row.
Create(r) ==
  /\ pc[r] = "create"
  /\ \/ /\ \E u \in Present : person[u] = who[r] \/ email[u] = mail[r]
        /\ End(r) /\ UNCHANGED rows
     \/ /\ \A u \in Present : person[u] # who[r] /\ email[u] # mail[r]
        /\ \E u \in UserIds : Insert(r, u)
        /\ Goto(r, "session") /\ UNCHANGED <<op, who, mail, steady>>
  /\ UNCHANGED <<withSession, job>>

\* createSession; the rest of the login is in AuthSessions.  The foreign key
\* refuses a session of an account that has been purged.
OpenSession(r) ==
  /\ pc[r] = "session"
  /\ withSession' = IF acct[r] \in Present THEN withSession \cup {acct[r]} ELSE withSession
  /\ End(r)
  /\ UNCHANGED <<rows, job>>

\* findById of softDelete, findDeletedById of restore.
Check(r) ==
  /\ pc[r] = "check"
  /\ LET found == IF op[r] = "delete" THEN Live ELSE Present \ Live IN
       \/ acct[r] \in found /\ Goto(r, "write") /\ UNCHANGED <<local, steady>>
       \/ acct[r] \notin found /\ End(r)
  /\ UNCHANGED <<rows, withSession, job>>

\* user.update by id sets or clears deletedAt; it throws if the row is gone.
Write(r) ==
  /\ pc[r] = "write"
  /\ mark' = IF acct[r] \notin Present THEN mark
             ELSE [mark EXCEPT ![acct[r]] = IF op[r] = "delete" THEN "within" ELSE "live"]
  /\ Goto(r, "idle")
  /\ op' = [op EXCEPT ![r] = "login"]
  /\ acct' = [acct EXCEPT ![r] = NoUser]
  /\ steady' = IF op[r] = "delete" THEN [q \in Requests |-> steady[q] \ {acct[r]}] ELSE steady
  /\ UNCHANGED <<person, email, withSession, who, mail, job>>

\* A statement rejects or the process dies.
Fail(r) ==
  /\ pc[r] # "idle"
  /\ End(r)
  /\ UNCHANGED <<rows, withSession, job>>

-----------------------------------------------------------------------------
\* The retention period of a deleted account ends: no request or purge is as
\* long as that.
Age(u) ==
  /\ mark[u] = "within"
  /\ \A r \in Requests : pc[r] = "idle"
  /\ \A j \in Jobs : job[j] = "idle"
  /\ mark' = [mark EXCEPT ![u] = "beyond"]
  /\ UNCHANGED <<person, email, withSession, pc, local, job, steady>>

\* handleDeleteMigration, at midnight.
StartPurge(j) ==
  /\ job[j] = "idle"
  /\ job' = [job EXCEPT ![j] = "sessions"]
  /\ UNCHANGED <<rows, withSession, pc, local, steady>>

\* DELETE FROM UserSession, of the rows whose deletedAt is set: there are none.
\* If it fails, the error is caught and the next table follows.
PurgeSessions(j) ==
  /\ job[j] = "sessions"
  /\ job' = [job EXCEPT ![j] = "users"]
  /\ UNCHANGED <<rows, withSession, pc, local, steady>>

\* Mutant: every deleted row, not only those beyond the retention.
PurgeAllDeleted(j) ==
  /\ job[j] = "users"
  /\ LET D == Present \ Live IN
       mark' = [u \in UserIds |->
         IF u \in D /\ D \cap withSession = {} THEN "purged" ELSE mark[u]]
  /\ job' = [job EXCEPT ![j] = "idle"]
  /\ UNCHANGED <<person, email, withSession, pc, local, steady>>

\* Mutant: the sessions of a purged account are left behind.
PurgeWithoutKey(j) ==
  /\ job[j] = "users"
  /\ mark' = [u \in UserIds |-> IF u \in Expired THEN "purged" ELSE mark[u]]
  /\ job' = [job EXCEPT ![j] = "idle"]
  /\ UNCHANGED <<person, email, withSession, pc, local, steady>>

\* DELETE FROM User, of the rows deleted before the cutoff: one statement, which
\* fails as a whole when the foreign key of one session forbids it.
PurgeUsers(j) ==
  /\ job[j] = "users"
  /\ mark' = [u \in UserIds |->
       IF u \in Expired /\ Expired \cap withSession = {} THEN "purged" ELSE mark[u]]
  /\ job' = [job EXCEPT ![j] = "idle"]
  /\ UNCHANGED <<person, email, withSession, pc, local, steady>>

\* The process dies in the middle of the job, or a statement is rejected.
PurgeFails(j) ==
  /\ job[j] # "idle"
  /\ job' = [job EXCEPT ![j] = "idle"]
  /\ UNCHANGED <<rows, withSession, pc, local, steady>>

LoginStep(r) ==
  \/ BeginLogin(r) \/ FindByGoogleId(r) \/ FindByEmail(r) \/ Create(r) \/ OpenSession(r)
ChangeStep(r) == BeginChange(r) \/ Check(r) \/ Write(r)
PurgeStep(j) == StartPurge(j) \/ PurgeSessions(j) \/ PurgeUsers(j)

Next ==
  \/ \E r \in Requests : LoginStep(r) \/ ChangeStep(r) \/ Fail(r)
  \/ \E j \in Jobs : PurgeStep(j) \/ PurgeFails(j)
  \/ \E u \in UserIds : Age(u)

\* The scheduler starts the purge every night; a statement may fail and a process
\* may die in some nights, not in all.  Requests come, and are answered, or not.
Fairness ==
  \A j \in Jobs :
    WF_vars(StartPurge(j)) /\ SF_vars(PurgeSessions(j)) /\ SF_vars(PurgeUsers(j))

Spec == Init /\ [][Next]_vars /\ Fairness

-----------------------------------------------------------------------------
\* However first logins, deletions and restorations interleave, a person has one
\* account and an address belongs to one, deleted accounts included: restoring an
\* account never makes a second one.
OneAccountEach ==
  \A u, v \in Present : person[u] = person[v] \/ email[u] = email[v] => u = v

\* Both unique keys are covered by a lookup: a login that comes to insert a row
\* does not collide with an account that has been live since the login began.  So
\* its insert only fails on a deleted account or in a race with another request.
LookupsCoverKeys ==
  \A r \in Requests : pc[r] = "create" =>
    \A u \in steady[r] : person[u] # who[r] /\ email[u] # mail[r]

\* An account disappears only when it has been deleted for the whole retention
\* period, although requests delete and restore it while purges run.
RetentionRespected ==
  [][\A u \in UserIds : mark'[u] = "purged" /\ mark[u] # "purged" => mark[u] = "beyond"]_vars

\* delete-migration.service.ts:9-11: the accounts deleted longer ago than the
\* retention are removed by the nightly job.
RetentionEnforced == \A u \in UserIds : mark[u] = "beyond" ~> mark[u] # "beyond"
=============================================================================
