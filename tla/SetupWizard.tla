----------------------------- MODULE SetupWizard -----------------------------
(***************************************************************************)
(* The setup wizard (src/setup/setup.server.ts) and the start of the       *)
(* program around it (bootstrap in src/main.ts): what .env names, which    *)
(* databases exist and hold the tables, and when the wizard hands over to  *)
(* the application.                                                        *)
(*                                                                         *)
(* One Node process serves several requests, which interleave at their     *)
(* awaits on MySQL.  execSync blocks the process: prisma generate, prisma  *)
(* db push, the answer and setTimeout are one step.  shutdown() destroys   *)
(* the sockets, not the handlers: a handler goes on under the application. *)
(* A submitted form, and .env, stand for the database they name.  The      *)
(* pages and their event streams are in SetupBrowser, the text of .env in  *)
(* EnvFile.                                                                *)
(***************************************************************************)
CONSTANTS
  Requests,    \* requests that can be in flight together
  Databases,   \* databases a form can name
  None,
  Skip         \* the timer of POST /setup/skip

ASSUME NullsAssumption == None \notin Databases /\ Skip \notin Requests

VARIABLES
  phase,       \* "down", "wizard" or "app"
  env,         \* the database .env names, or None without .env
  databases,   \* databases that exist
  tables,      \* databases that hold the tables
  pc,          \* where each request is
  kind,        \* POST /setup, or POST /setup/test-db and no request
  form,        \* the database named in its body, or None
  timers,      \* whose setTimeout(shutdown) is pending
  handedBy,    \* history: what started the application
  overlapped   \* history: a setup was submitted beside another one

vars == <<phase, env, databases, tables, pc, kind, form, timers, handedBy, overlapped>>

\* Requests carry a form exactly while they run, and only setups write .env.
TypeOK ==
  /\ phase \in {"down", "wizard", "app"}
  /\ env \in Databases \cup {None}
  /\ tables \subseteq databases /\ databases \subseteq Databases
  /\ pc \in [Requests -> {"idle", "test", "select", "create", "prisma"}]
  /\ kind \in [Requests -> {"setup", "test-db"}]
  /\ form \in [Requests -> Databases \cup {None}]
  /\ \A r \in Requests : pc[r] = "idle" <=> form[r] = None
  /\ timers \subseteq Requests \cup {Skip}
  /\ handedBy \in {"nothing", "setup", "skip", "start"}
  /\ overlapped \in BOOLEAN

Init ==
  /\ phase = "down"
  /\ env = None
  /\ databases = {} /\ tables = {}
  /\ pc = [r \in Requests |-> "idle"]
  /\ kind = [r \in Requests |-> "test-db"]
  /\ form = [r \in Requests |-> None]
  /\ timers = {}
  /\ handedBy = "nothing"
  /\ overlapped = FALSE

-----------------------------------------------------------------------------
Goto(r, label) == pc' = [pc EXCEPT ![r] = label]

\* r is answered, or would be if its socket were open.
End(r) ==
  /\ Goto(r, "idle")
  /\ form' = [form EXCEPT ![r] = None]
  /\ kind' = [kind EXCEPT ![r] = "test-db"]

InSetup(r) == pc[r] # "idle" /\ kind[r] = "setup"

Arrive(r, k) ==
  /\ phase = "wizard" /\ pc[r] = "idle" /\ r \notin timers
  /\ kind' = [kind EXCEPT ![r] = k]
  /\ Goto(r, "test")

\* buildEnvContent and writeFileSync: the whole file anew, with the DATABASE_URL of
\* the form; nothing of an earlier .env is kept.
WriteEnv(d) == env' = d

\* POST /setup, up to its first await: .env is written before anything is tried.
PostSetup(r) ==
  /\ Arrive(r, "setup")
  /\ \E d \in Databases : WriteEnv(d) /\ form' = [form EXCEPT ![r] = d]
  /\ overlapped' = (overlapped \/ timers # {} \/ \E q \in Requests : InSetup(q))
  /\ UNCHANGED <<phase, databases, tables, timers, handedBy>>

PostTestDb(r) ==
  /\ Arrive(r, "test-db")
  /\ \E d \in Databases : form' = [form EXCEPT ![r] = d]
  /\ UNCHANGED <<phase, env, databases, tables, timers, handedBy, overlapped>>

PostSkip ==
  /\ phase = "wizard"
  /\ timers' = timers \cup {Skip}
  /\ UNCHANGED <<phase, env, databases, tables, pc, kind, form, handedBy, overlapped>>

\* testMysqlConnection
Test(r) ==
  /\ pc[r] = "test"
  /\ \/ Goto(r, "select") /\ UNCHANGED <<form, kind>>
     \/ End(r)
  /\ UNCHANGED <<phase, env, databases, tables, timers, handedBy, overlapped>>

\* ensureDatabase: does the database exist?
Select(r) ==
  /\ pc[r] = "select"
  /\ \/ /\ Goto(r, IF form[r] \in databases THEN "prisma" ELSE "create")
        /\ UNCHANGED <<form, kind>>
     \/ End(r)
  /\ UNCHANGED <<phase, env, databases, tables, timers, handedBy, overlapped>>

\* ensureDatabase: CREATE DATABASE, which is refused when another request has
\* created it since.
Create(r) ==
  /\ pc[r] = "create"
  /\ \/ /\ form[r] \notin databases
        /\ databases' = databases \cup {form[r]}
        /\ Goto(r, "prisma") /\ UNCHANGED <<form, kind>>
     \/ End(r) /\ UNCHANGED databases
  /\ UNCHANGED <<phase, env, tables, timers, handedBy, overlapped>>

\* Mutant: a failing prisma db push is reported, but does not end the handler.
PrismaGoesOn(r) ==
  /\ pc[r] = "prisma"
  /\ \/ kind[r] = "test-db" /\ UNCHANGED <<tables, timers>>
     \/ /\ kind[r] = "setup"
        /\ tables' \in {tables, tables \cup {form[r]}}
        /\ timers' = timers \cup {r}
  /\ End(r)
  /\ UNCHANGED <<phase, env, databases, handedBy, overlapped>>

\* Mutant: the end of the handler leaves the form of the request behind.
PrismaKeepsForm(r) ==
  /\ pc[r] = "prisma"
  /\ Goto(r, "idle")
  /\ UNCHANGED <<phase, env, databases, tables, kind, form, timers, handedBy, overlapped>>

\* What follows ensureDatabase.  A test is answered.  A setup runs prisma
\* generate and prisma db push: either can fail and ends the handler; else it
\* is answered and the timer set.
Prisma(r) ==
  /\ pc[r] = "prisma"
  /\ \/ UNCHANGED <<tables, timers>>
     \/ /\ kind[r] = "setup"
        /\ tables' = tables \cup {form[r]}
        /\ timers' = timers \cup {r}
  /\ End(r)
  /\ UNCHANGED <<phase, env, databases, handedBy, overlapped>>

\* setTimeout: shutdown() and resolve().  Only the first has an effect.
FireTimer(t) ==
  /\ t \in timers
  /\ timers' = timers \ {t}
  /\ IF phase = "wizard"
     THEN phase' = "app" /\ handedBy' = IF t = Skip THEN "skip" ELSE "setup"
     ELSE UNCHANGED <<phase, handedBy>>
  /\ UNCHANGED <<env, databases, tables, pc, kind, form, overlapped>>

-----------------------------------------------------------------------------
\* bootstrap: the wizard without .env or with FORCE_SETUP, else the application.
Start ==
  /\ phase = "down"
  /\ \E force \in BOOLEAN :
       IF env = None \/ force
       THEN phase' = "wizard" /\ handedBy' = "nothing"
       ELSE phase' = "app" /\ handedBy' = "start"
  /\ overlapped' = FALSE
  /\ UNCHANGED <<env, databases, tables, pc, kind, form, timers>>

\* The process ends or is killed, in whatever phase.
Stop ==
  /\ phase # "down"
  /\ phase' = "down" /\ timers' = {} /\ handedBy' = "nothing"
  /\ pc' = [r \in Requests |-> "idle"]
  /\ form' = [r \in Requests |-> None]
  /\ kind' = [r \in Requests |-> "test-db"]
  /\ UNCHANGED <<env, databases, tables, overlapped>>

\* README.md:122: rm .env
RemoveEnv ==
  /\ phase = "down"
  /\ env' = None
  /\ UNCHANGED <<phase, databases, tables, pc, kind, form, timers, handedBy, overlapped>>

Handler(r) == Test(r) \/ Select(r) \/ Create(r) \/ Prisma(r)

Next ==
  \/ Start \/ Stop \/ RemoveEnv \/ PostSkip
  \/ \E r \in Requests : PostSetup(r) \/ PostTestDb(r) \/ Handler(r)
  \/ \E t \in timers : FireTimer(t)

Spec == Init /\ [][Next]_vars

-----------------------------------------------------------------------------
\* When a setup ends the wizard, the application finds the tables in the database
\* .env names, whatever failed before and however many setups were tried, unless
\* a setup was submitted while another was under way or its timer was running:
\* then .env can name the database of the one and the tables be in the other's.
SetupHandsOverReady ==
  handedBy = "setup" => env \in tables \/ overlapped
=============================================================================
