---------------------------- MODULE SetupBrowser ----------------------------
(***************************************************************************)
(* The setup wizard together with the pages that use it: the script of     *)
(* renderSetupPage (src/setup/setup.html.ts) and the event streams of      *)
(* src/setup/setup.server.ts.                                              *)
(*                                                                         *)
(* A submission disables the button, opens a stream of its own and posts   *)
(* the form.  Answer and events travel on separate connections and arrive  *)
(* in any order; events go to every open stream, whoever's setup they are  *)
(* about.  Only the event that ends a stream is kept.  main.ts always      *)
(* starts the wizard with forceSetup, so GET / always serves the form and  *)
(* POST /setup/skip comes from outside the pages.  The button of test-db   *)
(* is left out: it is enabled again whatever the answer.                   *)
(***************************************************************************)
EXTENDS SetupWizard

CONSTANT Pages    \* open pages, in as many tabs

ASSUME PagesAssumption == None \notin Pages

VARIABLES
  enabled,     \* is the submit button of each page enabled?
  told,        \* was this load of the page answered that its setup is complete?
  erred,       \* history: was this load of the page shown an error?
  owner,       \* the page that waits for each request or listens to its stream
  reply,       \* the answer of each request, on its way to the page
  stream       \* the stream opened with each request

pages == <<enabled, told, erred, owner, reply, stream>>
browserVars == <<vars, pages>>

\* A request has an owner exactly while its page still expects something of it.
PagesTypeOK ==
  /\ enabled \in [Pages -> BOOLEAN]
  /\ told \in [Pages -> BOOLEAN] /\ erred \in [Pages -> BOOLEAN]
  /\ owner \in [Requests -> Pages \cup {None}]
  /\ reply \in [Requests -> {"none", "waiting", "ok", "error", "cut"}]
  /\ stream \in [Requests -> {"closed", "opening", "open", "error", "complete"}]
  /\ \A r \in Requests : owner[r] = None <=> reply[r] = "none" /\ stream[r] = "closed"

BrowserInit ==
  /\ Init
  /\ enabled = [p \in Pages |-> TRUE]
  /\ told = [p \in Pages |-> FALSE] /\ erred = [p \in Pages |-> FALSE]
  /\ owner = [r \in Requests |-> None]
  /\ reply = [r \in Requests |-> "none"]
  /\ stream = [r \in Requests |-> "closed"]

-----------------------------------------------------------------------------
\* broadcastSSE, of a status that ends a stream.
Broadcast(status) ==
  stream' = [r \in Requests |-> IF stream[r] = "open" THEN status ELSE stream[r]]

\* handleSubmit, up to the answer: the form of p is posted as r.
Submit(p, r) ==
  /\ enabled[p] /\ owner[r] = None
  /\ PostSetup(r)
  /\ enabled' = [enabled EXCEPT ![p] = FALSE]
  /\ owner' = [owner EXCEPT ![r] = p]
  /\ reply' = [reply EXCEPT ![r] = "waiting"]
  /\ stream' = [stream EXCEPT ![r] = "opening"]
  /\ UNCHANGED <<told, erred>>

\* The same when .env cannot be written: the handler ends in its catch.
SubmitFails(p, r) ==
  /\ phase = "wizard"
  /\ enabled[p] /\ owner[r] = None /\ pc[r] = "idle" /\ r \notin timers
  /\ enabled' = [enabled EXCEPT ![p] = FALSE]
  /\ owner' = [owner EXCEPT ![r] = p]
  /\ reply' = [reply EXCEPT ![r] = "error"]
  /\ stream' = [q \in Requests |-> CASE q = r -> "opening"
                                     [] stream[q] = "open" -> "error"
                                     [] OTHER -> stream[q]]
  /\ UNCHANGED <<vars, told, erred>>

\* GET /setup/status: the stream joins sseClients.
Connected(r) ==
  /\ stream[r] = "opening"
  /\ stream' = [stream EXCEPT ![r] = "open"]
  /\ UNCHANGED <<vars, enabled, told, erred, owner, reply>>

\* A step of the handler of r; the one that ends a setup tells every stream and
\* answers r, if its page still waits.
Handle(r) ==
  /\ Handler(r)
  /\ IF InSetup(r) /\ pc'[r] = "idle"
     THEN LET done == r \in timers'
          IN  /\ Broadcast(IF done THEN "complete" ELSE "error")
              /\ reply' = [reply EXCEPT ![r] =
                             IF @ = "waiting" THEN IF done THEN "ok" ELSE "error" ELSE @]
     ELSE UNCHANGED <<reply, stream>>
  /\ UNCHANGED <<enabled, told, erred, owner>>

\* shutdown(), or the end of the process: streams end, sockets are destroyed.
Cut ==
  /\ reply' = [r \in Requests |-> IF reply[r] = "waiting" THEN "cut" ELSE reply[r]]
  /\ stream' = [r \in Requests |->
                  IF stream[r] \in {"opening", "open"} THEN "closed" ELSE stream[r]]
  /\ owner' = [r \in Requests |->
                 IF reply[r] = "none" /\ stream'[r] = "closed" THEN None ELSE owner[r]]
  /\ UNCHANGED <<enabled, told, erred>>

-----------------------------------------------------------------------------
\* Mutant: the button is enabled in a finally, whatever the answer.
EnableAnyway(p, wrong) ==
  /\ enabled' = [enabled EXCEPT ![p] = TRUE]
  /\ erred' = [erred EXCEPT ![p] = @ \/ wrong]

\* Mutant: a failed setup leaves the button as it is.
EnableNever(p, wrong) ==
  /\ erred' = [erred EXCEPT ![p] = @ \/ wrong]
  /\ UNCHANGED enabled

\* What p shows enables its button when it is an error.
Enable(p, wrong) ==
  /\ enabled' = [enabled EXCEPT ![p] = @ \/ wrong]
  /\ erred' = [erred EXCEPT ![p] = @ \/ wrong]

\* Mutant: closing the stream does not say that the answer is still awaited.
DisownAlways(r, done) == owner' = [owner EXCEPT ![r] = None]

\* r is over for its page when it was answered and its stream closed.
Disown(r, done) == owner' = [owner EXCEPT ![r] = IF done THEN None ELSE @]

\* evtSource.onmessage.  An event that was not read when the wizard ended is lost.
Shown(r) ==
  /\ stream[r] \in {"error", "complete"}
  /\ \/ Enable(owner[r], stream[r] = "error")
     \/ phase # "wizard" /\ UNCHANGED <<enabled, erred>>
  /\ stream' = [stream EXCEPT ![r] = "closed"]
  /\ Disown(r, reply[r] = "none")
  /\ UNCHANGED <<vars, told, reply>>

\* handleSubmit, after the answer: fetch can also fail when the wizard ends while
\* the answer is under way.
Answered(r) ==
  /\ reply[r] \notin {"none", "waiting"}
  /\ \E wrong \in BOOLEAN :
       /\ (wrong <=> reply[r] # "ok") \/ (wrong /\ phase # "wizard")
       /\ Enable(owner[r], wrong)
       /\ told' = [told EXCEPT ![owner[r]] = @ \/ ~wrong]
  /\ reply' = [reply EXCEPT ![r] = "none"]
  /\ Disown(r, stream[r] = "closed")
  /\ UNCHANGED <<vars, stream>>

\* GET /: p is loaded anew and forgets its requests; their handlers go on.
Load(p) ==
  LET mine == {r \in Requests : owner[r] = p}
  IN  /\ phase = "wizard"
      /\ enabled' = [enabled EXCEPT ![p] = TRUE]
      /\ told' = [told EXCEPT ![p] = FALSE] /\ erred' = [erred EXCEPT ![p] = FALSE]
      /\ owner' = [r \in Requests |-> IF r \in mine THEN None ELSE owner[r]]
      /\ reply' = [r \in Requests |-> IF r \in mine THEN "none" ELSE reply[r]]
      /\ stream' = [r \in Requests |-> IF r \in mine THEN "closed" ELSE stream[r]]
      /\ UNCHANGED vars

BrowserNext ==
  \/ (Start \/ RemoveEnv \/ PostSkip) /\ UNCHANGED pages
  \/ Stop /\ Cut
  \/ \E t \in timers :
       FireTimer(t) /\ IF phase = "wizard" THEN Cut ELSE UNCHANGED pages
  \/ \E r \in Requests :
       \/ owner[r] = None /\ PostTestDb(r) /\ UNCHANGED pages
       \/ Handle(r) \/ Connected(r) \/ Shown(r) \/ Answered(r)
  \/ \E p \in Pages : Load(p) \/ \E r \in Requests : Submit(p, r) \/ SubmitFails(p, r)

\* MySQL answers or refuses every connection and query, prisma ends (timeout 60000),
\* and what was sent to a page arrives.  Nobody has to submit, load or stop anything.
BrowserSpec ==
  /\ BrowserInit /\ [][BrowserNext]_browserVars
  /\ \A r \in Requests :
       WF_browserVars(Handle(r)) /\ WF_browserVars(Shown(r)) /\ WF_browserVars(Answered(r))

-----------------------------------------------------------------------------
\* A load of the page that was shown no error has at most one setup under way, and
\* none after it was answered that the setup is complete: only an error, its own or
\* one broadcast for somebody else's setup, lets it submit a second one.
OneSetupPerPage ==
  \A p \in Pages : enabled[p] => \/ erred[p]
                                 \/ /\ ~told[p]
                                    /\ \A r \in Requests :
                                         owner[r] = p => reply[r] \notin {"waiting", "ok"}

\* handleSubmit never leaves the page hanging: whichever way the handler ends, and
\* when the wizard goes away under it, the button comes back or the page was
\* answered that the setup is complete.
SubmitSettles == \A p \in Pages : ~enabled[p] ~> enabled[p] \/ told[p]
=============================================================================
