----------------------------- MODULE SetupProofs -----------------------------
(***************************************************************************)
(* Proofs about SetupWizard for every set of requests and databases, and   *)
(* about SetupBrowser for every set of pages as well.  The wizard among    *)
(* its pages is the wizard: what the first part shows carries over.  Then  *)
(* proofs about EnvFile, for every text.                                   *)
(***************************************************************************)
EXTENDS SetupBrowser, EnvFile, SequenceTheorems, WellFoundedInduction, TLAPS

(***************************************************************************)
(* The wizard.                                                             *)
(***************************************************************************)
\* A setup that runs alone has its own database in .env.
Alone ==
  \A r \in Requests : InSetup(r) =>
    /\ env = form[r]
    /\ \A q \in Requests : InSetup(q) => q = r

\* Setups that have set their timer.
Completed == timers \cap Requests

\* ensureDatabase has succeeded: the database is there, and stays.
Ensured == \A r \in Requests : pc[r] = "prisma" => form[r] \in databases

\* What the handlers know of each other while setups do not overlap, and what
\* SetupHandsOverReady needs of the handlers and the timers.
Handover ==
  /\ ~overlapped => Alone
  /\ ~overlapped /\ phase = "wizard" /\ Completed # {} => env \in tables
  /\ SetupHandsOverReady
  /\ handedBy = "setup" => phase = "app"
  /\ phase = "down" => timers = {} /\ \A r \in Requests : pc[r] = "idle"

Inv == TypeOK /\ Ensured /\ Handover

LEMMA InitInv == Init => Inv
BY NullsAssumption
  DEF Init, Inv, Ensured, Handover, TypeOK, Alone, Completed, InSetup,
      SetupHandsOverReady

LEMMA StepTypeOK == TypeOK /\ Ensured /\ [Next]_vars => TypeOK'
<1> SUFFICES ASSUME TypeOK, Ensured, [Next]_vars PROVE TypeOK'
  OBVIOUS
<1> USE NullsAssumption DEF TypeOK, Goto, End, Arrive
<1>1. CASE Start
  BY <1>1 DEF Start
<1>2. CASE Stop
  BY <1>2 DEF Stop
<1>3. CASE RemoveEnv
  BY <1>3 DEF RemoveEnv
<1>4. CASE PostSkip
  BY <1>4 DEF PostSkip
<1>5. ASSUME NEW r \in Requests, PostSetup(r) PROVE TypeOK'
  BY <1>5 DEF PostSetup, WriteEnv
<1>6. ASSUME NEW r \in Requests, PostTestDb(r) PROVE TypeOK'
  BY <1>6 DEF PostTestDb
<1>7. ASSUME NEW r \in Requests, Test(r) PROVE TypeOK'
  BY <1>7 DEF Test
<1>8. ASSUME NEW r \in Requests, Select(r) PROVE TypeOK'
  BY <1>8 DEF Select
<1>9. ASSUME NEW r \in Requests, Create(r) PROVE TypeOK'
  BY <1>9 DEF Create
<1>10. ASSUME NEW r \in Requests, Prisma(r) PROVE TypeOK'
  BY <1>10 DEF Prisma, Ensured
<1>11. ASSUME NEW t \in timers, FireTimer(t) PROVE TypeOK'
  BY <1>11 DEF FireTimer
<1>12. CASE UNCHANGED vars
  BY <1>12 DEF vars
<1> QED
  BY <1>1, <1>2, <1>3, <1>4, <1>5, <1>6, <1>7, <1>8, <1>9, <1>10, <1>11, <1>12
  DEF Next, Handler

LEMMA StepEnsured == TypeOK /\ Ensured /\ [Next]_vars => Ensured'
<1> SUFFICES ASSUME TypeOK, Ensured, [Next]_vars PROVE Ensured'
  OBVIOUS
<1> USE DEF TypeOK, Ensured, Goto, End, Arrive
<1>1. CASE Start
  BY <1>1 DEF Start
<1>2. CASE Stop
  BY <1>2 DEF Stop
<1>3. CASE RemoveEnv
  BY <1>3 DEF RemoveEnv
<1>4. CASE PostSkip
  BY <1>4 DEF PostSkip
<1>5. ASSUME NEW r \in Requests, PostSetup(r) PROVE Ensured'
  BY <1>5 DEF PostSetup, WriteEnv
<1>6. ASSUME NEW r \in Requests, PostTestDb(r) PROVE Ensured'
  BY <1>6 DEF PostTestDb
<1>7. ASSUME NEW r \in Requests, Test(r) PROVE Ensured'
  BY <1>7 DEF Test
<1>8. ASSUME NEW r \in Requests, Select(r) PROVE Ensured'
  BY <1>8 DEF Select
<1>9. ASSUME NEW r \in Requests, Create(r) PROVE Ensured'
  BY <1>9 DEF Create
<1>10. ASSUME NEW r \in Requests, Prisma(r) PROVE Ensured'
  BY <1>10 DEF Prisma
<1>11. ASSUME NEW t \in timers, FireTimer(t) PROVE Ensured'
  BY <1>11 DEF FireTimer
<1>12. CASE UNCHANGED vars
  BY <1>12 DEF vars
<1> QED
  BY <1>1, <1>2, <1>3, <1>4, <1>5, <1>6, <1>7, <1>8, <1>9, <1>10, <1>11, <1>12
  DEF Next, Handler

LEMMA StepHandover == TypeOK /\ Handover /\ [Next]_vars => Handover'
<1> SUFFICES ASSUME TypeOK, Handover, [Next]_vars PROVE Handover'
  OBVIOUS
<1> USE NullsAssumption
    DEF TypeOK, Handover, Alone, Completed, InSetup, SetupHandsOverReady, Goto, End, Arrive
<1>1. CASE Start
  BY <1>1 DEF Start
<1>2. CASE Stop
  BY <1>2 DEF Stop
<1>3. CASE RemoveEnv
  BY <1>3 DEF RemoveEnv
<1>4. CASE PostSkip
  BY <1>4 DEF PostSkip
<1>5. ASSUME NEW r \in Requests, PostSetup(r) PROVE Handover'
  BY <1>5 DEF PostSetup, WriteEnv
<1>6. ASSUME NEW r \in Requests, PostTestDb(r) PROVE Handover'
  BY <1>6 DEF PostTestDb
<1>7. ASSUME NEW r \in Requests, Test(r) PROVE Handover'
  BY <1>7 DEF Test
<1>8. ASSUME NEW r \in Requests, Select(r) PROVE Handover'
  BY <1>8 DEF Select
<1>9. ASSUME NEW r \in Requests, Create(r) PROVE Handover'
  BY <1>9 DEF Create
<1>10. ASSUME NEW r \in Requests, Prisma(r) PROVE Handover'
  BY <1>10 DEF Prisma
<1>11. ASSUME NEW t \in timers, FireTimer(t) PROVE Handover'
  BY <1>11 DEF FireTimer
<1>12. CASE UNCHANGED vars
  BY <1>12 DEF vars
<1> QED
  BY <1>1, <1>2, <1>3, <1>4, <1>5, <1>6, <1>7, <1>8, <1>9, <1>10, <1>11, <1>12
  DEF Next, Handler

\* The inductive invariant of the wizard.
THEOREM Invariance == Spec => []Inv
<1>1. Inv /\ [Next]_vars => Inv'
  BY StepTypeOK, StepEnsured, StepHandover DEF Inv
<1> QED
  BY <1>1, InitInv, PTL DEF Spec

\* Types, and: tables are only ever created in databases that exist.
THEOREM TypeCorrect == Spec => []TypeOK
<1>1. Inv => TypeOK
  BY DEF Inv
<1> QED
  BY <1>1, Invariance, PTL

\* A setup that ran alone hands over a database with its tables.
THEOREM HandoverIsReady == Spec => []SetupHandsOverReady
<1>1. Inv => SetupHandsOverReady
  BY DEF Inv, Handover
<1> QED
  BY <1>1, Invariance, PTL

(***************************************************************************)
(* The wizard among its pages.                                             *)
(***************************************************************************)
\* The pages add nothing to what the wizard does: without them, every behaviour of the
\* wizard and its pages is one of the wizard.
THEOREM PagesOnlyUse == BrowserSpec => Spec
<1>1. BrowserInit => Init
  BY DEF BrowserInit
<1>2. [BrowserNext]_browserVars => [Next]_vars
  <2> SUFFICES ASSUME [BrowserNext]_browserVars PROVE [Next]_vars
    OBVIOUS
  <2>1. CASE Start \/ RemoveEnv \/ PostSkip \/ Stop
    BY <2>1 DEF Next
  <2>2. ASSUME NEW t \in timers, FireTimer(t) PROVE [Next]_vars
    BY <2>2 DEF Next
  <2>3. ASSUME NEW r \in Requests, PostTestDb(r) \/ Handle(r) PROVE [Next]_vars
    BY <2>3 DEF Next, Handle
  <2>4. ASSUME NEW r \in Requests, Connected(r) \/ Shown(r) \/ Answered(r)
        PROVE [Next]_vars
    BY <2>4 DEF Connected, Shown, Answered
  <2>5. ASSUME NEW p \in Pages, NEW r \in Requests, Submit(p, r) \/ SubmitFails(p, r)
        PROVE [Next]_vars
    BY <2>5 DEF Submit, SubmitFails, Next
  <2>6. ASSUME NEW p \in Pages, Load(p) PROVE [Next]_vars
    BY <2>6 DEF Load
  <2>7. CASE UNCHANGED browserVars
    BY <2>7 DEF browserVars
  <2> QED
    BY <2>1, <2>2, <2>3, <2>4, <2>5, <2>6, <2>7 DEF BrowserNext
<1> QED
  BY <1>1, <1>2, PTL DEF BrowserSpec, Spec

\* With any number of pages, a setup that ran alone hands over a database with its
\* tables.
THEOREM PagesHandOverReady == BrowserSpec => []SetupHandsOverReady
BY PagesOnlyUse, HandoverIsReady, PTL

-----------------------------------------------------------------------------
LEMMA InitPages == BrowserInit => PagesTypeOK /\ OneSetupPerPage
BY DEF BrowserInit, PagesTypeOK, OneSetupPerPage

LEMMA StepPages == PagesTypeOK /\ [BrowserNext]_browserVars => PagesTypeOK'
<1> SUFFICES ASSUME PagesTypeOK, [BrowserNext]_browserVars PROVE PagesTypeOK'
  OBVIOUS
<1> USE PagesAssumption DEF PagesTypeOK
<1>1. CASE UNCHANGED pages
  BY <1>1 DEF pages
<1>2. CASE Cut
  BY <1>2 DEF Cut
<1>3. ASSUME NEW r \in Requests, Handle(r) PROVE PagesTypeOK'
  BY <1>3 DEF Handle, Broadcast
<1>4. ASSUME NEW r \in Requests, Connected(r) PROVE PagesTypeOK'
  BY <1>4 DEF Connected
<1>5. ASSUME NEW r \in Requests, Shown(r) PROVE PagesTypeOK'
  BY <1>5 DEF Shown, Enable, Disown
<1>6. ASSUME NEW r \in Requests, Answered(r) PROVE PagesTypeOK'
  BY <1>6 DEF Answered, Enable, Disown
<1>7. ASSUME NEW p \in Pages, NEW r \in Requests, Submit(p, r) PROVE PagesTypeOK'
  BY <1>7 DEF Submit
<1>8. ASSUME NEW p \in Pages, NEW r \in Requests, SubmitFails(p, r) PROVE PagesTypeOK'
  BY <1>8 DEF SubmitFails
<1>9. ASSUME NEW p \in Pages, Load(p) PROVE PagesTypeOK'
  BY <1>9 DEF Load
<1> QED
  BY <1>1, <1>2, <1>3, <1>4, <1>5, <1>6, <1>7, <1>8, <1>9
  DEF BrowserNext, browserVars, pages

LEMMA StepOneSetup ==
  PagesTypeOK /\ OneSetupPerPage /\ [BrowserNext]_browserVars => OneSetupPerPage'
<1> SUFFICES ASSUME PagesTypeOK, OneSetupPerPage, [BrowserNext]_browserVars
             PROVE OneSetupPerPage'
  OBVIOUS
<1> USE PagesAssumption DEF PagesTypeOK, OneSetupPerPage
<1>1. CASE UNCHANGED pages
  BY <1>1 DEF pages
<1>2. CASE Cut
  BY <1>2 DEF Cut
<1>3. ASSUME NEW r \in Requests, Handle(r) PROVE OneSetupPerPage'
  BY <1>3 DEF Handle, Broadcast
<1>4. ASSUME NEW r \in Requests, Connected(r) PROVE OneSetupPerPage'
  BY <1>4 DEF Connected
<1>5. ASSUME NEW r \in Requests, Shown(r) PROVE OneSetupPerPage'
  BY <1>5 DEF Shown, Enable, Disown
<1>6. ASSUME NEW r \in Requests, Answered(r) PROVE OneSetupPerPage'
  BY <1>6 DEF Answered, Enable, Disown
<1>7. ASSUME NEW p \in Pages, NEW r \in Requests, Submit(p, r) PROVE OneSetupPerPage'
  BY <1>7 DEF Submit
<1>8. ASSUME NEW p \in Pages, NEW r \in Requests, SubmitFails(p, r) PROVE OneSetupPerPage'
  BY <1>8 DEF SubmitFails
<1>9. ASSUME NEW p \in Pages, Load(p) PROVE OneSetupPerPage'
  BY <1>9 DEF Load
<1> QED
  BY <1>1, <1>2, <1>3, <1>4, <1>5, <1>6, <1>7, <1>8, <1>9
  DEF BrowserNext, browserVars, pages

LEMMA PagesInvariance == BrowserSpec => [](PagesTypeOK /\ OneSetupPerPage)
BY InitPages, StepPages, StepOneSetup, PTL DEF BrowserSpec

\* Types of the pages, and: a request has an owner exactly while something of it is
\* still on its way.
THEOREM PagesTypeCorrect == BrowserSpec => []PagesTypeOK
BY PagesInvariance, PTL

\* Only an error lets one load of a page submit a second setup.
THEOREM OneSetupEach == BrowserSpec => []OneSetupPerPage
BY PagesInvariance, PTL

(***************************************************************************)
(* The texts of .env.  An induction over their length is never needed: a   *)
(* text is trimmed, split or cut at a position, and the first and the last *)
(* position with a property exist because < on numbers is well-founded.    *)
(***************************************************************************)

\* A set of natural numbers has a least element, and a bounded one a greatest.
LEMMA MinIs ==
  ASSUME NEW T \in SUBSET Nat, T # {}
  PROVE  Min(T) \in T /\ \A y \in T : Min(T) <= y
<1> DEFINE R == OpToRel(<, Nat)
<1>1. IsWellFoundedOn(R, Nat)
  BY NatLessThanWellFounded, Zenon
<1>2. \A x, y \in Nat : <<x, y>> \in R <=> x < y
  BY Zenon DEF OpToRel
<1> HIDE DEF R
<1>3. PICK x \in T : \A y \in T : ~(<<y, x>> \in R)
  BY <1>1, WFMin
<1>4. ASSUME NEW y \in T PROVE x <= y
  <2>1. ~(y < x)
    BY <1>2, <1>3
  <2> QED
    BY <2>1
<1> QED
  BY <1>4 DEF Min

LEMMA MaxIs ==
  ASSUME NEW n \in Nat, NEW T \in SUBSET (1 .. n), T # {}
  PROVE  Max(T) \in T /\ \A y \in T : y <= Max(T)
<1> DEFINE M == {i \in Nat : n - i \in T}
<1>1. PICK z \in T : TRUE
  OBVIOUS
<1>2. n - z \in Nat /\ n - (n - z) = z
  OBVIOUS
<1>3. M \in SUBSET Nat /\ M # {}
  BY <1>2
<1>4. Min(M) \in M /\ \A y \in M : Min(M) <= y
  BY <1>3, MinIs
<1> DEFINE x == n - Min(M)
<1>5. x \in T
  BY <1>4
<1>6. ASSUME NEW y \in T PROVE y <= x
  <2>1. n - y \in Nat /\ n - (n - y) = y
    OBVIOUS
  <2>2. n - y \in M
    BY <2>1
  <2> HIDE DEF M
  <2>3. Min(M) <= n - y /\ Min(M) \in Nat
    BY <1>4, <2>2 DEF M
  <2> QED
    BY <2>1, <2>3
<1> HIDE DEF x
<1> QED
  BY <1>5, <1>6 DEF Max

\* What a text is, and equal texts.
LEMMA TextProperties ==
  ASSUME NEW s \in Text
  PROVE  /\ Len(s) \in Nat /\ DOMAIN s = 1 .. Len(s)
         /\ s = <<>> <=> Len(s) = 0
         /\ \A i \in 1 .. Len(s) : s[i] \in Runs
BY LenProperties, EmptySeq, ElementOfSeq DEF Text

LEMMA TextEqual ==
  ASSUME NEW s \in Text, NEW t \in Text, Len(s) = Len(t),
         \A i \in 1 .. Len(s) : s[i] = t[i]
  PROVE  s = t
BY SeqEqual DEF Text

\* Positions m to n of a text.
LEMMA PartOfText ==
  ASSUME NEW s \in Text, NEW m \in Int, NEW n \in Int, m >= 1, n <= Len(s)
  PROVE  /\ SubSeq(s, m, n) \in Text
         /\ Len(SubSeq(s, m, n)) = IF m <= n THEN n - m + 1 ELSE 0
         /\ \A i \in 1 .. n - m + 1 : SubSeq(s, m, n)[i] = s[m + i - 1]
<1>1. \A i \in m .. n : s[i] \in Runs
  BY TextProperties
<1> QED
  BY <1>1, SubSeqProperties DEF Text

\* The characters that matter, apart from arithmetic on positions.
Blank == " "
Hash == "#"
Marks == {"\"", "'"}

LEMMA CharactersDiffer ==
  Blank \notin Marks /\ Hash \notin Marks /\ Hash # Blank
BY DEF Blank, Hash, Marks

LEMMA TrimDef ==
  ASSUME NEW s, NEW solid, solid = {i \in DOMAIN s : s[i] # Blank}
  PROVE  Trim(s) = IF solid = {} THEN <<>> ELSE SubSeq(s, Min(solid), Max(solid))
BY DEF Trim, Blank

\* What is left of a text begins and ends at its first and last character that is no blank.
LEMMA TrimIs ==
  ASSUME NEW s \in Text
  PROVE  \/ Trim(s) = <<>> /\ \A i \in 1 .. Len(s) : s[i] = Blank
         \/ \E m, n \in 1 .. Len(s) :
              /\ m <= n /\ s[m] # Blank /\ s[n] # Blank
              /\ \A i \in 1 .. Len(s) : s[i] # Blank => m <= i /\ i <= n
              /\ Trim(s) = SubSeq(s, m, n)
<1> DEFINE solid == {i \in DOMAIN s : s[i] # Blank}
<1>1. Len(s) \in Nat /\ DOMAIN s = 1 .. Len(s)
  BY TextProperties
<1>2. CASE solid = {}
  BY <1>1, <1>2, TrimDef
<1>3. CASE solid # {}
  <2>1. Min(solid) \in solid /\ \A y \in solid : Min(solid) <= y
    <3>1. solid \subseteq 1 .. Len(s)
      BY <1>1
    <3>2. solid \in SUBSET Nat
      BY <1>1, <3>1
    <3> QED
      BY <1>3, <3>2, MinIs
  <2>2. Max(solid) \in solid /\ \A y \in solid : y <= Max(solid)
    <3>1. solid \in SUBSET (1 .. Len(s))
      BY <1>1
    <3> QED
      BY <1>1, <1>3, <3>1, MaxIs
  <2>3. Trim(s) = SubSeq(s, Min(solid), Max(solid))
    BY <1>3, TrimDef
  <2> HIDE DEF solid
  <2>4. \A i : i \in solid <=> i \in 1 .. Len(s) /\ s[i] # Blank
    BY <1>1 DEF solid
  <2> QED
    BY <2>1, <2>2, <2>3, <2>4
<1> QED
  BY <1>2, <1>3

\* Trimming only takes away, and leaves no blank at an end.
LEMMA TrimProperties ==
  ASSUME NEW s \in Text
  PROVE  /\ Trim(s) \in Text /\ Len(Trim(s)) <= Len(s)
         /\ Len(Trim(s)) = Len(s) => Trim(s) = s
         /\ Trim(s) # <<>> => Trim(s)[1] # Blank /\ Trim(s)[Len(Trim(s))] # Blank
         /\ \A i \in 1 .. Len(Trim(s)) : \E j \in 1 .. Len(s) : Trim(s)[i] = s[j]
<1>1. Len(s) \in Nat /\ <<>> \in Text /\ Len(<<>>) = 0
  BY TextProperties, EmptySeq DEF Text
<1>2. CASE Trim(s) = <<>> /\ \A i \in 1 .. Len(s) : s[i] = Blank
  BY <1>1, <1>2, TextProperties
<1>3. CASE Trim(s) # <<>>
  <2>1. PICK m, n \in 1 .. Len(s) :
          m <= n /\ s[m] # Blank /\ s[n] # Blank /\ Trim(s) = SubSeq(s, m, n)
    BY <1>3, TrimIs
  <2> DEFINE t == Trim(s)
  <2>2. /\ t \in Text /\ Len(t) = n - m + 1
        /\ \A i \in 1 .. n - m + 1 : t[i] = s[m + i - 1]
    BY <1>1, <2>1, PartOfText
  <2> HIDE DEF t
  <2>3. t[1] # Blank /\ t[Len(t)] # Blank
    <3>1. t[1] = s[m + 1 - 1] /\ t[Len(t)] = s[m + Len(t) - 1]
      BY <1>1, <2>1, <2>2
    <3>2. m + 1 - 1 = m /\ m + Len(t) - 1 = n
      BY <1>1, <2>1, <2>2
    <3> QED
      BY <2>1, <3>1, <3>2
  <2>4. \A i \in 1 .. Len(t) : t[i] = s[m + i - 1] /\ m + i - 1 \in 1 .. Len(s)
    BY <1>1, <2>1, <2>2
  <2>5. Len(t) <= Len(s)
    BY <1>1, <2>1, <2>2
  <2>6. ASSUME Len(t) = Len(s) PROVE t = s
    <3>1. m = 1 /\ n = Len(s)
      BY <1>1, <2>1, <2>2, <2>6
    <3>2. \A i \in 1 .. Len(t) : t[i] = s[i]
      BY <1>1, <2>4, <3>1
    <3> QED
      BY <2>2, <2>6, <3>2, TextEqual
  <2> QED
    BY <2>2, <2>3, <2>4, <2>5, <2>6 DEF t
<1> QED
  BY <1>2, <1>3, TrimIs

\* Trimming does nothing to a text that begins and ends with no blank.
LEMMA TrimNothing ==
  ASSUME NEW s \in Text, s # <<>> => s[1] # Blank /\ s[Len(s)] # Blank
  PROVE  Trim(s) = s
<1>1. Len(s) \in Nat /\ (s = <<>> <=> Len(s) = 0)
  BY TextProperties
<1>2. CASE s = <<>>
  BY <1>1, <1>2, TrimIs
<1>3. CASE s # <<>>
  <2>1. PICK m, n \in 1 .. Len(s) :
          /\ \A i \in 1 .. Len(s) : s[i] # Blank => m <= i /\ i <= n
          /\ Trim(s) = SubSeq(s, m, n)
    BY <1>1, <1>3, TrimIs
  <2>2. m = 1 /\ n = Len(s)
    BY <1>1, <1>3, <2>1
  <2> QED
    BY <2>1, <2>2, SubSeqFull DEF Text
<1> QED
  BY <1>2, <1>3

LEMMA TrimTwice ==
  ASSUME NEW s \in Text
  PROVE  Trim(Trim(s)) = Trim(s)
BY TrimProperties, TrimNothing

\* A text is split at the first c, if there is one.
LEMMA SplitIs ==
  ASSUME NEW s \in Text, NEW c
  PROVE  \/ ~Split(s, c).found /\ \A i \in 1 .. Len(s) : s[i] # c
         \/ \E i \in 1 .. Len(s) :
              /\ s[i] = c /\ \A j \in 1 .. Len(s) : s[j] = c => i <= j
              /\ Split(s, c) = [found |-> TRUE, before |-> SubSeq(s, 1, i - 1),
                                after |-> SubSeq(s, i + 1, Len(s))]
<1> DEFINE I == {i \in 1 .. Len(s) : s[i] = c}
           at == IF I # {} THEN Min(I) ELSE 0
<1>1. Split(s, c) = [found |-> at > 0, before |-> SubSeq(s, 1, at - 1),
                     after |-> SubSeq(s, at + 1, Len(s))]
  BY DEF Split, SelectInSeq
<1>2. Len(s) \in Nat
  BY TextProperties
<1>3. CASE I = {}
  <2>1. at = 0
    BY <1>3
  <2>2. \A x \in 1 .. Len(s) : s[x] # c
    BY <1>3
  <2> HIDE DEF at
  <2>3. (at > 0) = FALSE
    BY <2>1
  <2>4. Split(s, c) = [found |-> FALSE, before |-> SubSeq(s, 1, at - 1),
                       after |-> SubSeq(s, at + 1, Len(s))]
    BY <1>1, <2>3, Zenon
  <2>5. ~Split(s, c).found
    BY <2>4
  <2> QED
    BY <2>2, <2>5
<1>4. CASE I # {}
  <2>1. I \in SUBSET Nat
    BY <1>2
  <2>2. at \in I /\ \A j \in I : at <= j
    BY <1>4, <2>1, MinIs
  <2> HIDE DEF at
  <2>3. at \in 1 .. Len(s) /\ s[at] = c /\ at > 0
    BY <1>2, <2>2
  <2>4. \A j \in 1 .. Len(s) : s[j] = c => at <= j
    BY <2>2
  <2> QED
    BY <1>1, <2>3, <2>4
<1> QED
  BY <1>3, <1>4

\* The characters of a text put together with c between its parts.
LEMMA Joined ==
  ASSUME NEW S, NEW a \in Seq(S), NEW c \in S, NEW b \in Seq(S)
  PROVE  LET s == a \o <<c>> \o b
         IN  /\ s \in Seq(S) /\ Len(s) = Len(a) + 1 + Len(b)
             /\ \A i \in 1 .. Len(a) : s[i] = a[i]
             /\ s[Len(a) + 1] = c
             /\ \A i \in 1 .. Len(b) : s[Len(a) + 1 + i] = b[i]
<1> DEFINE ac == a \o <<c>>
<1>1. <<c>> \in Seq(S) /\ Len(<<c>>) = 1 /\ <<c>>[1] = c
  OBVIOUS
<1>2. Len(a) \in Nat /\ Len(b) \in Nat
  BY LenProperties
<1>3. /\ ac \in Seq(S) /\ Len(ac) = Len(a) + 1
      /\ \A i \in 1 .. Len(a) : ac[i] = a[i]
      /\ ac[Len(a) + 1] = c
  BY <1>1, <1>2, ConcatProperties
<1> HIDE DEF ac
<1> DEFINE s == ac \o b
<1>4. /\ s \in Seq(S) /\ Len(s) = Len(ac) + Len(b)
      /\ \A i \in 1 .. Len(ac) + Len(b) : s[i] = IF i <= Len(ac) THEN ac[i] ELSE b[i - Len(ac)]
  BY <1>3, ConcatProperties
<1> HIDE DEF s
<1>5. Len(s) = Len(a) + 1 + Len(b)
  BY <1>3, <1>4
<1>6. \A i \in 1 .. Len(a) : s[i] = a[i]
  BY <1>2, <1>3, <1>4
<1>7. s[Len(a) + 1] = c
  BY <1>2, <1>3, <1>4
<1>8. \A i \in 1 .. Len(b) : s[Len(a) + 1 + i] = b[i]
  <2> TAKE i \in 1 .. Len(b)
  <2>1. Len(a) + 1 + i - Len(ac) = i /\ ~(Len(a) + 1 + i <= Len(ac))
        /\ Len(a) + 1 + i \in 1 .. Len(ac) + Len(b)
    BY <1>2, <1>3
  <2> QED
    BY <1>4, <2>1
<1> QED
  BY <1>4, <1>5, <1>6, <1>7, <1>8 DEF s, ac

\* The first c of a text is where it was put, if there is none before.
LEMMA SplitJoined ==
  ASSUME NEW a \in Text, NEW c \in Runs, NEW b \in Text,
         \A i \in 1 .. Len(a) : a[i] # c
  PROVE  Split(a \o <<c>> \o b, c) = [found |-> TRUE, before |-> a, after |-> b]
<1> DEFINE s == a \o <<c>> \o b
<1>2. Len(a) \in Nat /\ Len(b) \in Nat
  BY TextProperties
<1>4. /\ s \in Text /\ Len(s) = Len(a) + 1 + Len(b)
      /\ \A i \in 1 .. Len(a) : s[i] = a[i]
      /\ s[Len(a) + 1] = c
      /\ \A i \in 1 .. Len(b) : s[Len(a) + 1 + i] = b[i]
  BY Joined DEF Text
<1> HIDE DEF s
<1>5. PICK i \in 1 .. Len(s) :
        /\ s[i] = c /\ \A j \in 1 .. Len(s) : s[j] = c => i <= j
        /\ Split(s, c) = [found |-> TRUE, before |-> SubSeq(s, 1, i - 1),
                          after |-> SubSeq(s, i + 1, Len(s))]
  <2>1. ~(\A i \in 1 .. Len(s) : s[i] # c)
    BY <1>2, <1>4
  <2>2. s \in Text
    BY <1>4
  <2> QED
    BY <2>1, <2>2, SplitIs
<1>6. i = Len(a) + 1
  BY <1>2, <1>4, <1>5
<1>7. SubSeq(s, 1, i - 1) = a
  <2>1. i - 1 = Len(a)
    BY <1>2, <1>6
  <2>2. /\ SubSeq(s, 1, Len(a)) \in Text /\ Len(SubSeq(s, 1, Len(a))) = Len(a)
        /\ \A j \in 1 .. Len(a) : SubSeq(s, 1, Len(a))[j] = s[j]
    BY <1>2, <1>4, PartOfText
  <2> QED
    BY <1>4, <2>1, <2>2, TextEqual
<1>8. SubSeq(s, i + 1, Len(s)) = b
  <2> DEFINE r == SubSeq(s, Len(a) + 2, Len(s))
  <2>1. /\ r \in Text /\ Len(r) = Len(b)
        /\ \A j \in 1 .. Len(b) : r[j] = s[Len(a) + 2 + j - 1]
    BY <1>2, <1>4, PartOfText
  <2>2. \A j \in 1 .. Len(b) : Len(a) + 2 + j - 1 = Len(a) + 1 + j
    BY <1>2
  <2> HIDE DEF r
  <2>3. r = b
    <3>1. \A j \in 1 .. Len(b) : r[j] = b[j]
      BY <1>4, <2>1, <2>2
    <3>2. \A j \in 1 .. Len(r) : r[j] = b[j]
      BY <2>1, <3>1
    <3> QED
      BY <2>1, <3>2, TextEqual
  <2>4. i + 1 = Len(a) + 2
    BY <1>2, <1>6
  <2> QED
    BY <2>3, <2>4 DEF r
<1> QED
  BY <1>5, <1>7, <1>8 DEF s

\* Cutting a text at c makes it shorter, or there is no c.
LEMMA UpToIs ==
  ASSUME NEW s \in Text, NEW c
  PROVE  /\ UpTo(s, c) \in Text /\ Len(UpTo(s, c)) <= Len(s)
         /\ Len(UpTo(s, c)) = Len(s) => \A i \in 1 .. Len(s) : s[i] # c
         /\ (\A i \in 1 .. Len(s) : s[i] # c) => UpTo(s, c) = s
<1>1. Len(s) \in Nat
  BY TextProperties
<1>2. CASE ~Split(s, c).found
  <2>1. UpTo(s, c) = s
    BY <1>2 DEF UpTo
  <2>2. \A i \in 1 .. Len(s) : s[i] # c
    BY <1>2, SplitIs
  <2> QED
    BY <1>1, <2>1, <2>2
<1>3. CASE Split(s, c).found
  <2>1. PICK i \in 1 .. Len(s) :
          /\ s[i] = c
          /\ Split(s, c) = [found |-> TRUE, before |-> SubSeq(s, 1, i - 1),
                            after |-> SubSeq(s, i + 1, Len(s))]
    BY <1>3, SplitIs
  <2>2. UpTo(s, c) = SubSeq(s, 1, i - 1)
    BY <1>3, <2>1 DEF UpTo
  <2>3. SubSeq(s, 1, i - 1) \in Text /\ Len(SubSeq(s, 1, i - 1)) = i - 1
    <3>1. i - 1 \in Int /\ i - 1 <= Len(s)
      BY <1>1
    <3>2. /\ SubSeq(s, 1, i - 1) \in Text
          /\ Len(SubSeq(s, 1, i - 1)) = IF 1 <= i - 1 THEN (i - 1) - 1 + 1 ELSE 0
      BY <1>1, <3>1, PartOfText
    <3>3. CASE 1 <= i - 1
      BY <1>1, <3>2, <3>3
    <3>4. CASE i = 1
      BY <3>2, <3>4
    <3> QED
      BY <1>1, <3>2, <3>3, <3>4
  <2>4. i - 1 < Len(s) /\ i - 1 <= Len(s)
    BY <1>1
  <2> QED
    BY <1>1, <2>1, <2>2, <2>3, <2>4
<1> QED
  BY <1>2, <1>3

(***************************************************************************)
(* dotenv.                                                                 *)
(***************************************************************************)
Closing(t) == Split(Tail(t), t[1])

Whole(t) ==
  /\ t # <<>> /\ t[1] \in Marks /\ Closing(t).found
  /\ LET rest == Trim(Closing(t).after) IN rest = <<>> \/ rest[1] = Hash

Raw(t) ==
  IF Whole(t) THEN SubSeq(t, 1, Len(Closing(t).before) + 2) ELSE Trim(UpTo(t, Hash))

InMarks(t) == Quoted(t) /\ Len(t) > 1
Unmarked(t) == IF InMarks(t) THEN Inside(t) ELSE t

\* Dotenv, with names for what its LET says.
LEMMA DotenvIs ==
  ASSUME NEW s
  PROVE  Dotenv(s) = Unmarked(Raw(Trim(s)))
BY DEF Dotenv, Unmarked, Raw, Whole, Closing, InMarks, Marks, Hash

LEMMA InMarksIs ==
  ASSUME NEW t \in Text
  PROVE  InMarks(t) <=> Len(t) > 1 /\ t[1] \in Marks /\ t[Len(t)] = t[1]
<1>1. Quoted(t) <=> t # <<>> /\ t[1] \in Marks /\ t[Len(t)] = t[1]
  BY DEF Quoted, Marks
<1>2. Len(t) > 1 => t # <<>>
  BY TextProperties
<1> QED
  BY <1>1, <1>2 DEF InMarks

LEMMA KeptIs ==
  ASSUME NEW t \in Text
  PROVE  Kept(t) <=> /\ Trim(t) = t /\ ~InMarks(t)
                     /\ \A i \in 1 .. Len(t) : t[i] # Hash
BY TextProperties DEF Kept, InMarks, Hash

\* The quotes at the start of t and at p are taken off.
LEMMA ClosingIs ==
  ASSUME NEW t \in Text, t # <<>>, Closing(t).found
  PROVE  \E p \in 2 .. Len(t) :
           /\ t[p] = t[1]
           /\ Len(Closing(t).before) = p - 2
           /\ Closing(t).after = SubSeq(t, p + 1, Len(t))
<1> DEFINE u == Tail(t)
<1>1. Len(t) \in Nat /\ Len(t) > 0
  BY TextProperties
<1>2. /\ u \in Text /\ Len(u) = Len(t) - 1
      /\ \A i \in 1 .. Len(u) : u[i] = t[i + 1]
  BY HeadTailProperties DEF Text
<1> HIDE DEF u
<1>3. PICK i \in 1 .. Len(u) :
        /\ u[i] = t[1]
        /\ Closing(t) = [found |-> TRUE, before |-> SubSeq(u, 1, i - 1),
                         after |-> SubSeq(u, i + 1, Len(u))]
  <2>1. Closing(t) = Split(u, t[1])
    BY DEF Closing, u
  <2>2. Split(u, t[1]).found
    BY <2>1
  <2>3. \E i \in 1 .. Len(u) :
          /\ u[i] = t[1]
          /\ Split(u, t[1]) = [found |-> TRUE, before |-> SubSeq(u, 1, i - 1),
                               after |-> SubSeq(u, i + 1, Len(u))]
    BY <1>2, <2>2, SplitIs
  <2> QED
    BY <2>1, <2>3
<1> DEFINE p == i + 1
<1>4. p \in 2 .. Len(t) /\ t[p] = t[1]
  BY <1>1, <1>2, <1>3
<1>5. Len(Closing(t).before) = p - 2
  <2>1. Len(SubSeq(u, 1, i - 1)) = i - 1
    BY <1>1, <1>2, PartOfText
  <2>2. Closing(t).before = SubSeq(u, 1, i - 1)
    BY <1>3
  <2> QED
    BY <1>1, <1>2, <2>1, <2>2
<1>6. Closing(t).after = SubSeq(t, p + 1, Len(t))
  <2> DEFINE a == SubSeq(u, i + 1, Len(u))
             b == SubSeq(t, i + 2, Len(t))
  <2>1. /\ a \in Text /\ Len(a) = Len(t) - 1 - i
        /\ \A j \in 1 .. Len(t) - 1 - i : a[j] = u[i + 1 + j - 1]
    BY <1>1, <1>2, PartOfText
  <2>2. /\ b \in Text /\ Len(b) = Len(t) - 1 - i
        /\ \A j \in 1 .. Len(t) - 1 - i : b[j] = t[i + 2 + j - 1]
    BY <1>1, <1>2, PartOfText
  <2>3. Closing(t).after = a
    BY <1>3
  <2> HIDE DEF a, b
  <2>4. \A j \in 1 .. Len(t) - 1 - i : a[j] = b[j]
    <3> TAKE j \in 1 .. Len(t) - 1 - i
    <3>1. i + 1 + j - 1 \in 1 .. Len(u) /\ i + 2 + j - 1 = (i + 1 + j - 1) + 1
      BY <1>1, <1>2
    <3> QED
      BY <1>2, <2>1, <2>2, <3>1
  <2>5. a = b
    BY <2>1, <2>2, <2>4, TextEqual
  <2>6. p + 1 = i + 2
    BY <1>1, <1>2
  <2> QED
    BY <2>3, <2>5, <2>6 DEF b
<1> HIDE DEF p
<1> QED
  BY <1>4, <1>5, <1>6

\* What is left of a text in quotes ends at p; only blanks or a comment follow.
LEMMA WholeIs ==
  ASSUME NEW t \in Text, Whole(t)
  PROVE  \E p \in 2 .. Len(t) :
           /\ t[1] \in Marks /\ t[p] = t[1] /\ Raw(t) = SubSeq(t, 1, p)
           /\ \/ \A i \in p + 1 .. Len(t) : t[i] = Blank
              \/ \E i \in p + 1 .. Len(t) : t[i] = Hash
<1>1. t # <<>> /\ t[1] \in Marks /\ Closing(t).found /\ Len(t) \in Nat
  BY TextProperties DEF Whole
<1>2. PICK p \in 2 .. Len(t) :
        /\ t[p] = t[1]
        /\ Len(Closing(t).before) = p - 2
        /\ Closing(t).after = SubSeq(t, p + 1, Len(t))
  BY <1>1, ClosingIs
<1>3. Raw(t) = SubSeq(t, 1, p)
  <2>1. Len(Closing(t).before) + 2 = p
    BY <1>1, <1>2
  <2> QED
    BY <2>1 DEF Raw
<1> DEFINE a == SubSeq(t, p + 1, Len(t))
<1>4. /\ a \in Text /\ Len(a) = Len(t) - p
      /\ \A j \in 1 .. Len(t) - p : a[j] = t[p + 1 + j - 1]
  BY <1>1, PartOfText
<1>5. Trim(a) = <<>> \/ Trim(a)[1] = Hash
  BY <1>2 DEF Whole
<1> HIDE DEF a
<1>6. \A i \in p + 1 .. Len(t) : i - p \in 1 .. Len(a) /\ t[i] = a[i - p]
  <2> TAKE i \in p + 1 .. Len(t)
  <2>1. i - p \in 1 .. Len(t) - p /\ p + 1 + (i - p) - 1 = i
    BY <1>1
  <2> QED
    BY <1>4, <2>1
<1>7. CASE Trim(a) = <<>>
  <2>1. \A j \in 1 .. Len(a) : a[j] = Blank
    <3>1. CASE \A j \in 1 .. Len(a) : a[j] = Blank
      BY <3>1
    <3>2. CASE \E m, n \in 1 .. Len(a) : m <= n /\ Trim(a) = SubSeq(a, m, n)
      <4>1. PICK m, n \in 1 .. Len(a) : m <= n /\ Trim(a) = SubSeq(a, m, n)
        BY <3>2
      <4>2. Len(SubSeq(a, m, n)) = n - m + 1
        BY <1>1, <1>4, <4>1, PartOfText
      <4>3. Len(SubSeq(a, m, n)) = 0
        BY <1>7, <4>1, EmptySeq
      <4> QED
        BY <1>1, <1>4, <4>1, <4>2, <4>3
    <3> QED
      BY <1>4, <3>1, <3>2, TrimIs
  <2> QED
    BY <1>1, <1>2, <1>3, <1>6, <2>1
<1>8. CASE Trim(a) # <<>> /\ Trim(a)[1] = Hash
  <2>1. Len(Trim(a)) \in Nat /\ Len(Trim(a)) > 0
    BY <1>4, <1>8, TrimProperties, TextProperties
  <2>2. 1 \in 1 .. Len(Trim(a))
    BY <2>1
  <2>3. PICK j \in 1 .. Len(a) : a[j] = Hash
    BY <1>4, <1>8, <2>2, TrimProperties
  <2>4. p + j \in p + 1 .. Len(t) /\ p + 1 + j - 1 = p + j /\ j \in 1 .. Len(t) - p
    BY <1>1, <1>4
  <2>5. t[p + j] = Hash
    BY <1>4, <2>3, <2>4
  <2> QED
    BY <1>1, <1>2, <1>3, <2>4, <2>5
<1> QED
  BY <1>5, <1>7, <1>8

\* A trimmed text without # is taken whole, and loses its quotes.
LEMMA DotenvUncut ==
  ASSUME NEW t \in Text, Trim(t) = t, \A i \in 1 .. Len(t) : t[i] # Hash
  PROVE  Raw(t) = t /\ Dotenv(t) = Unmarked(t)
<1>1. Len(t) \in Nat
  BY TextProperties
<1>2. CASE Whole(t)
  <2>1. PICK p \in 2 .. Len(t) :
           /\ Raw(t) = SubSeq(t, 1, p)
           /\ \/ \A i \in p + 1 .. Len(t) : t[i] = Blank
              \/ \E i \in p + 1 .. Len(t) : t[i] = Hash
    BY <1>2, WholeIs
  <2>2. t # <<>> /\ t[Len(t)] # Blank
    BY <1>2, TrimProperties DEF Whole
  <2>3. p + 1 .. Len(t) \subseteq 1 .. Len(t)
    BY <1>1
  <2>4. \A i \in p + 1 .. Len(t) : t[i] = Blank
    BY <2>1, <2>3
  <2>5. Len(t) \notin p + 1 .. Len(t)
    BY <2>2, <2>4
  <2>6. p = Len(t)
    BY <1>1, <2>5
  <2>7. Raw(t) = t
    BY <2>1, <2>6, SubSeqFull DEF Text
  <2> QED
    BY <2>7, DotenvIs
<1>3. CASE ~Whole(t)
  <2>1. UpTo(t, Hash) = t
    BY UpToIs
  <2>2. Raw(t) = t
    BY <1>3, <2>1 DEF Raw
  <2> QED
    BY <2>2, DotenvIs
<1> QED
  BY <1>2, <1>3

\* Before quotes are taken off, a text has only become shorter; if it was cut at the closing
\* quote, it is in quotes.
LEMMA RawShorter ==
  ASSUME NEW t \in Text
  PROVE  /\ Raw(t) \in Text /\ Len(Raw(t)) <= Len(t)
         /\ Whole(t) => InMarks(Raw(t))
         /\ ~Whole(t) /\ Len(Raw(t)) = Len(t) => \A i \in 1 .. Len(t) : t[i] # Hash
<1>1. Len(t) \in Nat
  BY TextProperties
<1>2. CASE Whole(t)
  <2>1. PICK p \in 2 .. Len(t) : t[1] \in Marks /\ t[p] = t[1] /\ Raw(t) = SubSeq(t, 1, p)
    BY <1>2, WholeIs
  <2>2. /\ Raw(t) \in Text /\ Len(Raw(t)) = p
        /\ \A j \in 1 .. p : Raw(t)[j] = t[1 + j - 1]
    BY <1>1, <2>1, PartOfText
  <2>3. Raw(t)[1] = t[1] /\ Raw(t)[p] = t[p]
    <3>1. 1 \in 1 .. p /\ p \in 1 .. p /\ 1 + 1 - 1 = 1 /\ 1 + p - 1 = p
      BY <1>1
    <3> QED
      BY <2>2, <3>1
  <2>4. InMarks(Raw(t))
    <3>1. p > 1
      BY <1>1
    <3> QED
      BY <2>1, <2>2, <2>3, <3>1, InMarksIs
  <2>5. p <= Len(t)
    BY <1>1
  <2> QED
    BY <1>2, <2>2, <2>4, <2>5
<1>3. CASE ~Whole(t)
  <2> DEFINE u == UpTo(t, Hash)
  <2>1. Raw(t) = Trim(u)
    BY <1>3 DEF Raw
  <2>2. /\ u \in Text /\ Len(u) <= Len(t)
        /\ Len(u) = Len(t) => \A i \in 1 .. Len(t) : t[i] # Hash
    BY UpToIs
  <2> HIDE DEF u
  <2>3. Trim(u) \in Text /\ Len(Trim(u)) <= Len(u) /\ Len(u) \in Nat /\ Len(Trim(u)) \in Nat
    BY <2>2, TrimProperties, TextProperties
  <2>4. Len(Raw(t)) <= Len(t) /\ (Len(Raw(t)) = Len(t) => Len(u) = Len(t))
    BY <1>1, <2>1, <2>2, <2>3
  <2> QED
    BY <1>3, <2>1, <2>2, <2>3, <2>4
<1> QED
  BY <1>2, <1>3

\* What dotenv gives back unchanged is what Kept describes.
LEMMA DotenvKeeps ==
  ASSUME NEW t \in Text
  PROVE  Dotenv(t) = t <=> Kept(t)
<1>1. ASSUME Kept(t) PROVE Dotenv(t) = t
  BY <1>1, KeptIs, DotenvUncut DEF Unmarked
<1>2. ASSUME Dotenv(t) = t PROVE Kept(t)
  <2> DEFINE u == Trim(t)
             r == Raw(u)
  <2>1. u \in Text /\ Len(u) <= Len(t) /\ (Len(u) = Len(t) => u = t)
    BY TrimProperties
  <2> HIDE DEF u
  <2>2. r \in Text /\ Len(r) <= Len(u) /\ (Whole(u) => InMarks(r))
        /\ (~Whole(u) /\ Len(r) = Len(u) => \A i \in 1 .. Len(u) : u[i] # Hash)
    BY <2>1, RawShorter
  <2>3. t = Unmarked(r)
    BY <1>2, DotenvIs DEF u
  <2> HIDE DEF r
  <2>4. Len(t) \in Nat /\ Len(u) \in Nat /\ Len(r) \in Nat
    BY <2>1, <2>2, TextProperties
  <2>5. ~InMarks(r)
    <3>1. SUFFICES ASSUME InMarks(r) PROVE FALSE
      OBVIOUS
    <3>2. t = SubSeq(r, 2, Len(r) - 1) /\ Len(r) > 1
      BY <2>3, <3>1 DEF Unmarked, Inside, InMarks
    <3>3. Len(t) < Len(r)
      BY <2>2, <2>4, <3>2, PartOfText
    <3> QED
      BY <2>1, <2>2, <2>4, <3>3
  <2>6. t = r
    BY <2>3, <2>5 DEF Unmarked
  <2>7. u = t
    BY <2>1, <2>2, <2>4, <2>6
  <2> QED
    BY <2>2, <2>5, <2>6, <2>7, KeptIs DEF u
<1> QED
  BY <1>1, <1>2

\* parseEnvFile may take the quotes off a text that does not need them.
LEMMA DotenvOfParsed ==
  ASSUME NEW s \in Text, Unquotable(s)
  PROVE  ParseEnv(s) \in Text /\ Dotenv(ParseEnv(s)) = Dotenv(s)
<1> DEFINE t == Trim(s)
<1>1. t \in Text /\ Trim(t) = t /\ Len(t) \in Nat
  BY TrimProperties, TrimTwice, TextProperties
<1>2. Dotenv(s) = Unmarked(Raw(t)) /\ Dotenv(t) = Unmarked(Raw(t))
  BY <1>1, DotenvIs
<1>3. ParseEnv(s) = IF Quoted(t) THEN Inside(t) ELSE t
  BY DEF ParseEnv
<1>4. Quoted(t) => Len(t) > 1 /\ Kept(Inside(t))
  BY DEF Unquotable
<1> HIDE DEF t
<1>5. CASE ~Quoted(t)
  BY <1>1, <1>2, <1>3, <1>5
<1>6. CASE Quoted(t)
  <2>1. InMarks(t) /\ Len(t) > 1 /\ Kept(Inside(t))
    BY <1>4, <1>6 DEF InMarks
  <2>2. t[1] \in Marks /\ t[Len(t)] \in Marks
    BY <1>1, <2>1, InMarksIs
  <2> DEFINE u == Inside(t)
  <2>3. /\ u \in Text /\ Len(u) = Len(t) - 2
        /\ \A j \in 1 .. Len(t) - 2 : u[j] = t[2 + j - 1]
    <3>1. u = SubSeq(t, 2, Len(t) - 1) /\ Len(t) - 1 <= Len(t) /\ Len(t) - 1 \in Int
      BY <1>1 DEF Inside
    <3>2. (Len(t) - 1) - 2 + 1 = Len(t) - 2
      BY <1>1
    <3> HIDE DEF u
    <3>3. /\ u \in Text
          /\ Len(u) = IF 2 <= Len(t) - 1 THEN (Len(t) - 1) - 2 + 1 ELSE 0
          /\ \A j \in 1 .. (Len(t) - 1) - 2 + 1 : u[j] = t[2 + j - 1]
      BY <1>1, <3>1, PartOfText
    <3>4. Len(u) = Len(t) - 2
      <4>1. Len(t) \in Nat /\ Len(t) > 1
        BY <1>1, <2>1
      <4>2. Len(u) = IF 2 <= Len(t) - 1 THEN (Len(t) - 1) - 2 + 1 ELSE 0
        BY <3>3
      <4>3. CASE 2 <= Len(t) - 1
        BY <4>1, <4>2, <4>3
      <4>4. CASE ~(2 <= Len(t) - 1)
        <5>1. Len(t) = 2
          BY <4>1, <4>4
        <5>2. Len(u) = 0
          BY <4>2, <4>4
        <5> QED
          BY <5>1, <5>2
      <4> QED
        BY <4>3, <4>4
    <3> QED
      BY <3>2, <3>3, <3>4
  <2> HIDE DEF u
  <2>4. \A i \in 1 .. Len(u) : u[i] # Hash
    BY <2>1, <2>3, KeptIs DEF u
  <2>5. \A i \in 1 .. Len(t) : t[i] # Hash
    <3> TAKE i \in 1 .. Len(t)
    <3>1. CASE i = 1 \/ i = Len(t)
      BY <2>2, <3>1, CharactersDiffer
    <3>2. CASE i # 1 /\ i # Len(t)
      <4>1. i - 1 \in 1 .. Len(t) - 2 /\ 2 + (i - 1) - 1 = i
        BY <1>1, <3>2
      <4> QED
        BY <2>3, <2>4, <4>1
    <3> QED
      BY <3>1, <3>2
  <2>6. Dotenv(t) = u
    BY <1>1, <2>1, <2>5, DotenvUncut DEF Unmarked, u
  <2>7. Dotenv(u) = u
    BY <2>1, <2>3, DotenvKeeps DEF u
  <2> QED
    BY <1>2, <1>3, <1>6, <2>3, <2>6, <2>7 DEF u
<1> QED
  BY <1>5, <1>6

\* The tables of env-definitions.ts.
LEMMA SavedKeys ==
  DOMAIN Saved = {"NODE_ENV", "PORT", "API_VERSION", "REDIS_MODE", "REDIS_HOST", "REDIS_PORT",
    "REDIS_PASSWORD", "JWT_SECRET", "JWT_ACCESS_EXPIRES_IN", "JWT_REFRESH_EXPIRES_IN",
    "GOOGLE_CLIENT_ID", "GOOGLE_CLIENT_SECRET", "MAX_DEVICES_PER_USER", "GOOGLE_CALLBACK_URL",
    "ENCRYPTION_KEY", "DEFAULT_TIMEZONE", "CORS_ORIGINS", "LOG_DIR", "SWAGGER_ENABLED",
    "SWAGGER_PATH"}
BY DEF Saved, Over, App, Redis, Auth, Etc

LEMMA DatabaseKeys ==
  DOMAIN Database = {"DB_HOST", "DB_PORT", "DB_USER", "DB_PASSWORD", "DB_NAME"}
BY DEF Database

LEMMA DefaultKeys ==
  /\ DOMAIN Default = DOMAIN Saved \cup DOMAIN Database
  /\ DOMAIN Saved \cap DOMAIN Database = {}
  /\ "DATABASE_URL" \notin DOMAIN Default
  /\ Numbers \subseteq DOMAIN Default
<1>1. DOMAIN Default = DOMAIN Saved \cup DOMAIN Database
  BY DEF Default, Over
<1>2. DOMAIN Saved \cap DOMAIN Database = {}
  BY SavedKeys, DatabaseKeys
<1>3. "DATABASE_URL" \notin DOMAIN Default
  BY <1>1, SavedKeys, DatabaseKeys
<1>4. Numbers \subseteq DOMAIN Default
  BY <1>1, SavedKeys, DatabaseKeys DEF Numbers
<1> QED
  BY <1>1, <1>2, <1>3, <1>4

LEMMA DefaultOf ==
  /\ \A k \in DOMAIN Saved : Default[k] = Saved[k]
  /\ \A k \in DOMAIN Database : Default[k] = Database[k]
  /\ Default \in [DOMAIN Default -> Text]
<1>1. \A k \in DOMAIN Saved : Default[k] = Saved[k]
  BY DEF Default, Over
<1>2. \A k \in DOMAIN Database : Default[k] = Database[k]
  BY DefaultKeys DEF Default, Over
<1>3. Default \in [DOMAIN Default -> Text]
  BY RunsAssumption DEF Default, Over
<1> QED
  BY <1>1, <1>2, <1>3

LEMMA DatabaseIs ==
  /\ Database["DB_HOST"] = <<"localhost">> /\ Database["DB_PORT"] = <<"3306">>
  /\ Database["DB_USER"] = <<"root">> /\ Database["DB_PASSWORD"] = <<>>
  /\ Database["DB_NAME"] = <<"nestjs_engine_db">>
BY DEF Database

LEMMA DefaultNumbers ==
  \A k \in Numbers : Number(Default[k])
<1>1. /\ Saved["PORT"] = <<"3000">> /\ Saved["REDIS_PORT"] = <<"6379">>
      /\ Saved["MAX_DEVICES_PER_USER"] = <<"1">>
  BY DEF Saved, Over, App, Redis, Auth, Etc
<1>2. /\ Default["PORT"] = <<"3000">> /\ Default["REDIS_PORT"] = <<"6379">>
      /\ Default["MAX_DEVICES_PER_USER"] = <<"1">> /\ Default["DB_PORT"] = <<"3306">>
  BY <1>1, DefaultOf, DatabaseIs, SavedKeys, DatabaseKeys
<1>3. /\ Number(<<"3000">>) /\ Number(<<"6379">>) /\ Number(<<"1">>) /\ Number(<<"3306">>)
  BY DEF Number
<1> QED
  BY <1>2, <1>3 DEF Numbers

LEMMA EscapeIs ==
  /\ DOMAIN Escape = {" ", "#", "\"", "@", ":", "/"}
  /\ \A c, d \in DOMAIN Escape : Escape[c] # d /\ (Escape[c] = Escape[d] => c = d)
BY DEF Escape

\* Both parts of a text are texts, and the first is without c.
LEMMA SplitTyped ==
  ASSUME NEW s \in Text, NEW c, Split(s, c).found
  PROVE  /\ Split(s, c).before \in Text /\ Split(s, c).after \in Text
         /\ \A i \in 1 .. Len(Split(s, c).before) : Split(s, c).before[i] # c
<1>1. Len(s) \in Nat
  BY TextProperties
<1>2. PICK i \in 1 .. Len(s) :
        /\ s[i] = c /\ \A j \in 1 .. Len(s) : s[j] = c => i <= j
        /\ Split(s, c) = [found |-> TRUE, before |-> SubSeq(s, 1, i - 1),
                          after |-> SubSeq(s, i + 1, Len(s))]
  BY SplitIs
<1>3. SubSeq(s, i + 1, Len(s)) \in Text
  BY <1>1, PartOfText
<1> DEFINE b == SubSeq(s, 1, i - 1)
<1>4. b \in Text /\ Len(b) = i - 1 /\ \A j \in 1 .. i - 1 : b[j] = s[1 + j - 1]
  BY <1>1, PartOfText
<1> HIDE DEF b
<1>5. \A j \in 1 .. Len(b) : b[j] # c
  <2> TAKE j \in 1 .. Len(b)
  <2>1. 1 + j - 1 = j /\ j \in 1 .. Len(s) /\ ~(i <= j)
    BY <1>1, <1>4
  <2> QED
    BY <1>2, <1>4, <2>1
<1> QED
  BY <1>2, <1>3, <1>4, <1>5 DEF b

\* parseEnvFile only leaves out characters.
LEMMA ParseEnvTyped ==
  ASSUME NEW s \in Text
  PROVE  /\ ParseEnv(s) \in Text
         /\ \A i \in 1 .. Len(ParseEnv(s)) : \E j \in 1 .. Len(s) : ParseEnv(s)[i] = s[j]
<1> DEFINE t == Trim(s)
<1>1. /\ t \in Text /\ Len(t) \in Nat
      /\ \A i \in 1 .. Len(t) : \E j \in 1 .. Len(s) : t[i] = s[j]
  BY TrimProperties, TextProperties
<1>2. ParseEnv(s) = IF Quoted(t) THEN Inside(t) ELSE t
  BY DEF ParseEnv
<1> HIDE DEF t
<1>3. CASE ~Quoted(t)
  BY <1>1, <1>2, <1>3
<1>4. CASE Quoted(t)
  <2> DEFINE u == SubSeq(t, 2, Len(t) - 1)
  <2>1. /\ u \in Text /\ Len(u) = IF 2 <= Len(t) - 1 THEN (Len(t) - 1) - 2 + 1 ELSE 0
        /\ \A i \in 1 .. (Len(t) - 1) - 2 + 1 : u[i] = t[2 + i - 1]
    <3>1. Len(t) - 1 \in Int /\ Len(t) - 1 <= Len(t)
      BY <1>1
    <3> QED
      BY <1>1, <3>1, PartOfText
  <2> HIDE DEF u
  <2>2. \A i \in 1 .. Len(u) : i \in 1 .. (Len(t) - 1) - 2 + 1 /\ 2 + i - 1 \in 1 .. Len(t)
    <3>1. CASE 2 <= Len(t) - 1
      BY <1>1, <2>1, <3>1
    <3>2. CASE ~(2 <= Len(t) - 1)
      <4>1. Len(u) = 0
        BY <2>1, <3>2
      <4> QED
        BY <4>1
    <3> QED
      BY <3>1, <3>2
  <2>3. ParseEnv(s) = u
    BY <1>2, <1>4 DEF Inside, u
  <2> QED
    BY <1>1, <2>1, <2>2, <2>3
<1> QED
  BY <1>3, <1>4

LEMMA UnescapedIs ==
  ASSUME NEW s \in Text
  PROVE  Unescaped(s) <=> \A i \in 1 .. Len(s) : \A c \in DOMAIN Escape : s[i] # Escape[c]
BY TextProperties DEF Unescaped

\* A text whose characters are replaced one by one.
LEMMA ChangedText ==
  ASSUME NEW s \in Text, NEW t, t = [i \in DOMAIN s |-> t[i]], \A i \in DOMAIN s : t[i] \in Runs
  PROVE  t \in Text /\ Len(t) = Len(s) /\ DOMAIN t = DOMAIN s
<1>1. DOMAIN s = 1 .. Len(s) /\ Len(s) \in Nat
  BY TextProperties
<1>2. t \in [1 .. Len(s) -> Runs]
  BY <1>1
<1>3. t \in Text
  BY <1>1, <1>2, SeqDef DEF Text
<1>4. DOMAIN t = DOMAIN s
  OBVIOUS
<1>5. DOMAIN t = 1 .. Len(t) /\ Len(t) \in Nat
  BY <1>3, TextProperties
<1> QED
  BY <1>1, <1>3, <1>4, <1>5

\* No character that is escaped is left, the @ and the # among them.
LEMMA EncodeIs ==
  ASSUME NEW s \in Text
  PROVE  /\ Encode(s) \in Text /\ Len(Encode(s)) = Len(s)
         /\ \A i \in 1 .. Len(s) :
              Encode(s)[i] = IF s[i] \in DOMAIN Escape THEN Escape[s[i]] ELSE s[i]
         /\ \A i \in 1 .. Len(s) : Encode(s)[i] \notin DOMAIN Escape
<1>1. DOMAIN s = 1 .. Len(s) /\ \A i \in 1 .. Len(s) : s[i] \in Runs
  BY TextProperties
<1>2. \A i \in DOMAIN s : Encode(s)[i] = IF s[i] \in DOMAIN Escape THEN Escape[s[i]] ELSE s[i]
  BY DEF Encode
<1>3. Encode(s) = [i \in DOMAIN s |-> Encode(s)[i]]
  BY DEF Encode
<1>4. \A c \in DOMAIN Escape : Escape[c] \in Runs /\ Escape[c] \notin DOMAIN Escape
  BY EscapeIs, RunsAssumption
<1>5. \A i \in DOMAIN s : Encode(s)[i] \in Runs
  BY <1>1, <1>2, <1>4
<1>6. Encode(s) \in Text /\ Len(Encode(s)) = Len(s)
  BY <1>3, <1>5, ChangedText
<1> QED
  BY <1>1, <1>2, <1>4, <1>6

\* No escaped character is left.
LEMMA DecodeIs ==
  ASSUME NEW s \in Text
  PROVE  /\ Decode(s) \in Text /\ Len(Decode(s)) = Len(s) /\ Unescaped(Decode(s))
         /\ \A i \in 1 .. Len(s) :
              /\ \A c \in DOMAIN Escape : s[i] = Escape[c] => Decode(s)[i] = c
              /\ (\A c \in DOMAIN Escape : s[i] # Escape[c]) => Decode(s)[i] = s[i]
<1>1. DOMAIN s = 1 .. Len(s) /\ \A i \in 1 .. Len(s) : s[i] \in Runs
  BY TextProperties
<1>2. \A i \in DOMAIN s : Decode(s)[i] = IF \E c \in DOMAIN Escape : Escape[c] = s[i]
                      THEN CHOOSE c \in DOMAIN Escape : Escape[c] = s[i] ELSE s[i]
  BY DEF Decode
<1>3. Decode(s) = [i \in DOMAIN s |-> Decode(s)[i]]
  BY DEF Decode
<1>4. ASSUME NEW i \in DOMAIN s
      PROVE  /\ \A c \in DOMAIN Escape : s[i] = Escape[c] => Decode(s)[i] = c
             /\ (\A c \in DOMAIN Escape : s[i] # Escape[c]) => Decode(s)[i] = s[i]
             /\ Decode(s)[i] \in Runs
             /\ \A c \in DOMAIN Escape : Decode(s)[i] # Escape[c]
  <2>1. CASE \A c \in DOMAIN Escape : s[i] # Escape[c]
    BY <1>1, <1>2, <2>1
  <2>2. ASSUME NEW c \in DOMAIN Escape, s[i] = Escape[c]
        PROVE  Decode(s)[i] = c
    <3>1. \A d \in DOMAIN Escape : Escape[d] = s[i] <=> d = c
      BY <2>2, EscapeIs
    <3>2. (CHOOSE d \in DOMAIN Escape : Escape[d] = s[i]) = c
      BY <3>1
    <3> QED
      BY <1>2, <2>2, <3>2
  <2>3. \A c \in DOMAIN Escape : c \in Runs /\ \A d \in DOMAIN Escape : c # Escape[d]
    BY EscapeIs, RunsAssumption
  <2> QED
    BY <2>1, <2>2, <2>3
<1>5. Decode(s) \in Text /\ Len(Decode(s)) = Len(s)
  BY <1>3, <1>4, ChangedText
<1>6. Unescaped(Decode(s))
  BY <1>1, <1>4, <1>5, UnescapedIs
<1> QED
  BY <1>1, <1>4, <1>5, <1>6

\* decodeURIComponent is the inverse of encodeURIComponent.
LEMMA DecodeOfEncode ==
  ASSUME NEW s \in Text, Unescaped(s)
  PROVE  Decode(Encode(s)) = s
<1> DEFINE e == Encode(s)
<1>1. /\ e \in Text /\ Len(e) = Len(s)
      /\ \A i \in 1 .. Len(s) : e[i] = IF s[i] \in DOMAIN Escape THEN Escape[s[i]] ELSE s[i]
  BY EncodeIs
<1> HIDE DEF e
<1>2. ASSUME NEW i \in 1 .. Len(s) PROVE Decode(e)[i] = s[i]
  <2>1. CASE s[i] \in DOMAIN Escape
    BY <1>1, <2>1, DecodeIs
  <2>2. CASE s[i] \notin DOMAIN Escape
    <3>1. e[i] = s[i] /\ \A c \in DOMAIN Escape : s[i] # Escape[c]
      BY <1>1, <2>2, UnescapedIs
    <3> QED
      BY <1>1, <3>1, DecodeIs
  <2> QED
    BY <2>1, <2>2
<1>3. Decode(e) \in Text /\ Len(Decode(e)) = Len(s)
  BY <1>1, DecodeIs
<1> QED
  BY <1>2, <1>3, TextEqual DEF e

LEMMA TailTyped ==
  ASSUME NEW s \in Text, s # <<>>
  PROVE  Tail(s) \in Text
BY HeadTailProperties DEF Text

\* Whatever the URL, its fields are texts and the port is a number.
LEMMA ParsedUrlTyped ==
  ASSUME NEW url \in Text
  PROVE  LET parsed == ParseDatabaseUrl(url)
         IN  /\ \A x \in DOMAIN Database : parsed[x] \in Text
             /\ Number(parsed["DB_PORT"]) /\ Unescaped(parsed["DB_PASSWORD"])
<1> DEFINE user == Split(Tail(url), ":")
           password == Split(user.after, "@")
           host == Split(password.after, ":")
           port == Split(host.after, "/")
           fits == /\ url # <<>> /\ url[1] = "mysql://"
                   /\ user.found /\ password.found /\ host.found /\ port.found
                   /\ Number(port.before)
                   /\ <<>> \notin {user.before, host.before, port.after}
<1>1. ParseDatabaseUrl(url) =
        IF fits
        THEN [DB_USER |-> user.before, DB_PASSWORD |-> Decode(password.before),
              DB_HOST |-> host.before, DB_PORT |-> port.before, DB_NAME |-> port.after]
        ELSE Database
  BY DEF ParseDatabaseUrl
<1>2. CASE ~fits
  <2>1. ParseDatabaseUrl(url) = Database
    BY <1>1, <1>2
  <2>2. \A x \in DOMAIN Database : Database[x] \in Text
    BY DefaultOf, DefaultKeys
  <2>3. Number(Database["DB_PORT"])
    BY DatabaseIs DEF Number
  <2>4. Unescaped(Database["DB_PASSWORD"])
    BY DatabaseIs DEF Unescaped
  <2> QED
    BY <2>1, <2>2, <2>3, <2>4
<1>3. CASE fits
  <2>1. user.before \in Text /\ user.after \in Text
    BY <1>3, TailTyped, SplitTyped
  <2>2. password.before \in Text /\ password.after \in Text
    BY <1>3, <2>1, SplitTyped
  <2>3. host.before \in Text /\ host.after \in Text
    BY <1>3, <2>2, SplitTyped
  <2>4. port.before \in Text /\ port.after \in Text
    BY <1>3, <2>3, SplitTyped
  <2>5. Number(port.before)
    BY <1>3
  <2>6. Decode(password.before) \in Text /\ Unescaped(Decode(password.before))
    BY <2>2, DecodeIs
  <2>7. fits
    BY <1>3
  <2> HIDE DEF user, password, host, port, fits
  <2>8. ParseDatabaseUrl(url) =
          [DB_USER |-> user.before, DB_PASSWORD |-> Decode(password.before),
           DB_HOST |-> host.before, DB_PORT |-> port.before, DB_NAME |-> port.after]
    BY <1>1, <2>7
  <2> QED
    BY <2>1, <2>3, <2>4, <2>5, <2>6, <2>8, DatabaseKeys
<1> QED
  BY <1>2, <1>3

(***************************************************************************)
(* The page and the file.                                                  *)
(***************************************************************************)
\* The value a field of the page is rendered with.
Value(lines, k) ==
  LET url == ParseEnv(lines["DATABASE_URL"])
      missing == k \notin DOMAIN lines \/ ParseEnv(lines[k]) = <<>>
  IN  IF url # <<>> /\ k \in DOMAIN Database /\ missing THEN ParseDatabaseUrl(url)[k]
      ELSE IF k \in DOMAIN lines THEN ParseEnv(lines[k]) ELSE Default[k]

\* Each field of the page from the lines of .env.
LEMMA PageIs ==
  ASSUME NEW lines, "DATABASE_URL" \in DOMAIN lines
  PROVE  Page(lines) = [k \in DOMAIN Default |-> Rendered(k, Value(lines, k))]
<1> DEFINE values == [k \in DOMAIN lines |-> ParseEnv(lines[k])]
           url == ParseEnv(lines["DATABASE_URL"])
           Missing(k) == k \notin DOMAIN values \/ values[k] = <<>>
           parsed == ParseDatabaseUrl(url)
           more == [k \in {x \in DOMAIN Database : Missing(x)} |-> parsed[k]]
           e == Enrich(values)
<1>1. DOMAIN values = DOMAIN lines /\ \A k \in DOMAIN lines : values[k] = ParseEnv(lines[k])
  OBVIOUS
<1>2. values["DATABASE_URL"] = url
  OBVIOUS
<1>3. e = IF url = <<>> THEN values ELSE Over(more, values)
  BY <1>1, <1>2 DEF Enrich
<1>4. Page(lines) = [k \in DOMAIN Default |->
                       Rendered(k, IF k \in DOMAIN e THEN e[k] ELSE Default[k])]
  BY DEF Page
<1> HIDE DEF values, url, parsed, e
<1>5. ASSUME NEW k \in DOMAIN Default
      PROVE  (IF k \in DOMAIN e THEN e[k] ELSE Default[k]) = Value(lines, k)
  <2>1. Missing(k) <=> k \notin DOMAIN lines \/ ParseEnv(lines[k]) = <<>>
    BY <1>1
  <2>2. Value(lines, k) =
          IF url # <<>> /\ k \in DOMAIN Database /\ Missing(k) THEN parsed[k]
          ELSE IF k \in DOMAIN lines THEN ParseEnv(lines[k]) ELSE Default[k]
    BY <2>1 DEF Value, url, parsed
  <2>3. CASE url = <<>>
    BY <1>1, <1>3, <2>2, <2>3
  <2>4. CASE url # <<>>
    <3>1. e = Over(more, values)
      BY <1>3, <2>4
    <3>2. DOMAIN more = {x \in DOMAIN Database : Missing(x)}
          /\ \A x \in DOMAIN more : more[x] = parsed[x]
      OBVIOUS
    <3> HIDE DEF more
    <3>3. DOMAIN e = DOMAIN more \cup DOMAIN values
          /\ \A x \in DOMAIN e : e[x] = IF x \in DOMAIN more THEN more[x] ELSE values[x]
      BY <3>1 DEF Over
    <3>4. k \in DOMAIN more <=> k \in DOMAIN Database /\ Missing(k)
      BY <3>2
    <3> HIDE DEF Missing
    <3>5. CASE k \in DOMAIN more
      BY <2>2, <2>4, <3>2, <3>3, <3>4, <3>5
    <3>6. CASE k \notin DOMAIN more
      BY <1>1, <2>2, <3>3, <3>4, <3>6
    <3> QED
      BY <3>5, <3>6
  <2> QED
    BY <2>3, <2>4
<1> QED
  BY <1>4, <1>5

\* A field shows the value, its default or nothing.
LEMMA RenderedTyped ==
  ASSUME NEW k \in DOMAIN Default, NEW v \in Text
  PROVE  /\ Rendered(k, v) \in {v, <<>>, Default[k]}
         /\ Rendered(k, v) \in Text
         /\ k \in Numbers => Rendered(k, v) = <<>> \/ Number(Rendered(k, v))
<1>1. Rendered(k, v) \in {v, <<>>, Default[k]}
  BY DEF Rendered
<1>2. <<>> \in Text
  BY EmptySeq DEF Text
<1>3. k \in Numbers => Rendered(k, v) = <<>> \/ Number(Rendered(k, v))
  BY DefaultNumbers DEF Rendered
<1> QED
  BY <1>1, <1>2, <1>3, DefaultOf

LEMMA PasswordUnescaped ==
  ASSUME NEW s \in Text, Unescaped(s)
  PROVE  Unescaped(ParseEnv(s))
<1>1. ASSUME NEW i \in 1 .. Len(ParseEnv(s)), NEW c \in DOMAIN Escape
      PROVE  ParseEnv(s)[i] # Escape[c]
  BY ParseEnvTyped, UnescapedIs
<1> QED
  BY <1>1, ParseEnvTyped, UnescapedIs

LEMMA ValueTyped ==
  ASSUME NEW lines, LinesOK(lines), NEW k \in DOMAIN Default
  PROVE  /\ Value(lines, k) \in Text
         /\ k = "DB_PASSWORD" => Unescaped(Value(lines, k))
<1> DEFINE url == ParseEnv(lines["DATABASE_URL"])
           v == Value(lines, k)
<1>1. url \in Text
  BY ParseEnvTyped DEF LinesOK
<1> HIDE DEF url
<1>2. \/ k \in DOMAIN Database /\ v = ParseDatabaseUrl(url)[k]
      \/ k \in DOMAIN lines /\ v = ParseEnv(lines[k])
      \/ v = Default[k]
  BY DEF Value, url
<1> HIDE DEF v
<1>3. CASE k \in DOMAIN Database /\ v = ParseDatabaseUrl(url)[k]
  BY <1>1, <1>3, ParsedUrlTyped DEF v
<1>4. CASE k \in DOMAIN lines /\ v = ParseEnv(lines[k])
  <2>1. lines[k] \in Text /\ (k = "DB_PASSWORD" => Unescaped(lines[k]))
    BY <1>4 DEF LinesOK
  <2> QED
    BY <1>4, <2>1, ParseEnvTyped, PasswordUnescaped DEF v
<1>5. CASE v = Default[k]
  <2>1. k = "DB_PASSWORD" => Unescaped(Default[k])
    <3>1. Unescaped(<<>>)
      BY DEF Unescaped
    <3>2. Default["DB_PASSWORD"] = <<>>
      BY DefaultOf, DatabaseIs, DatabaseKeys
    <3> QED
      BY <3>1, <3>2
  <2> QED
    BY <1>5, <2>1, DefaultOf DEF v
<1> QED
  BY <1>2, <1>3, <1>4, <1>5

LEMMA EmptyUnescaped == Unescaped(<<>>)
BY DEF Unescaped

LEMMA DefaultOK == FieldsOK(Default)
<1>1. Default["DB_PASSWORD"] = <<>>
  BY DefaultOf, DatabaseIs, DatabaseKeys
<1> QED
  BY <1>1, DefaultOf, DefaultNumbers, EmptyUnescaped DEF FieldsOK

\* Whatever somebody has put into .env, the page that shows it is a form.
LEMMA PageOK ==
  ASSUME NEW lines, LinesOK(lines)
  PROVE  FieldsOK(Page(lines))
<1> DEFINE p == Page(lines)
<1>1. "DATABASE_URL" \in DOMAIN lines
  BY DEF LinesOK
<1>2. p = [k \in DOMAIN Default |-> Rendered(k, Value(lines, k))]
  BY <1>1, PageIs
<1>3. p \in [DOMAIN Default -> Text]
  BY <1>2, ValueTyped, RenderedTyped
<1>4. \A k \in Numbers : p[k] = <<>> \/ Number(p[k])
  BY <1>2, ValueTyped, RenderedTyped, DefaultKeys
<1>5. Unescaped(p["DB_PASSWORD"])
  <2> DEFINE k == "DB_PASSWORD"
             v == Value(lines, k)
  <2>1. k \in DOMAIN Default
    BY DefaultKeys, DatabaseKeys
  <2>2. v \in Text /\ Unescaped(v)
    BY <2>1, ValueTyped
  <2>3. Rendered(k, v) \in {v, <<>>, Default[k]}
    BY <2>1, <2>2, RenderedTyped
  <2>4. Default[k] = <<>>
    BY DefaultOf, DatabaseIs, DatabaseKeys
  <2>5. p[k] = Rendered(k, v)
    BY <1>2, <2>1
  <2> HIDE DEF v, p
  <2> QED
    BY <2>2, <2>3, <2>4, <2>5, EmptyUnescaped
<1> QED
  BY <1>3, <1>4, <1>5 DEF FieldsOK

\* What the user and the browser make of a form.
LEMMA FillOK ==
  ASSUME NEW fields, FieldsOK(fields), NEW k \in DOMAIN Typed, NEW text \in Typed[k]
  PROVE  FieldsOK(Fill([fields EXCEPT ![k] = text]))
<1> DEFINE typed == [fields EXCEPT ![k] = text]
<1>1. /\ k \in DOMAIN Default /\ text \in Text
      /\ k \in Numbers => text = <<>> \/ Number(text)
      /\ k = "DB_PASSWORD" => Unescaped(text)
  BY TypedAssumption
<1>2. /\ typed \in [DOMAIN Default -> Text]
      /\ \A x \in DOMAIN Default : typed[x] = IF x = k THEN text ELSE fields[x]
  BY <1>1 DEF FieldsOK
<1> HIDE DEF typed
<1> DEFINE f == Fill(typed)
<1>3. f = [x \in DOMAIN Default |-> f[x]]
      /\ \A x \in DOMAIN Default : f[x] \in {typed[x], Filler}
  BY <1>2 DEF Fill
<1> HIDE DEF f
<1>4. f \in [DOMAIN Default -> Text]
  BY <1>2, <1>3, FillerAssumption
<1>5. \A x \in Numbers : f[x] = <<>> \/ Number(f[x])
  <2> TAKE x \in Numbers
  <2>1. x \in DOMAIN Default
    BY DefaultKeys
  <2>2. typed[x] = <<>> \/ Number(typed[x])
    BY <1>1, <1>2, <2>1 DEF FieldsOK
  <2> QED
    BY <1>3, <2>1, <2>2, FillerAssumption
<1>6. Unescaped(f["DB_PASSWORD"])
  <2>1. "DB_PASSWORD" \in DOMAIN Default
    BY DefaultKeys, DatabaseKeys
  <2>2. Unescaped(typed["DB_PASSWORD"])
    BY <1>1, <1>2, <2>1 DEF FieldsOK
  <2>3. Unescaped(Filler)
    <3>1. \A i \in DOMAIN Filler : Filler[i] \in {"1", "3", "3000", "3306", "6379"}
      BY FillerAssumption DEF Number
    <3>2. \A c \in DOMAIN Escape : Escape[c] \notin {"1", "3", "3000", "3306", "6379"}
      BY DEF Escape
    <3> QED
      BY <3>1, <3>2 DEF Unescaped
  <2> QED
    BY <1>3, <2>1, <2>2, <2>3
<1> QED
  BY <1>4, <1>5, <1>6 DEF FieldsOK, f, typed

LEMMA FieldTyped ==
  ASSUME NEW fields, FieldsOK(fields), NEW k \in DOMAIN Default
  PROVE  Field(fields, k) \in Text /\ Field(fields, k) \in {fields[k], Default[k]}
BY DefaultOf DEF FieldsOK, Field

\* What buildEnvContent writes.
LEMMA FileIs ==
  ASSUME NEW fields, FieldsOK(fields)
  PROVE  /\ DOMAIN File(fields) = DOMAIN Saved \cup {"DATABASE_URL"}
         /\ \A k \in DOMAIN Saved : File(fields)[k] = fields[k]
         /\ File(fields)["DATABASE_URL"] = BuildDatabaseUrl(fields)
<1>1. "DATABASE_URL" \notin DOMAIN Saved /\ DOMAIN Saved \subseteq DOMAIN fields
  BY DefaultKeys DEF FieldsOK
<1> QED
  BY <1>1 DEF File, Over

(***************************************************************************)
(* DATABASE_URL.                                                           *)
(***************************************************************************)
Free(s, c) == \A i \in 1 .. Len(s) : s[i] # c

\* A text that ends with a character that is no blank.
Ended(s) == s # <<>> /\ s[Len(s)] # Blank

\* One of the four places where buildDatabaseUrl joins and parseDatabaseUrl splits.
LEMMA JoinedIs ==
  ASSUME NEW a \in Text, NEW d \in Runs, NEW b \in Text
  PROVE  LET s == a \o <<d>> \o b
         IN  /\ s \in Text
             /\ \A c : Free(a, c) /\ c # d /\ Free(b, c) => Free(s, c)
             /\ Ended(b) => Ended(s)
             /\ Free(a, d) => Split(s, d) = [found |-> TRUE, before |-> a, after |-> b]
<1> DEFINE s == a \o <<d>> \o b
<1>1. Len(a) \in Nat /\ Len(b) \in Nat /\ (b # <<>> => Len(b) > 0)
  BY TextProperties
<1>2. /\ s \in Text /\ Len(s) = Len(a) + 1 + Len(b)
      /\ \A i \in 1 .. Len(a) : s[i] = a[i]
      /\ s[Len(a) + 1] = d
      /\ \A i \in 1 .. Len(b) : s[Len(a) + 1 + i] = b[i]
  BY Joined DEF Text
<1>3. Free(a, d) => Split(s, d) = [found |-> TRUE, before |-> a, after |-> b]
  BY SplitJoined DEF Free
<1> HIDE DEF s
<1>4. ASSUME NEW c, Free(a, c), c # d, Free(b, c), NEW i \in 1 .. Len(s)
      PROVE  s[i] # c
  <2>1. CASE i \in 1 .. Len(a)
    BY <1>2, <1>4, <2>1 DEF Free
  <2>2. CASE i = Len(a) + 1
    BY <1>2, <1>4, <2>2
  <2>3. CASE i > Len(a) + 1
    <3>1. i - (Len(a) + 1) \in 1 .. Len(b) /\ Len(a) + 1 + (i - (Len(a) + 1)) = i
      BY <1>1, <1>2, <2>3
    <3>2. s[i] = b[i - (Len(a) + 1)]
      BY <1>2, <3>1
    <3> QED
      BY <1>4, <3>1, <3>2 DEF Free
  <2> QED
    BY <1>1, <1>2, <2>1, <2>2, <2>3
<1>5. ASSUME Ended(b) PROVE Ended(s)
  <2>1. Len(b) \in 1 .. Len(b) /\ Len(b) > 0
    BY <1>1, <1>5 DEF Ended
  <2>2. s[Len(s)] = b[Len(b)]
    BY <1>2, <2>1
  <2>3. s # <<>>
    <3>1. Len(s) # 0
      BY <1>1, <1>2
    <3> QED
      BY <1>2, <3>1, TextProperties
  <2> QED
    BY <1>5, <2>2, <2>3 DEF Ended
<1> QED
  BY <1>2, <1>3, <1>4, <1>5 DEF s, Free

\* A text that begins with h, as the URL does.
LEMMA HeadedIs ==
  ASSUME NEW h \in Runs, NEW b \in Text
  PROVE  LET s == <<h>> \o b
         IN  /\ s \in Text /\ s # <<>> /\ s[1] = h /\ Tail(s) = b
             /\ \A c : c # h /\ Free(b, c) => Free(s, c)
             /\ Ended(b) => Ended(s)
<1> DEFINE a == <<h>>
           s == a \o b
<1>1. a \in Seq(Runs) /\ Len(a) = 1 /\ a[1] = h
  OBVIOUS
<1>2. b \in Seq(Runs) /\ Len(b) \in Nat /\ (b # <<>> => Len(b) > 0)
  BY TextProperties DEF Text
<1> HIDE DEF a
<1>3. /\ s \in Seq(Runs) /\ Len(s) = Len(a) + Len(b)
      /\ \A i \in 1 .. Len(a) + Len(b) : s[i] = IF i <= Len(a) THEN a[i] ELSE b[i - Len(a)]
  BY <1>1, <1>2, ConcatProperties
<1> HIDE DEF s
<1>4. s \in Text /\ Len(s) = 1 + Len(b) /\ s[1] = h
  BY <1>1, <1>2, <1>3 DEF Text
<1>5. \A i \in 1 .. Len(b) : s[1 + i] = b[i]
  <2> TAKE i \in 1 .. Len(b)
  <2>1. 1 + i \in 1 .. Len(a) + Len(b) /\ ~(1 + i <= Len(a)) /\ 1 + i - Len(a) = i
    BY <1>1, <1>2
  <2> QED
    BY <1>3, <2>1
<1>6. s # <<>>
  <2>1. Len(s) # 0
    BY <1>2, <1>4
  <2> QED
    BY <1>4, <2>1, TextProperties
<1>7. Tail(s) = b
  <2>1. /\ Tail(s) \in Seq(Runs) /\ Len(Tail(s)) = Len(s) - 1
        /\ \A i \in 1 .. Len(Tail(s)) : Tail(s)[i] = s[i + 1]
    BY <1>3, <1>6, HeadTailProperties
  <2>2. Len(Tail(s)) = Len(b)
    BY <1>2, <1>4, <2>1
  <2>3. \A i \in 1 .. Len(Tail(s)) : Tail(s)[i] = b[i]
    <3> TAKE i \in 1 .. Len(Tail(s))
    <3>1. i \in 1 .. Len(b) /\ i + 1 = 1 + i
      BY <1>2, <2>2
    <3> QED
      BY <1>5, <2>1, <3>1
  <2> HIDE DEF s
  <2> QED
    BY <2>1, <2>2, <2>3, TextEqual DEF Text
<1>8. ASSUME NEW c, c # h, Free(b, c), NEW i \in 1 .. Len(s)
      PROVE  s[i] # c
  <2>1. CASE i = 1
    BY <1>4, <1>8, <2>1
  <2>2. CASE i > 1
    <3>1. i - 1 \in 1 .. Len(b) /\ 1 + (i - 1) = i
      BY <1>2, <1>4, <2>2
    <3>2. s[i] = b[i - 1]
      BY <1>5, <3>1
    <3> QED
      BY <1>8, <3>1, <3>2 DEF Free
  <2> QED
    BY <1>2, <1>4, <2>1, <2>2
<1>9. ASSUME Ended(b) PROVE Ended(s)
  <2>1. Len(b) \in 1 .. Len(b) /\ Len(s) = 1 + Len(b)
    BY <1>2, <1>4, <1>9 DEF Ended
  <2> QED
    BY <1>5, <1>6, <1>9, <2>1 DEF Ended
<1> QED
  BY <1>4, <1>6, <1>7, <1>8, <1>9 DEF s, a, Free

LEMMA SingleIs ==
  ASSUME NEW S, NEW x \in S
  PROVE  /\ <<x>> # <<>> /\ Len(<<x>>) = 1 /\ <<x>>[1] = x
         /\ \A c : x # c => Free(<<x>>, c)
         /\ x # Blank => Ended(<<x>>)
<1>1. <<x>> # <<>> /\ Len(<<x>>) = 1 /\ <<x>>[1] = x
  OBVIOUS
<1> QED
  BY <1>1 DEF Free, Ended

\* The fields of the database in a form whose user, host and name are as in
\* DatabaseSurvives.
Plain(fields) ==
  \A k \in {"DB_USER", "DB_HOST", "DB_NAME"} :
    Kept(fields[k]) /\ (k # "DB_NAME" => ~Split(fields[k], ":").found)

LEMMA Separators ==
  /\ {"mysql://", "@", ":", "/"} \subseteq Runs
  /\ "mysql://" \notin Marks /\ "mysql://" # Blank /\ Hash \notin {"mysql://", "@", ":", "/"}
  /\ "@" \in DOMAIN Escape /\ Hash \in DOMAIN Escape
<1>1. {"mysql://", "@", ":", "/"} \subseteq Runs
  BY EscapeIs, RunsAssumption
<1>2. "mysql://" \notin Marks /\ "mysql://" # Blank /\ Hash \notin {"mysql://", "@", ":", "/"}
  BY DEF Marks, Blank, Hash
<1>3. "@" \in DOMAIN Escape /\ Hash \in DOMAIN Escape
  BY EscapeIs DEF Hash
<1> QED
  BY <1>1, <1>2, <1>3

\* The fields of such a form hold none of the characters that end them.
LEMMA UrlFields ==
  ASSUME NEW fields, FieldsOK(fields), Plain(fields)
  PROVE  /\ \A k \in DOMAIN Database : Field(fields, k) \in Text
         /\ \A k \in {"DB_USER", "DB_HOST"} : Free(Field(fields, k), ":")
         /\ \A k \in {"DB_USER", "DB_HOST", "DB_NAME"} :
              Field(fields, k) # <<>> /\ Free(Field(fields, k), Hash)
         /\ Ended(Field(fields, "DB_NAME"))
         /\ Number(Field(fields, "DB_PORT"))
         /\ Free(Field(fields, "DB_PORT"), "/") /\ Free(Field(fields, "DB_PORT"), Hash)
         /\ Unescaped(Field(fields, "DB_PASSWORD"))
<1>1. \A k \in DOMAIN Database :
        k \in DOMAIN Default /\ Default[k] = Database[k] /\ fields[k] \in Text
  BY DefaultKeys, DefaultOf DEF FieldsOK
<1>2. \A k \in DOMAIN Database : Field(fields, k) \in Text
  BY <1>1, FieldTyped
<1>3. \A k \in DOMAIN Database :
        Field(fields, k) = IF fields[k] = <<>> THEN Database[k] ELSE fields[k]
  BY <1>1 DEF Field
<1>4. ASSUME NEW k \in {"DB_USER", "DB_HOST", "DB_NAME"}
      PROVE  /\ Database[k] # <<>> /\ Free(Database[k], Hash) /\ Free(Database[k], ":")
             /\ Ended(Database[k])
  <2>1. \A x \in {"root", "localhost", "nestjs_engine_db"} :
          <<x>> # <<>> /\ Free(<<x>>, Hash) /\ Free(<<x>>, ":") /\ Ended(<<x>>)
    <3> TAKE x \in {"root", "localhost", "nestjs_engine_db"}
    <3>1. x # Hash /\ x # ":" /\ x # Blank
      BY DEF Hash, Blank
    <3> QED
      BY <3>1, SingleIs
  <2> QED
    BY <2>1, DatabaseIs
<1>5. ASSUME NEW k \in {"DB_USER", "DB_HOST", "DB_NAME"}
      PROVE  /\ k \in DOMAIN Database /\ Kept(fields[k]) /\ Free(fields[k], Hash)
             /\ k # "DB_NAME" => Free(fields[k], ":")
             /\ fields[k] # <<>> => Ended(fields[k])
  <2>1. k \in DOMAIN Database /\ Kept(fields[k]) /\ fields[k] \in Text
    BY <1>1, DatabaseKeys DEF Plain
  <2>2. Free(fields[k], Hash) /\ Trim(fields[k]) = fields[k]
    BY <2>1, KeptIs DEF Free
  <2>3. k # "DB_NAME" => Free(fields[k], ":")
    <3> SUFFICES ASSUME k # "DB_NAME" PROVE Free(fields[k], ":")
      OBVIOUS
    <3>1. ~Split(fields[k], ":").found
      BY DEF Plain
    <3> QED
      BY <2>1, <3>1, SplitIs DEF Free
  <2>4. fields[k] # <<>> => Ended(fields[k])
    BY <2>1, <2>2, TrimProperties DEF Ended
  <2> QED
    BY <2>1, <2>2, <2>3, <2>4
<1>6. \A k \in {"DB_USER", "DB_HOST"} : Free(Field(fields, k), ":")
  BY <1>3, <1>4, <1>5
<1>7. \A k \in {"DB_USER", "DB_HOST", "DB_NAME"} :
        Field(fields, k) # <<>> /\ Free(Field(fields, k), Hash)
  BY <1>3, <1>4, <1>5
<1>8. Ended(Field(fields, "DB_NAME"))
  BY <1>3, <1>4, <1>5
<1>9. Number(Field(fields, "DB_PORT"))
  <2>1. "DB_PORT" \in Numbers /\ "DB_PORT" \in DOMAIN Database
    BY DatabaseKeys DEF Numbers
  <2>2. fields["DB_PORT"] = <<>> \/ Number(fields["DB_PORT"])
    BY <2>1 DEF FieldsOK
  <2>3. Number(Default["DB_PORT"])
    BY <2>1, DefaultNumbers
  <2> QED
    BY <2>2, <2>3 DEF Field
<1>10. Free(Field(fields, "DB_PORT"), "/") /\ Free(Field(fields, "DB_PORT"), Hash)
  <2> DEFINE p == Field(fields, "DB_PORT")
  <2>1. p \in Text
    BY <1>2, DatabaseKeys
  <2> HIDE DEF p
  <2>2. \A i \in 1 .. Len(p) : p[i] \in {"1", "3", "3000", "3306", "6379"}
    BY <1>9, <2>1, TextProperties DEF Number, p
  <2>3. /\ "/" \notin {"1", "3", "3000", "3306", "6379"}
        /\ Hash \notin {"1", "3", "3000", "3306", "6379"}
    BY DEF Hash
  <2>4. Free(p, "/") /\ Free(p, Hash)
    BY <2>2, <2>3, Zenon DEF Free
  <2> QED
    BY <2>4 DEF p
<1>11. Unescaped(Field(fields, "DB_PASSWORD"))
  <2>1. Unescaped(fields["DB_PASSWORD"])
    BY DEF FieldsOK
  <2>2. Default["DB_PASSWORD"] = <<>>
    BY DefaultOf, DatabaseIs, DatabaseKeys
  <2> QED
    BY <2>1, <2>2, EmptyUnescaped DEF Field
<1> QED
  BY <1>2, <1>6, <1>7, <1>8, <1>9, <1>10, <1>11

LEMMA UrlTyped ==
  ASSUME NEW fields, FieldsOK(fields)
  PROVE  BuildDatabaseUrl(fields) \in Text
<1> DEFINE name == Field(fields, "DB_NAME")
           port == Field(fields, "DB_PORT") \o <<"/">> \o name
           host == Field(fields, "DB_HOST") \o <<":">> \o port
           password == Encode(Field(fields, "DB_PASSWORD")) \o <<"@">> \o host
           user == Field(fields, "DB_USER") \o <<":">> \o password
<1>1. \A k \in DOMAIN Database : Field(fields, k) \in Text
  BY DefaultKeys, FieldTyped
<1>2. /\ name \in Text /\ Field(fields, "DB_PORT") \in Text /\ Field(fields, "DB_HOST") \in Text
      /\ Field(fields, "DB_PASSWORD") \in Text /\ Field(fields, "DB_USER") \in Text
  BY <1>1, DatabaseKeys
<1>3. Encode(Field(fields, "DB_PASSWORD")) \in Text
  BY <1>2, EncodeIs
<1>4. port \in Text
  BY <1>2, JoinedIs, Separators
<1> HIDE DEF port
<1>5. host \in Text
  BY <1>2, <1>4, JoinedIs, Separators
<1> HIDE DEF host
<1>6. password \in Text
  BY <1>3, <1>5, JoinedIs, Separators
<1> HIDE DEF password
<1>7. user \in Text
  BY <1>2, <1>6, JoinedIs, Separators
<1> HIDE DEF user
<1>8. <<"mysql://">> \o user \in Text
  BY <1>7, HeadedIs, Separators
<1>9. BuildDatabaseUrl(fields) = <<"mysql://">> \o user
  BY DEF BuildDatabaseUrl, user, password, host, port
<1> QED
  BY <1>8, <1>9

\* parseDatabaseUrl finds in what buildDatabaseUrl made the fields it was made of.
LEMMA UrlParsed ==
  ASSUME NEW fields, FieldsOK(fields), Plain(fields)
  PROVE  LET url == BuildDatabaseUrl(fields)
         IN  /\ url \in Text /\ url # <<>> /\ url[1] = "mysql://"
             /\ Free(url, Hash) /\ Ended(url)
             /\ \A x \in DOMAIN Database : ParseDatabaseUrl(url)[x] = Field(fields, x)
<1> DEFINE U == Field(fields, "DB_USER")
           W == Field(fields, "DB_PASSWORD")
           E == Encode(W)
           H == Field(fields, "DB_HOST")
           P == Field(fields, "DB_PORT")
           N == Field(fields, "DB_NAME")
           port == P \o <<"/">> \o N
           host == H \o <<":">> \o port
           password == E \o <<"@">> \o host
           user == U \o <<":">> \o password
           url == <<"mysql://">> \o user
<1>1. BuildDatabaseUrl(fields) = url
  BY DEF BuildDatabaseUrl
<1>2. /\ U \in Text /\ W \in Text /\ H \in Text /\ P \in Text /\ N \in Text
      /\ Free(U, ":") /\ Free(U, Hash) /\ U # <<>>
      /\ Free(H, ":") /\ Free(H, Hash) /\ H # <<>>
      /\ Number(P) /\ Free(P, "/") /\ Free(P, Hash)
      /\ N # <<>> /\ Free(N, Hash) /\ Ended(N)
      /\ Unescaped(W)
  BY UrlFields, DatabaseKeys
<1>3. E \in Text /\ Decode(E) = W /\ Free(E, "@") /\ Free(E, Hash)
  <2>1. \A i \in 1 .. Len(E) : E[i] \notin DOMAIN Escape
    BY <1>2, EncodeIs
  <2> QED
    BY <1>2, <2>1, EncodeIs, DecodeOfEncode, Separators DEF Free
<1> HIDE DEF U, W, E, H, P, N
<1>4. /\ port \in Text /\ Free(port, Hash) /\ Ended(port)
      /\ Split(port, "/") = [found |-> TRUE, before |-> P, after |-> N]
  BY <1>2, JoinedIs, Separators
<1> HIDE DEF port
<1>5. /\ host \in Text /\ Free(host, Hash) /\ Ended(host)
      /\ Split(host, ":") = [found |-> TRUE, before |-> H, after |-> port]
  BY <1>2, <1>4, JoinedIs, Separators
<1> HIDE DEF host
<1>6. /\ password \in Text /\ Free(password, Hash) /\ Ended(password)
      /\ Split(password, "@") = [found |-> TRUE, before |-> E, after |-> host]
  BY <1>3, <1>5, JoinedIs, Separators
<1> HIDE DEF password
<1>7. /\ user \in Text /\ Free(user, Hash) /\ Ended(user)
      /\ Split(user, ":") = [found |-> TRUE, before |-> U, after |-> password]
  BY <1>2, <1>6, JoinedIs, Separators
<1> HIDE DEF user
<1>8. /\ url \in Text /\ url # <<>> /\ url[1] = "mysql://" /\ Tail(url) = user
      /\ Free(url, Hash) /\ Ended(url)
  BY <1>7, HeadedIs, Separators
<1> HIDE DEF url
<1>9. ParseDatabaseUrl(url) =
        [DB_USER |-> U, DB_PASSWORD |-> Decode(E), DB_HOST |-> H, DB_PORT |-> P, DB_NAME |-> N]
  <2>1. /\ Split(Tail(url), ":").found /\ Split(Tail(url), ":").before = U
        /\ Split(Tail(url), ":").after = password
    <3>1. Split(user, ":").found /\ Split(user, ":").before = U /\ Split(user, ":").after = password
      BY <1>7
    <3>2. Tail(url) = user
      BY <1>8
    <3> QED
      BY <3>1, <3>2, Zenon
  <2>2. /\ Split(password, "@").found /\ Split(password, "@").before = E
        /\ Split(password, "@").after = host
    BY <1>6
  <2>3. /\ Split(host, ":").found /\ Split(host, ":").before = H
        /\ Split(host, ":").after = port
    BY <1>5
  <2>4. /\ Split(port, "/").found /\ Split(port, "/").before = P
        /\ Split(port, "/").after = N
    BY <1>4
  <2>5. /\ url # <<>> /\ url[1] = "mysql://" /\ Number(P)
        /\ <<>> \notin {U, H, N}
    BY <1>2, <1>8
  <2> QED
    BY <2>1, <2>2, <2>3, <2>4, <2>5, Zenon DEF ParseDatabaseUrl
<1>10. \A x \in DOMAIN Database : ParseDatabaseUrl(url)[x] = Field(fields, x)
  BY <1>3, <1>9, DatabaseKeys DEF U, W, H, P, N
<1> QED
  BY <1>1, <1>8, <1>10

(***************************************************************************)
(* The specification.                                                      *)
(***************************************************************************)
LEMMA SavedFileOK ==
  ASSUME NEW fields, FieldsOK(fields)
  PROVE  LinesOK(File(fields))
<1>1. \A k \in DOMAIN File(fields) : File(fields)[k] \in Text
  <2>1. \A k \in DOMAIN Saved : fields[k] \in Text
    BY DefaultKeys DEF FieldsOK
  <2>2. BuildDatabaseUrl(fields) \in Text
    BY UrlTyped
  <2> QED
    BY <2>1, <2>2, FileIs
<1>2. "DB_PASSWORD" \notin DOMAIN File(fields)
  BY FileIs, SavedKeys
<1> QED
  BY <1>1, <1>2, FileIs DEF LinesOK

\* Every form that is saved is typed, and the file is made of it.
LEMMA SaveStep ==
  ASSUME EnvTypeOK, NEW k \in DOMAIN Typed, NEW text \in Typed[k], Save(k, text)
  PROVE  /\ FieldsOK(submitted') /\ file' = File(submitted') /\ LinesOK(file')
         /\ fresh' = fresh
<1> DEFINE shown == IF fresh THEN Default ELSE Page(file)
<1>1. FieldsOK(shown)
  BY DefaultOK, PageOK DEF EnvTypeOK
<1> HIDE DEF shown
<1>2. submitted' = Fill([shown EXCEPT ![k] = text]) /\ file' = File(submitted') /\ fresh' = fresh
  BY DEF Save, shown
<1>3. FieldsOK(submitted')
  BY <1>1, <1>2, FillOK
<1> QED
  BY <1>2, <1>3, SavedFileOK

\* An edit leaves the file whole.
LEMMA EditStep ==
  ASSUME EnvTypeOK, NEW k \in DOMAIN Edited, NEW text \in Edited[k], Edit(k, text)
  PROVE  LinesOK(file') /\ submitted' = NoFile /\ fresh' = fresh
<1>1. /\ LinesOK(file) /\ file' = Over([x \in {k} |-> text], file)
      /\ submitted' = NoFile /\ fresh' = fresh
  BY DEF Edit, EnvTypeOK
<1>2. text \in Text /\ (k = "DB_PASSWORD" => Unescaped(text))
  BY EditedAssumption
<1>3. /\ DOMAIN file' = {k} \cup DOMAIN file
      /\ \A x \in DOMAIN file' : file'[x] = IF x = k THEN text ELSE file[x]
  BY <1>1 DEF Over
<1> QED
  BY <1>1, <1>2, <1>3 DEF LinesOK

LEMMA EnvTypeStep == EnvTypeOK /\ [EnvNext]_<<file, submitted, fresh>> => EnvTypeOK'
<1> SUFFICES ASSUME EnvTypeOK, [EnvNext]_<<file, submitted, fresh>> PROVE EnvTypeOK'
  OBVIOUS
<1>1. CASE Restart
  BY <1>1 DEF Restart, EnvTypeOK
<1>2. ASSUME NEW k \in DOMAIN Typed, NEW text \in Typed[k], Save(k, text) PROVE EnvTypeOK'
  BY <1>2, SaveStep DEF EnvTypeOK
<1>3. ASSUME NEW k \in DOMAIN Edited, NEW text \in Edited[k], Edit(k, text) PROVE EnvTypeOK'
  BY <1>3, EditStep DEF EnvTypeOK
<1>4. CASE UNCHANGED <<file, submitted, fresh>>
  BY <1>4 DEF EnvTypeOK
<1> QED
  BY <1>1, <1>2, <1>3, <1>4 DEF EnvNext

\* The file is whole and its last form typed: what parseEnvFile, parseDatabaseUrl and
\* renderField make of any line is a text again, and a number where one is asked for.
THEOREM EnvTypeCorrect == EnvSpec => []EnvTypeOK
<1>1. EnvInit => EnvTypeOK
  BY DEF EnvInit, EnvTypeOK
<1> QED
  BY <1>1, EnvTypeStep, PTL DEF EnvSpec

\* What dotenv returns for a line buildEnvContent wrote is what was typed exactly when
\* the text is one dotenv keeps.
THEOREM AppReadsForm == EnvSpec => []AppReadsWhatWasTyped
<1>1. EnvTypeOK => AppReadsWhatWasTyped
  <2> SUFFICES ASSUME EnvTypeOK, submitted # NoFile, NEW k \in DOMAIN Saved
               PROVE  Dotenv(file[k]) = submitted[k] <=> Kept(submitted[k])
    BY DEF AppReadsWhatWasTyped
  <2>1. FieldsOK(submitted) /\ file = File(submitted)
    BY DEF EnvTypeOK
  <2>2. file[k] = submitted[k] /\ submitted[k] \in Text
    BY <2>1, FileIs, DefaultKeys DEF FieldsOK
  <2> QED
    BY <2>2, DotenvKeeps
<1> QED
  BY <1>1, EnvTypeCorrect, PTL

\* Whatever the password, the database of the form is the one the application
\* connects to and the one the page shows again.
THEOREM DatabaseRoundTrip == EnvSpec => []DatabaseSurvives
<1>1. EnvTypeOK => DatabaseSurvives
  <2> SUFFICES ASSUME EnvTypeOK, submitted # NoFile, Plain(submitted)
               PROVE  /\ Dotenv(file["DATABASE_URL"]) = BuildDatabaseUrl(submitted)
                      /\ \A x \in DOMAIN Database : Page(file)[x] = Field(submitted, x)
    BY DEF DatabaseSurvives, Plain
  <2> DEFINE url == BuildDatabaseUrl(submitted)
  <2>1. FieldsOK(submitted) /\ file = File(submitted)
    BY DEF EnvTypeOK
  <2>2. /\ url \in Text /\ url # <<>> /\ url[1] = "mysql://"
        /\ Free(url, Hash) /\ Ended(url)
        /\ \A x \in DOMAIN Database : ParseDatabaseUrl(url)[x] = Field(submitted, x)
    BY <2>1, UrlParsed
  <2>3. file["DATABASE_URL"] = url /\ DOMAIN file = DOMAIN Saved \cup {"DATABASE_URL"}
    BY <2>1, FileIs
  <2> HIDE DEF url
  <2>4. Trim(url) = url
    BY <2>2, Separators, TrimNothing DEF Ended
  <2>5. ~InMarks(url) /\ ~Quoted(url)
    <3>1. url[1] \notin Marks
      BY <2>2, Separators
    <3> QED
      BY <3>1 DEF InMarks, Quoted, Marks
  <2>6. Dotenv(url) = url
    BY <2>2, <2>4, <2>5, KeptIs, DotenvKeeps DEF Free
  <2>7. ParseEnv(url) = url
    BY <2>4, <2>5 DEF ParseEnv
  <2>8. ASSUME NEW x \in DOMAIN Database PROVE Page(file)[x] = Field(submitted, x)
    <3>1. x \in DOMAIN Default /\ x \notin DOMAIN file
      BY <2>3, DefaultKeys, DatabaseKeys, SavedKeys
    <3>2. Value(file, x) = Field(submitted, x)
      BY <2>2, <2>3, <2>7, <3>1 DEF Value
    <3>3. Page(file)[x] = Rendered(x, Field(submitted, x))
      BY <2>3, <3>1, <3>2, PageIs
    <3>4. x \notin DOMAIN Options
      BY DatabaseKeys DEF Options
    <3>5. x \in Numbers => Number(Field(submitted, x))
      <4>1. x \in Numbers => x = "DB_PORT"
        BY DatabaseKeys DEF Numbers
      <4> QED
        BY <2>1, <4>1, UrlFields
    <3> QED
      BY <3>3, <3>4, <3>5 DEF Rendered
  <2> QED
    BY <2>3, <2>6, <2>8 DEF url
<1> QED
  BY <1>1, EnvTypeCorrect, PTL

\* The URL that is built of the fields of a page is the one its fields were parsed from,
\* if it can be built again.
LEMMA PageKeepsUrl ==
  ASSUME NEW lines, LinesOK(lines), NEW fields, FieldsOK(fields),
         \A x \in DOMAIN Database : x \notin DOMAIN lines /\ fields[x] = Page(lines)[x],
         BuildDatabaseUrl(ParseDatabaseUrl(ParseEnv(lines["DATABASE_URL"])))
           = ParseEnv(lines["DATABASE_URL"])
  PROVE  BuildDatabaseUrl(fields) = ParseEnv(lines["DATABASE_URL"])
<1> DEFINE url == ParseEnv(lines["DATABASE_URL"])
           parsed == ParseDatabaseUrl(url)
<1>1. url \in Text /\ "DATABASE_URL" \in DOMAIN lines
  BY ParseEnvTyped DEF LinesOK
<1>2. BuildDatabaseUrl(parsed) = url
  OBVIOUS
<1> HIDE DEF url
<1>3. Number(parsed["DB_PORT"])
  BY <1>1, ParsedUrlTyped
<1>4. url # <<>>
  <2>1. SUFFICES ASSUME url = <<>> PROVE FALSE
    OBVIOUS
  <2>2. parsed = Database
    BY <2>1 DEF ParseDatabaseUrl
  <2>3. \A x \in DOMAIN Database : Database[x] = Default[x]
    BY DefaultOf
  <2>4. BuildDatabaseUrl(Database) = BuildDatabaseUrl(Default)
    BY <2>3, DatabaseKeys DEF BuildDatabaseUrl, Field
  <2>5. Plain(Default)
    <3>1. \A x \in {"root", "localhost", "nestjs_engine_db"} :
            x # Blank /\ x # Hash /\ x # ":" /\ x \notin Marks
      BY DEF Blank, Hash, Marks
    <3>2. ASSUME NEW x \in {"root", "localhost", "nestjs_engine_db"}, <<x>> \in Text
          PROVE  Kept(<<x>>) /\ ~Split(<<x>>, ":").found
      <4>1. Len(<<x>>) = 1 /\ <<x>>[1] = x /\ <<x>> # <<>>
        BY SingleIs
      <4>2. Trim(<<x>>) = <<x>>
        BY <3>1, <3>2, <4>1, TrimNothing
      <4>3. Kept(<<x>>)
        BY <3>1, <3>2, <4>1, <4>2, KeptIs, InMarksIs
      <4>4. ~Split(<<x>>, ":").found
        BY <3>1, <3>2, <4>1, SplitIs
      <4> QED
        BY <4>3, <4>4
    <3>3. /\ Default["DB_USER"] = <<"root">> /\ Default["DB_HOST"] = <<"localhost">>
          /\ Default["DB_NAME"] = <<"nestjs_engine_db">>
      BY DefaultOf, DatabaseIs, DatabaseKeys
    <3>4. <<"root">> \in Text /\ <<"localhost">> \in Text /\ <<"nestjs_engine_db">> \in Text
      BY <3>3, DefaultOf, DefaultKeys, DatabaseKeys
    <3> QED
      BY <3>2, <3>3, <3>4 DEF Plain
  <2>6. BuildDatabaseUrl(Default) # <<>>
    BY <2>5, DefaultOK, UrlParsed
  <2> QED
    BY <1>2, <2>1, <2>2, <2>4, <2>6
<1>5. ASSUME NEW x \in DOMAIN Database PROVE fields[x] = parsed[x]
  <2>1. x \in DOMAIN Default /\ x \notin DOMAIN lines
    BY DefaultKeys
  <2>2. Value(lines, x) = parsed[x]
    BY <1>4, <2>1 DEF Value, url
  <2>3. fields[x] = Rendered(x, parsed[x])
    BY <1>1, <2>1, <2>2, PageIs
  <2>4. x \notin DOMAIN Options
    BY DatabaseKeys DEF Options
  <2>5. x \in Numbers => x = "DB_PORT"
    BY DatabaseKeys DEF Numbers
  <2> QED
    BY <1>3, <2>3, <2>4, <2>5 DEF Rendered
<1>6. \A x \in DOMAIN Database : Field(fields, x) = Field(parsed, x)
  BY <1>5 DEF Field
<1>7. BuildDatabaseUrl(fields) = BuildDatabaseUrl(parsed)
  BY <1>6, DatabaseKeys DEF BuildDatabaseUrl
<1> QED
  BY <1>2, <1>7 DEF url

\* Saving one field leaves what the application reads of the others.
THEOREM SavingIsLocal == EnvSpec => SavingKeepsTheRest
<1>1. EnvTypeOK /\ [EnvNext]_<<file, submitted, fresh>> => KeepsTheRest
  <2> DEFINE url == ParseEnv(file["DATABASE_URL"])
             FieldKept(k) ==
               (/\ submitted'[k] = Page(file)[k] /\ Unquotable(file[k])
                /\ Rendered(k, ParseEnv(file[k])) = ParseEnv(file[k]))
               => Dotenv(file'[k]) = Dotenv(file[k])
             UrlKept ==
               (/\ \A x \in DOMAIN Database :
                     x \notin DOMAIN file /\ submitted'[x] = Page(file)[x]
                /\ BuildDatabaseUrl(ParseDatabaseUrl(url)) = url
                /\ Unquotable(file["DATABASE_URL"]))
               => Dotenv(file'["DATABASE_URL"]) = Dotenv(file["DATABASE_URL"])
  <2> SUFFICES ASSUME EnvTypeOK, [EnvNext]_<<file, submitted, fresh>>,
                      submitted' # NoFile, file # NoFile, ~fresh
               PROVE  (\A k \in DOMAIN Saved : FieldKept(k)) /\ UrlKept
    BY DEF KeepsTheRest
  <2>1. CASE file' = file
    BY <2>1
  <2>2. ASSUME NEW f \in DOMAIN Typed, NEW text \in Typed[f], Save(f, text)
        PROVE  (\A k \in DOMAIN Saved : FieldKept(k)) /\ UrlKept
    <3>1. /\ LinesOK(file) /\ FieldsOK(submitted') /\ file' = File(submitted')
      BY <2>2, SaveStep DEF EnvTypeOK
    <3>2. ASSUME NEW k \in DOMAIN Saved,
                 submitted'[k] = Page(file)[k], Unquotable(file[k]),
                 Rendered(k, ParseEnv(file[k])) = ParseEnv(file[k])
          PROVE  Dotenv(file'[k]) = Dotenv(file[k])
      <4>1. /\ k \in DOMAIN Default /\ k \notin DOMAIN Database
            /\ k \in DOMAIN file /\ file[k] \in Text /\ "DATABASE_URL" \in DOMAIN file
        BY <3>1, DefaultKeys DEF LinesOK
      <4>2. Value(file, k) = ParseEnv(file[k])
        BY <4>1 DEF Value
      <4>3. Page(file)[k] = Rendered(k, ParseEnv(file[k]))
        BY <4>1, <4>2, PageIs
      <4>4. file'[k] = submitted'[k]
        BY <3>1, FileIs
      <4>5. file'[k] = ParseEnv(file[k])
        BY <3>2, <4>3, <4>4
      <4> QED
        BY <3>2, <4>1, <4>5, DotenvOfParsed
    <3>3. ASSUME \A x \in DOMAIN Database :
                   x \notin DOMAIN file /\ submitted'[x] = Page(file)[x],
                 BuildDatabaseUrl(ParseDatabaseUrl(url)) = url,
                 Unquotable(file["DATABASE_URL"])
          PROVE  Dotenv(file'["DATABASE_URL"]) = Dotenv(file["DATABASE_URL"])
      <4>1. file'["DATABASE_URL"] = BuildDatabaseUrl(submitted')
        BY <3>1, FileIs
      <4>2. BuildDatabaseUrl(submitted') = ParseEnv(file["DATABASE_URL"])
        BY <3>1, <3>3, PageKeepsUrl
      <4>3. file["DATABASE_URL"] \in Text
        BY <3>1 DEF LinesOK
      <4> QED
        BY <3>3, <4>1, <4>2, <4>3, DotenvOfParsed
    <3> QED
      BY <3>2, <3>3
  <2>3. ASSUME NEW k \in DOMAIN Edited, NEW text \in Edited[k], Edit(k, text)
        PROVE  FALSE
    BY <2>3 DEF Edit
  <2> QED
    BY <2>1, <2>2, <2>3 DEF EnvNext, Restart
<1> QED
  BY <1>1, EnvTypeCorrect, PTL DEF EnvSpec, SavingKeepsTheRest
=============================================================================
