-------------------------- MODULE UserProfileProofs --------------------------
(***************************************************************************)
(* Proofs about UserProfile for every set of requests and every number of  *)
(* updates, with and without failing cache commands.                       *)
(***************************************************************************)
EXTENDS UserProfile, TLAPS

\* A request that is about to cache an outdated row is a suspect.
HeldRows == \A r \in Requests : Holds(r) => got[r] = row \/ r \in suspects

Inv == TypeOK /\ HeldRows /\ StaleOnlyByRaceOrFailure

LEMMA InitInv == Init => Inv
BY MaxVersionAssumption
DEF Init, Inv, TypeOK, HeldRows, StaleOnlyByRaceOrFailure, Holds, Pending, Rows, Ops

LEMMA NextVersion ==
  ASSUME NEW v \in 0 .. MaxVersion, v < MaxVersion
  PROVE  v + 1 \in 0 .. MaxVersion
BY MaxVersionAssumption

LEMMA WriteRow ==
  ASSUME row \in Rows, NEW r \in Requests, ChangeRow(r)
  PROVE  row' \in Rows
<1>1. CASE row.version < MaxVersion /\ row' = [row EXCEPT !.version = row.version + 1]
  <2>1. row.version \in 0 .. MaxVersion
    BY DEF Rows
  <2>2. row.version + 1 \in 0 .. MaxVersion
    BY <2>1, <1>1, NextVersion
  <2> QED
    BY <1>1, <2>2 DEF Rows
<1>2. CASE row' = [row EXCEPT !.deleted = TRUE]
  BY <1>2 DEF Rows
<1>3. CASE row' = [row EXCEPT !.deleted = FALSE]
  BY <1>3 DEF Rows
<1> QED
  BY <1>1, <1>2, <1>3 DEF ChangeRow

LEMMA StepTypeOK == TypeOK /\ [Next]_vars => TypeOK'
<1> SUFFICES ASSUME TypeOK, [Next]_vars PROVE TypeOK'
  OBVIOUS
<1> USE MaxVersionAssumption DEF TypeOK, Goto, Finish, Ops, Holds, StillSuspect, Overtaken
<1>1. ASSUME NEW r \in Requests, Begin(r) PROVE TypeOK'
  BY <1>1, ZenonT(60) DEF Begin
<1>2. ASSUME NEW r \in Requests, Check(r) PROVE TypeOK'
  BY <1>2, ZenonT(60) DEF Check
<1>3. ASSUME NEW r \in Requests, Write(r) PROVE TypeOK'
  <2>1. row' \in Rows
    BY <1>3, WriteRow DEF Write
  <2>2. got' \in [Requests -> Rows \cup {None}]
    BY <2>1, <1>3 DEF Write
  <2>3. \A q \in Requests : Holds(q)' => got'[q] # None
    BY <2>1, <1>3, NoneAssumption DEF Write
  <2> QED
    BY <2>1, <2>2, <2>3, <1>3 DEF Write
<1>4. ASSUME NEW r \in Requests, Del(r) PROVE TypeOK'
  BY <1>4, ZenonT(60) DEF Del, CacheDel
<1>5. ASSUME NEW r \in Requests, Set(r) PROVE TypeOK'
  BY <1>5, ZenonT(60) DEF Set, CacheSet
<1>6. ASSUME NEW r \in Requests, Get(r) PROVE TypeOK'
  BY <1>6, ZenonT(60) DEF Get, CacheGet
<1>7. ASSUME NEW r \in Requests, Read(r) PROVE TypeOK'
  BY <1>7, NoneAssumption DEF Read
<1>8. ASSUME NEW r \in Requests, Fail(r) PROVE TypeOK'
  BY <1>8 DEF Fail
<1>9. CASE Expire
  BY <1>9 DEF Expire
<1>10. CASE UNCHANGED vars
  BY <1>10 DEF vars
<1>11. ASSUME NEW r \in Requests, LoginWrite(r) PROVE TypeOK'
  <2>1. row' \in Rows
    BY <1>11, WriteRow DEF LoginWrite
  <2> QED
    BY <2>1, <1>11 DEF LoginWrite
<1> QED
  BY <1>1, <1>2, <1>3, <1>4, <1>5, <1>6, <1>7, <1>8, <1>9, <1>10, <1>11 DEF Next

LEMMA StepHeldRows == TypeOK /\ HeldRows /\ [Next]_vars => HeldRows'
<1> SUFFICES ASSUME TypeOK, HeldRows, [Next]_vars PROVE HeldRows'
  OBVIOUS
<1> USE DEF TypeOK, HeldRows, Goto, Finish, Holds, StillSuspect, Overtaken
<1>1. ASSUME NEW r \in Requests, Begin(r) PROVE HeldRows'
  BY <1>1, ZenonT(60) DEF Begin
<1>2. ASSUME NEW r \in Requests, Check(r) PROVE HeldRows'
  BY <1>2, ZenonT(60) DEF Check
<1>3. ASSUME NEW r \in Requests, Write(r) PROVE HeldRows'
  BY <1>3 DEF Write
<1>4. ASSUME NEW r \in Requests, Del(r) PROVE HeldRows'
  BY <1>4, ZenonT(60) DEF Del, CacheDel
<1>5. ASSUME NEW r \in Requests, Set(r) PROVE HeldRows'
  BY <1>5, ZenonT(60) DEF Set, CacheSet
<1>6. ASSUME NEW r \in Requests, Get(r) PROVE HeldRows'
  BY <1>6, ZenonT(60) DEF Get, CacheGet
<1>7. ASSUME NEW r \in Requests, Read(r) PROVE HeldRows'
  BY <1>7 DEF Read
<1>8. ASSUME NEW r \in Requests, Fail(r) PROVE HeldRows'
  BY <1>8 DEF Fail
<1>9. CASE Expire
  BY <1>9 DEF Expire
<1>10. CASE UNCHANGED vars
  BY <1>10 DEF vars
<1>11. ASSUME NEW r \in Requests, LoginWrite(r) PROVE HeldRows'
  BY <1>11 DEF LoginWrite
<1> QED
  BY <1>1, <1>2, <1>3, <1>4, <1>5, <1>6, <1>7, <1>8, <1>9, <1>10, <1>11 DEF Next

LEMMA StepStale == Inv /\ [Next]_vars => StaleOnlyByRaceOrFailure'
<1> SUFFICES ASSUME Inv, [Next]_vars PROVE StaleOnlyByRaceOrFailure'
  OBVIOUS
<1> USE DEF Inv, TypeOK, StaleOnlyByRaceOrFailure, Pending, Goto, Finish
<1>1. ASSUME NEW r \in Requests, Begin(r) PROVE StaleOnlyByRaceOrFailure'
  BY <1>1, ZenonT(60) DEF Begin
<1>2. ASSUME NEW r \in Requests, Check(r) PROVE StaleOnlyByRaceOrFailure'
  BY <1>2, ZenonT(60) DEF Check
<1>3. ASSUME NEW r \in Requests, Write(r) PROVE StaleOnlyByRaceOrFailure'
  \* The writer itself is on its way to the cache.
  <2>1. Pending(r)'
    BY <1>3 DEF Write
  <2> QED
    BY <2>1
<1>4. ASSUME NEW r \in Requests, Del(r) PROVE StaleOnlyByRaceOrFailure'
  BY <1>4, ZenonT(60) DEF Del, CacheDel
<1>5. ASSUME NEW r \in Requests, Set(r) PROVE StaleOnlyByRaceOrFailure'
  \* What it wrote is the row, or it was a suspect already.
  <2>1. got[r] = row \/ r \in suspects
    BY <1>5 DEF Set, CacheSet, HeldRows, Holds
  <2>2. cache' = row' \/ suspects' # {}
    BY <2>1, <1>5 DEF Set, CacheSet
  <2> QED
    BY <2>2
<1>6. ASSUME NEW r \in Requests, Get(r) PROVE StaleOnlyByRaceOrFailure'
  BY <1>6, ZenonT(60) DEF Get, CacheGet
<1>7. ASSUME NEW r \in Requests, Read(r) PROVE StaleOnlyByRaceOrFailure'
  BY <1>7 DEF Read
<1>8. ASSUME NEW r \in Requests, Fail(r) PROVE StaleOnlyByRaceOrFailure'
  BY <1>8 DEF Fail
<1>9. CASE Expire
  BY <1>9 DEF Expire
<1>10. CASE UNCHANGED vars
  BY <1>10 DEF vars
<1>11. ASSUME NEW r \in Requests, LoginWrite(r) PROVE StaleOnlyByRaceOrFailure'
  \* A login is a suspect from its write on.
  <2>1. r \in suspects'
    BY <1>11 DEF LoginWrite
  <2> QED
    BY <2>1
<1> QED
  BY <1>1, <1>2, <1>3, <1>4, <1>5, <1>6, <1>7, <1>8, <1>9, <1>10, <1>11 DEF Next

\* The inductive invariant of the profile cache.
THEOREM Invariance == Spec => []Inv
<1>1. Inv /\ [Next]_vars => Inv'
  BY StepTypeOK, StepHeldRows, StepStale DEF Inv
<1> QED
  BY <1>1, InitInv, PTL DEF Spec

\* Types, for every bound on the versions.
THEOREM TypeCorrect == Spec => []TypeOK
<1>1. Inv => TypeOK
  BY DEF Inv
<1> QED
  BY <1>1, Invariance, PTL

\* The cache contradicts the row only after a race with a request that still
\* held the old row, after a lost cache write, or after a login changed the row.
THEOREM StalenessHasACause == Spec => []StaleOnlyByRaceOrFailure
<1>1. Inv => StaleOnlyByRaceOrFailure
  BY DEF Inv
<1> QED
  BY <1>1, Invariance, PTL
=============================================================================
