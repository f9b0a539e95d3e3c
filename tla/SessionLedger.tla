--------------------------- MODULE SessionLedger ---------------------------
(***************************************************************************)
(* What the authentication service promises about its session records,     *)
(* without requests, awaits or caches: a session is opened once, closed    *)
(* for good, and its current refresh token only ever moves to a token that *)
(* has never been current anywhere.                                        *)
(***************************************************************************)
CONSTANTS Users, SessionIds, TokenIds, NoUser, NoToken

VARIABLES
  account,   \* [SessionIds -> the user a session was opened for, or NoUser]
  live,      \* sessions open
  current,   \* [SessionIds -> its current refresh token, or NoToken]
  retired    \* tokens that were current once

ledger == <<account, live, current, retired>>

Init ==
  /\ account = [s \in SessionIds |-> NoUser]
  /\ live = {}
  /\ current = [s \in SessionIds |-> NoToken]
  /\ retired = {}

Open(s, u) ==
  /\ account[s] = NoUser
  /\ account' = [account EXCEPT ![s] = u]
  /\ live' = live \cup {s}
  /\ UNCHANGED <<current, retired>>

\* A refresh that overlaps the end of its session may still rotate the token of
\* the closed session: harmless, a closed session stays closed.
Rotate(s, t) ==
  /\ account[s] # NoUser
  /\ t \notin retired
  /\ \A q \in SessionIds : current[q] # t
  /\ current' = [current EXCEPT ![s] = t]
  /\ retired' = retired \cup ({current[s]} \ {NoToken})
  /\ UNCHANGED <<account, live>>

Close(K) ==
  /\ K \subseteq live
  /\ live' = live \ K
  /\ UNCHANGED <<account, current, retired>>

Next ==
  \/ \E s \in SessionIds, u \in Users : Open(s, u)
  \/ \E s \in SessionIds, t \in TokenIds : Rotate(s, t)
  \/ \E K \in SUBSET live : Close(K)

Spec == Init /\ [][Next]_ledger
=============================================================================
