----------------------------- MODULE RoomManager -----------------------------
(***************************************************************************)
(* RoomManagerService (src/core/socket/room-manager.service.ts) as a       *)
(* value: roomMembers is a function from the rooms that exist to the       *)
(* sockets in them.  Its methods are operators on that function; the       *)
(* gateway keeps one in each process.                                      *)
(***************************************************************************)
Without(m, r) == [q \in DOMAIN m \ {r} |-> m[q]]

\* m with room r holding exactly the sockets S.
With(m, r, S) == [q \in DOMAIN m \cup {r} |-> IF q = r THEN S ELSE m[q]]

getRoomMembers(m, r) == IF r \in DOMAIN m THEN m[r] ELSE {}

isInRoom(m, r, s) == s \in getRoomMembers(m, r)

addToRoom(m, r, s) == With(m, r, getRoomMembers(m, r) \cup {s})

\* Mutant: the room is kept when its last member leaves.
removeFromRoomOnly(m, r, s) ==
  IF r \in DOMAIN m THEN With(m, r, m[r] \ {s}) ELSE m

removeFromRoom(m, r, s) ==
  IF r \notin DOMAIN m THEN m
  ELSE IF m[r] \subseteq {s} THEN Without(m, r)
  ELSE With(m, r, m[r] \ {s})

\* m after every room r has lost the sockets gone[r]; a room that loses its last
\* member goes.
Drop(m, gone) ==
  [r \in {q \in DOMAIN m : m[q] \cap gone[q] = {} \/ ~(m[q] \subseteq gone[q])}
     |-> m[r] \ gone[r]]

\* removeFromAllRooms for each of the sockets K.
removeFromAllRooms(m, K) == Drop(m, [r \in DOMAIN m |-> K])

\* No room without members is kept.
NoEmptyRoom(m) == \A r \in DOMAIN m : m[r] # {}
=============================================================================
