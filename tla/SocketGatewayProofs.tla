------------------------ MODULE SocketGatewayProofs ------------------------
(***************************************************************************)
(* Proofs about SocketGateway for every set of processes, sockets, users   *)
(* and rooms.  The lemmas about RoomManager say what its methods do to the *)
(* members of any room; the invariant then compares members with members,  *)
(* and the representation of the maps no longer matters.                   *)
(***************************************************************************)
EXTENDS SocketGateway, TLAPS

-----------------------------------------------------------------------------
(* RoomManager.                                                            *)

LEMMA MembersOfEmpty == ASSUME NEW r PROVE getRoomMembers(Empty, r) = {} /\ NoEmptyRoom(Empty)
BY DEF getRoomMembers, Empty, NoEmptyRoom

\* addToRoom adds the socket to the room, and no other member anywhere.
LEMMA AddMembers ==
  ASSUME NEW m, NEW r, NEW s
  PROVE  /\ DOMAIN addToRoom(m, r, s) = DOMAIN m \cup {r}
         /\ getRoomMembers(addToRoom(m, r, s), r) = getRoomMembers(m, r) \cup {s}
         /\ \A q : q # r =>
              getRoomMembers(addToRoom(m, r, s), q) = getRoomMembers(m, q)
         /\ NoEmptyRoom(m) => NoEmptyRoom(addToRoom(m, r, s))
BY DEF addToRoom, With, getRoomMembers, NoEmptyRoom

\* removeFromRoom takes the socket out of the room, and the room away with its last
\* member.
LEMMA RemoveMembers ==
  ASSUME NEW m, NEW r, NEW s
  PROVE  LET n == removeFromRoom(m, r, s)
         IN  /\ DOMAIN n \subseteq DOMAIN m
             /\ getRoomMembers(n, r) = getRoomMembers(m, r) \ {s}
             /\ \A q : q # r => getRoomMembers(n, q) = getRoomMembers(m, q)
             /\ NoEmptyRoom(m) => NoEmptyRoom(n)
<1> DEFINE n == removeFromRoom(m, r, s)
<1>1. CASE r \notin DOMAIN m
  BY <1>1 DEF removeFromRoom, getRoomMembers
<1>2. CASE r \in DOMAIN m /\ m[r] \subseteq {s}
  <2>1. n = [q \in DOMAIN m \ {r} |-> m[q]]
    BY <1>2 DEF removeFromRoom, Without
  <2> QED
    BY <1>2, <2>1 DEF getRoomMembers, NoEmptyRoom
<1>3. CASE r \in DOMAIN m /\ ~(m[r] \subseteq {s})
  <2>1. n = [q \in DOMAIN m \cup {r} |-> IF q = r THEN m[r] \ {s} ELSE m[q]]
    BY <1>3 DEF removeFromRoom, With
  <2> QED
    BY <1>3, <2>1 DEF getRoomMembers, NoEmptyRoom
<1> QED
  BY <1>1, <1>2, <1>3

\* removeFromAllRooms, and the deletion from userSockets: every room r loses gone[r].
LEMMA DropMembers ==
  ASSUME NEW m, NEW gone, DOMAIN gone = DOMAIN m
  PROVE  LET n == Drop(m, gone)
         IN  /\ DOMAIN n \subseteq DOMAIN m
             /\ \A q \in DOMAIN m :
                  getRoomMembers(n, q) = getRoomMembers(m, q) \ gone[q]
             /\ \A q : q \notin DOMAIN m => getRoomMembers(n, q) = {}
             /\ NoEmptyRoom(m) => NoEmptyRoom(n)
BY DEF Drop, getRoomMembers, NoEmptyRoom

-----------------------------------------------------------------------------
(* The invariant.                                                          *)

\* Every process has its maps.
Maps == DOMAIN userSockets = Processes /\ DOMAIN roomMembers = Processes

\* Only connected sockets are in rooms of Socket.IO.
Placed == \A r \in Rooms, s \in Sockets : <<r, s>> \in joined => at[s] # Nowhere

Inv == TypeOK /\ Maps /\ TrackingAgrees /\ NothingLeaks /\ Placed /\ DefaultRoomsKept

\* What of Inv the emission has no part in.
Tracked ==
  /\ at \in [Sockets -> Processes \cup {Nowhere}]
  /\ dataUser \in [Sockets -> Users \cup {NoUser}]
  /\ joined \subseteq Rooms \X Sockets
  /\ clients \in [Sockets -> Users \cup {NoUser}]
  /\ \A p \in Processes : DOMAIN userSockets[p] \subseteq Users
                          /\ DOMAIN roomMembers[p] \subseteq Rooms
  /\ refused \subseteq Sockets
  /\ Maps /\ TrackingAgrees /\ NothingLeaks /\ Placed /\ DefaultRoomsKept

\* The members named in the maps are sockets because TrackingAgrees says which.
LEMMA TrackedSuffices == Tracked /\ emitted \in Emissions \cup {Quiet} <=> Inv
<1>1. ASSUME Tracked, NEW p \in Processes, NEW u \in DOMAIN userSockets[p]
      PROVE  userSockets[p][u] \subseteq Sockets
  BY <1>1 DEF Tracked, TrackingAgrees, getRoomMembers
<1>2. ASSUME Tracked, NEW p \in Processes, NEW r \in DOMAIN roomMembers[p]
      PROVE  roomMembers[p][r] \subseteq Sockets
  BY <1>2 DEF Tracked, TrackingAgrees, getRoomMembers, InRoom
<1> QED
  BY <1>1, <1>2 DEF Inv, Tracked, TypeOK

-----------------------------------------------------------------------------
LEMMA InitTracked == Init => Inv
<1> SUFFICES ASSUME Init PROVE Inv
  OBVIOUS
<1>1. Tracked
  BY NullsAssumption, MembersOfEmpty
  DEF Init, Tracked, Maps, TrackingAgrees, NothingLeaks, Placed, DefaultRoomsKept, InRoom,
      Empty
<1> QED
  BY <1>1, TrackedSuffices DEF Init

\* The disconnection of any sockets of one process: each structure loses them.
LEMMA DisconnectKeeps ==
  ASSUME Tracked, NEW p \in Processes, NEW K \in SUBSET Sockets,
         \A s \in K : at[s] = p, handleDisconnect(p, K), UNCHANGED refused
  PROVE  Tracked'
<1> USE NullsAssumption
<1>1. /\ \A s \in K : at'[s] = Nowhere /\ dataUser'[s] = NoUser /\ clients'[s] = NoUser
      /\ \A s \in Sockets \ K :
           at'[s] = at[s] /\ dataUser'[s] = dataUser[s] /\ clients'[s] = clients[s]
      /\ at' \in [Sockets -> Processes \cup {Nowhere}]
      /\ dataUser' \in [Sockets -> Users \cup {NoUser}]
      /\ clients' \in [Sockets -> Users \cup {NoUser}]
  BY DEF Tracked, handleDisconnect
<1>2. /\ joined' \subseteq joined
      /\ \A r \in Rooms, s \in Sockets : <<r, s>> \in joined' <=> <<r, s>> \in joined /\ s \notin K
  BY DEF Tracked, handleDisconnect
<1> DEFINE mine == userSockets[p]
           gone == [u \in DOMAIN mine |-> {s \in K : clients[s] = u}]
<1>3. /\ DOMAIN userSockets' = Processes
      /\ userSockets'[p] = Drop(mine, gone)
      /\ \A q \in Processes \ {p} : userSockets'[q] = userSockets[q]
  BY DEF Tracked, Maps, handleDisconnect
<1>4. /\ DOMAIN roomMembers' = Processes
      /\ roomMembers'[p] = Drop(roomMembers[p], [r \in DOMAIN roomMembers[p] |-> K])
      /\ \A q \in Processes \ {p} : roomMembers'[q] = roomMembers[q]
  BY DEF Tracked, Maps, handleDisconnect, removeFromAllRooms
<1>5. /\ DOMAIN userSockets'[p] \subseteq Users
      /\ \A u \in Users : getRoomMembers(userSockets'[p], u)
                           = getRoomMembers(mine, u) \ {s \in K : clients[s] = u}
      /\ NoEmptyRoom(userSockets'[p])
  <2>1. NoEmptyRoom(mine) /\ DOMAIN mine \subseteq Users
    BY DEF Tracked, NothingLeaks
  <2>2. \A u : u \notin DOMAIN mine => getRoomMembers(mine, u) = {}
    BY DEF getRoomMembers
  <2>3. DOMAIN gone = DOMAIN mine
    OBVIOUS
  <2> HIDE DEF gone
  <2>4. \A u \in DOMAIN mine : gone[u] = {s \in K : clients[s] = u}
    BY DEF gone
  <2> HIDE DEF mine
  <2>5. /\ DOMAIN Drop(mine, gone) \subseteq DOMAIN mine /\ NoEmptyRoom(Drop(mine, gone))
        /\ \A q \in DOMAIN mine : getRoomMembers(Drop(mine, gone), q)
                                  = getRoomMembers(mine, q) \ gone[q]
        /\ \A q : q \notin DOMAIN mine => getRoomMembers(Drop(mine, gone), q) = {}
    BY <2>1, <2>3, DropMembers
  <2>6. ASSUME NEW u \in Users
        PROVE  getRoomMembers(Drop(mine, gone), u)
               = getRoomMembers(mine, u) \ {s \in K : clients[s] = u}
    <3>1. CASE u \in DOMAIN mine
      BY <2>4, <2>5, <3>1
    <3>2. CASE u \notin DOMAIN mine
      <4>1. getRoomMembers(Drop(mine, gone), u) = {} /\ getRoomMembers(mine, u) = {}
        BY <2>2, <2>5, <3>2
      <4> QED
        BY <4>1
    <3> QED
      BY <3>1, <3>2
  <2>7. userSockets'[p] = Drop(mine, gone)
    BY <1>3
  <2>8. DOMAIN Drop(mine, gone) \subseteq Users
    BY <2>1, <2>5
  <2> QED
    BY <2>5, <2>6, <2>7, <2>8
<1>6. /\ DOMAIN roomMembers'[p] \subseteq Rooms
      /\ \A r : getRoomMembers(roomMembers'[p], r) = getRoomMembers(roomMembers[p], r) \ K
      /\ NoEmptyRoom(roomMembers'[p])
  <2> DEFINE m == roomMembers[p]
             all == [r \in DOMAIN m |-> K]
  <2>1. NoEmptyRoom(m) /\ DOMAIN m \subseteq Rooms
    BY DEF Tracked, NothingLeaks
  <2>2. \A r : r \notin DOMAIN m => getRoomMembers(m, r) = {}
    BY DEF getRoomMembers
  <2>3. DOMAIN all = DOMAIN m /\ \A r \in DOMAIN m : all[r] = K
    OBVIOUS
  <2>4. roomMembers'[p] = Drop(m, all)
    BY <1>4
  <2> HIDE DEF m, all
  <2>5. /\ DOMAIN Drop(m, all) \subseteq DOMAIN m /\ NoEmptyRoom(Drop(m, all))
        /\ \A q \in DOMAIN m : getRoomMembers(Drop(m, all), q)
                               = getRoomMembers(m, q) \ all[q]
        /\ \A q : q \notin DOMAIN m => getRoomMembers(Drop(m, all), q) = {}
    BY <2>1, <2>3, DropMembers
  <2>6. ASSUME NEW r
        PROVE  getRoomMembers(Drop(m, all), r) = getRoomMembers(m, r) \ K
    <3>1. CASE r \in DOMAIN m
      BY <2>3, <2>5, <3>1
    <3>2. CASE r \notin DOMAIN m
      <4>1. getRoomMembers(Drop(m, all), r) = {} /\ getRoomMembers(m, r) = {}
        BY <2>2, <2>5, <3>2
      <4> QED
        BY <4>1
    <3> QED
      BY <3>1, <3>2
  <2> QED
    BY <2>1, <2>4, <2>5, <2>6 DEF m
<1>7. TrackingAgrees'
  <2>1. \A s \in Sockets : clients'[s] = dataUser'[s] /\ (at'[s] = Nowhere <=> clients'[s] = NoUser)
    BY <1>1 DEF Tracked, TrackingAgrees
  <2>2. ASSUME NEW q \in Processes, NEW u \in Users
        PROVE  getRoomMembers(userSockets'[q], u) = {s \in Sockets : at'[s] = q /\ clients'[s] = u}
    <3>1. getRoomMembers(userSockets[q], u) = {s \in Sockets : at[s] = q /\ clients[s] = u}
      BY DEF Tracked, TrackingAgrees
    <3>2. CASE q = p
      BY <1>1, <1>5, <3>1, <3>2
    <3>3. CASE q # p
      BY <1>1, <1>3, <3>1, <3>3
    <3> QED
      BY <3>2, <3>3
  <2>3. ASSUME NEW q \in Processes, NEW r \in Rooms
        PROVE  getRoomMembers(roomMembers'[q], r) = {s \in Sockets : <<r, s>> \in joined' /\ at'[s] = q}
    <3>1. getRoomMembers(roomMembers[q], r) = {s \in Sockets : <<r, s>> \in joined /\ at[s] = q}
      BY DEF Tracked, TrackingAgrees, InRoom
    <3>2. CASE q = p
      BY <1>1, <1>2, <1>6, <3>1, <3>2
    <3>3. CASE q # p
      BY <1>1, <1>2, <1>4, <3>1, <3>3
    <3> QED
      BY <3>2, <3>3
  <2> QED
    BY <2>1, <2>2, <2>3 DEF TrackingAgrees, InRoom
<1>8. NothingLeaks'
  <2>1. \A q \in Processes : NoEmptyRoom(userSockets'[q]) /\ NoEmptyRoom(roomMembers'[q])
    BY <1>3, <1>4, <1>5, <1>6 DEF Tracked, NothingLeaks
  <2>2. \A s \in refused : clients'[s] = NoUser /\ \A j \in joined' : j[2] # s
    BY <1>1, <1>2 DEF Tracked, NothingLeaks
  <2> QED
    BY <2>1, <2>2 DEF NothingLeaks
<1>9. Placed' /\ DefaultRoomsKept'
  <2>1. \A u \in Users : u \in Rooms /\ Broadcast \in Rooms
    BY DEF Rooms
  <2>2. Placed'
    BY <1>1, <1>2 DEF Tracked, Placed
  <2>3. ASSUME NEW s \in Sockets, at'[s] # Nowhere
        PROVE  <<dataUser'[s], s>> \in joined' /\ <<Broadcast, s>> \in joined'
    <3>1. s \notin K /\ at[s] # Nowhere
      BY <1>1, <2>3
    <3>2. dataUser[s] \in Users
      BY <3>1 DEF Tracked, TrackingAgrees
    <3> QED
      BY <1>1, <1>2, <2>1, <3>1, <3>2 DEF Tracked, DefaultRoomsKept
  <2> QED
    BY <2>2, <2>3 DEF DefaultRoomsKept
<1> QED
  BY <1>1, <1>2, <1>3, <1>4, <1>5, <1>6, <1>7, <1>8, <1>9 DEF Tracked, Maps

-----------------------------------------------------------------------------
(* The other handlers.                                                     *)

LEMMA ConnectKeeps ==
  ASSUME Tracked, NEW s0 \in Sockets, NEW p \in Processes, NEW u0 \in Users,
         Connect(s0, p, u0)
  PROVE  Tracked'
<1> USE NullsAssumption, RoomsAssumption
<1>1. /\ at[s0] = Nowhere /\ at'[s0] = p /\ dataUser'[s0] = u0 /\ clients'[s0] = u0
      /\ \A s \in Sockets \ {s0} :
           at'[s] = at[s] /\ dataUser'[s] = dataUser[s] /\ clients'[s] = clients[s]
      /\ at' \in [Sockets -> Processes \cup {Nowhere}]
      /\ dataUser' \in [Sockets -> Users \cup {NoUser}]
      /\ clients' \in [Sockets -> Users \cup {NoUser}]
      /\ joined' = joined \cup {<<u0, s0>>, <<Broadcast, s0>>}
      /\ refused' = refused \ {s0}
  BY DEF Tracked, Connect
<1>2. /\ u0 \in Rooms /\ Broadcast \in Rooms /\ u0 # Broadcast
      /\ \A r \in Rooms : <<r, s0>> \notin joined
  BY <1>1 DEF Rooms, Tracked, Placed
<1>3. /\ DOMAIN userSockets' = Processes
      /\ userSockets'[p] = addToRoom(userSockets[p], u0, s0)
      /\ \A q \in Processes \ {p} : userSockets'[q] = userSockets[q]
      /\ DOMAIN roomMembers' = Processes
      /\ roomMembers'[p] = addToRoom(addToRoom(roomMembers[p], u0, s0), Broadcast, s0)
      /\ \A q \in Processes \ {p} : roomMembers'[q] = roomMembers[q]
  BY DEF Tracked, Maps, Connect
<1>4. /\ DOMAIN userSockets'[p] \subseteq Users
      /\ getRoomMembers(userSockets'[p], u0) = getRoomMembers(userSockets[p], u0) \cup {s0}
      /\ \A u : u # u0 => getRoomMembers(userSockets'[p], u) = getRoomMembers(userSockets[p], u)
      /\ NoEmptyRoom(userSockets'[p])
  <2>1. NoEmptyRoom(userSockets[p]) /\ DOMAIN userSockets[p] \subseteq Users
    BY DEF Tracked, NothingLeaks
  <2> DEFINE n == addToRoom(userSockets[p], u0, s0)
  <2>2. /\ DOMAIN n = DOMAIN userSockets[p] \cup {u0}
        /\ getRoomMembers(n, u0) = getRoomMembers(userSockets[p], u0) \cup {s0}
        /\ \A u : u # u0 => getRoomMembers(n, u) = getRoomMembers(userSockets[p], u)
        /\ NoEmptyRoom(userSockets[p]) => NoEmptyRoom(n)
    BY AddMembers
  <2>3. userSockets'[p] = n
    BY <1>3
  <2> HIDE DEF n
  <2> QED
    BY <2>1, <2>2, <2>3
<1>5. /\ DOMAIN roomMembers'[p] \subseteq Rooms
      /\ \A r \in {u0, Broadcast} :
           getRoomMembers(roomMembers'[p], r) = getRoomMembers(roomMembers[p], r) \cup {s0}
      /\ \A r : r \notin {u0, Broadcast} =>
           getRoomMembers(roomMembers'[p], r) = getRoomMembers(roomMembers[p], r)
      /\ NoEmptyRoom(roomMembers'[p])
  <2> DEFINE m == addToRoom(roomMembers[p], u0, s0)
  <2>1. NoEmptyRoom(roomMembers[p]) /\ DOMAIN roomMembers[p] \subseteq Rooms
    BY DEF Tracked, NothingLeaks
  <2>2. /\ DOMAIN m = DOMAIN roomMembers[p] \cup {u0}
        /\ getRoomMembers(m, u0) = getRoomMembers(roomMembers[p], u0) \cup {s0}
        /\ \A r : r # u0 => getRoomMembers(m, r) = getRoomMembers(roomMembers[p], r)
        /\ NoEmptyRoom(roomMembers[p]) => NoEmptyRoom(m)
    BY AddMembers
  <2>3. roomMembers'[p] = addToRoom(m, Broadcast, s0)
    BY <1>3
  <2> HIDE DEF m
  <2>4. /\ DOMAIN addToRoom(m, Broadcast, s0) = DOMAIN m \cup {Broadcast}
        /\ NoEmptyRoom(m) => NoEmptyRoom(addToRoom(m, Broadcast, s0))
        /\ getRoomMembers(addToRoom(m, Broadcast, s0), Broadcast)
             = getRoomMembers(m, Broadcast) \cup {s0}
        /\ \A r : r # Broadcast =>
             getRoomMembers(addToRoom(m, Broadcast, s0), r) = getRoomMembers(m, r)
    BY DEF addToRoom, With, getRoomMembers, NoEmptyRoom
  <2>5. /\ DOMAIN roomMembers'[p] = DOMAIN roomMembers[p] \cup {u0, Broadcast}
        /\ NoEmptyRoom(roomMembers'[p])
    BY <2>1, <2>2, <2>3, <2>4
  <2> QED
    BY <1>2, <2>1, <2>2, <2>3, <2>4, <2>5
<1>6. TrackingAgrees'
  <2>1. \A s \in Sockets : clients'[s] = dataUser'[s] /\ (at'[s] = Nowhere <=> clients'[s] = NoUser)
    BY <1>1 DEF Tracked, TrackingAgrees
  <2>2. ASSUME NEW q \in Processes, NEW u \in Users
        PROVE  getRoomMembers(userSockets'[q], u) = {s \in Sockets : at'[s] = q /\ clients'[s] = u}
    <3>1. getRoomMembers(userSockets[q], u) = {s \in Sockets : at[s] = q /\ clients[s] = u}
      BY DEF Tracked, TrackingAgrees
    <3>2. CASE q = p /\ u = u0
      BY <1>1, <1>4, <3>1, <3>2
    <3>3. CASE q = p /\ u # u0
      BY <1>1, <1>4, <3>1, <3>3
    <3>4. CASE q # p
      BY <1>1, <1>3, <3>1, <3>4
    <3> QED
      BY <3>2, <3>3, <3>4
  <2>3. ASSUME NEW q \in Processes, NEW r \in Rooms
        PROVE  getRoomMembers(roomMembers'[q], r) = {s \in Sockets : <<r, s>> \in joined' /\ at'[s] = q}
    <3>1. getRoomMembers(roomMembers[q], r) = {s \in Sockets : <<r, s>> \in joined /\ at[s] = q}
      BY DEF Tracked, TrackingAgrees, InRoom
    <3>2. CASE q = p /\ r \in {u0, Broadcast}
      BY <1>1, <1>5, <3>1, <3>2
    <3>3. CASE q = p /\ r \notin {u0, Broadcast}
      BY <1>1, <1>2, <1>5, <3>1, <3>3
    <3>4. CASE q # p
      BY <1>1, <1>3, <3>1, <3>4
    <3> QED
      BY <3>2, <3>3, <3>4
  <2> QED
    BY <2>1, <2>2, <2>3 DEF TrackingAgrees, InRoom
<1>7. NothingLeaks'
  <2>1. \A q \in Processes : NoEmptyRoom(userSockets'[q]) /\ NoEmptyRoom(roomMembers'[q])
    BY <1>3, <1>4, <1>5 DEF Tracked, NothingLeaks
  <2>2. \A s \in refused' : clients'[s] = NoUser /\ \A j \in joined' : j[2] # s
    BY <1>1 DEF Tracked, NothingLeaks
  <2> QED
    BY <2>1, <2>2 DEF NothingLeaks
<1>8. Placed' /\ DefaultRoomsKept'
  BY <1>1, <1>2 DEF Tracked, Placed, DefaultRoomsKept
<1>9. joined' \subseteq Rooms \X Sockets
  BY <1>1, <1>2 DEF Tracked
<1>10. \A q \in Processes : DOMAIN userSockets'[q] \subseteq Users /\ DOMAIN roomMembers'[q] \subseteq Rooms
  BY <1>3, <1>4, <1>5 DEF Tracked
<1> QED
  BY <1>1, <1>3, <1>6, <1>7, <1>8, <1>9, <1>10 DEF Tracked, Maps

\* Joining and leaving: one room of one process gains or loses one socket, in both
\* structures.
LEMMA RoomChangeKeeps ==
  ASSUME Tracked, NEW s0 \in Sockets, at[s0] # Nowhere, NEW r0,
         NEW m, roomMembers' = [roomMembers EXCEPT ![at[s0]] = m],
         DOMAIN m \subseteq Rooms, NoEmptyRoom(m),
         joined' \subseteq Rooms \X Sockets,
         \A r \in Rooms, s \in Sockets :
           (r # r0 \/ s # s0) => (<<r, s>> \in joined' <=> <<r, s>> \in joined),
         \A r : r # r0 => getRoomMembers(m, r) = getRoomMembers(roomMembers[at[s0]], r),
         r0 \in Rooms =>
           getRoomMembers(m, r0) = IF <<r0, s0>> \in joined'
                                   THEN getRoomMembers(roomMembers[at[s0]], r0) \cup {s0}
                                   ELSE getRoomMembers(roomMembers[at[s0]], r0) \ {s0},
         r0 \in {dataUser[s0], Broadcast} => <<r0, s0>> \in joined',
         UNCHANGED <<at, dataUser, clients, userSockets, refused>>
  PROVE  Tracked'
<1> USE NullsAssumption
<1> DEFINE p == at[s0]
<1>1. p \in Processes
  BY DEF Tracked
<1>2. /\ DOMAIN roomMembers' = Processes /\ roomMembers'[p] = m
      /\ \A q \in Processes \ {p} : roomMembers'[q] = roomMembers[q]
  BY <1>1 DEF Tracked, Maps
<1>3. ASSUME NEW q \in Processes, NEW r \in Rooms
      PROVE  getRoomMembers(roomMembers'[q], r) = {s \in Sockets : <<r, s>> \in joined' /\ at[s] = q}
  <2>1. getRoomMembers(roomMembers[q], r) = {s \in Sockets : <<r, s>> \in joined /\ at[s] = q}
    BY DEF Tracked, TrackingAgrees, InRoom
  <2>2. CASE q # p
    BY <1>2, <2>1, <2>2
  <2>3. CASE q = p /\ r # r0
    BY <1>2, <2>1, <2>3
  <2>4. CASE q = p /\ r = r0
    <3>1. \A s \in Sockets \ {s0} : <<r, s>> \in joined' <=> <<r, s>> \in joined
      OBVIOUS
    <3>2. CASE <<r0, s0>> \in joined'
      BY <1>2, <2>1, <2>4, <3>1, <3>2
    <3>3. CASE <<r0, s0>> \notin joined'
      BY <1>2, <2>1, <2>4, <3>1, <3>3
    <3> QED
      BY <3>2, <3>3
  <2> QED
    BY <2>2, <2>3, <2>4
<1>4. TrackingAgrees'
  BY <1>3 DEF Tracked, TrackingAgrees, InRoom
<1>5. NothingLeaks'
  <2>1. \A q \in Processes : NoEmptyRoom(userSockets'[q]) /\ NoEmptyRoom(roomMembers'[q])
    BY <1>2 DEF Tracked, NothingLeaks
  <2>2. s0 \notin refused
    BY DEF Tracked, NothingLeaks, TrackingAgrees
  <2>3. ASSUME NEW s \in refused, NEW j \in joined' PROVE j[2] # s
    <3>1. j[1] \in Rooms /\ j[2] \in Sockets /\ j = <<j[1], j[2]>>
      OBVIOUS
    <3> QED
      BY <2>2, <3>1 DEF Tracked, NothingLeaks
  <2> QED
    BY <2>1, <2>3 DEF Tracked, NothingLeaks
<1>6. Placed'
  BY DEF Tracked, Placed
<1>7. DefaultRoomsKept'
  <2>1. \A s \in Sockets : at[s] # Nowhere => dataUser[s] \in Rooms /\ Broadcast \in Rooms
    BY DEF Tracked, TrackingAgrees, Rooms
  <2> QED
    BY <2>1 DEF Tracked, DefaultRoomsKept
<1>8. \A q \in Processes : DOMAIN userSockets'[q] \subseteq Users /\ DOMAIN roomMembers'[q] \subseteq Rooms
  BY <1>2 DEF Tracked
<1> QED
  BY <1>2, <1>4, <1>5, <1>6, <1>7, <1>8 DEF Tracked, Maps

\* A restart loses the sockets and the maps of one process together.
LEMMA RestartKeeps ==
  ASSUME Tracked, NEW p \in Processes, Restart(p)
  PROVE  Tracked'
<1> USE NullsAssumption
<1>1. /\ \A s \in Sockets : at[s] = p =>
           at'[s] = Nowhere /\ dataUser'[s] = NoUser /\ clients'[s] = NoUser
      /\ \A s \in Sockets : at[s] # p =>
           at'[s] = at[s] /\ dataUser'[s] = dataUser[s] /\ clients'[s] = clients[s]
      /\ at' \in [Sockets -> Processes \cup {Nowhere}]
      /\ dataUser' \in [Sockets -> Users \cup {NoUser}]
      /\ clients' \in [Sockets -> Users \cup {NoUser}]
      /\ refused' = refused
  BY DEF Tracked, Restart
<1>2. /\ joined' \subseteq joined
      /\ \A r \in Rooms, s \in Sockets :
           <<r, s>> \in joined' <=> <<r, s>> \in joined /\ at[s] # p
  BY DEF Restart
<1>3. /\ DOMAIN userSockets' = Processes /\ DOMAIN roomMembers' = Processes
      /\ userSockets'[p] = Empty /\ roomMembers'[p] = Empty
      /\ \A q \in Processes \ {p} :
           userSockets'[q] = userSockets[q] /\ roomMembers'[q] = roomMembers[q]
  BY DEF Tracked, Maps, Restart
<1>4. /\ DOMAIN Empty = {} /\ NoEmptyRoom(Empty)
      /\ \A r : getRoomMembers(Empty, r) = {}
  BY DEF Empty, NoEmptyRoom, getRoomMembers
<1>5. TrackingAgrees'
  <2>1. \A s \in Sockets : clients'[s] = dataUser'[s] /\ (at'[s] = Nowhere <=> clients'[s] = NoUser)
    BY <1>1 DEF Tracked, TrackingAgrees
  <2>2. ASSUME NEW q \in Processes, NEW u \in Users
        PROVE  getRoomMembers(userSockets'[q], u) = {s \in Sockets : at'[s] = q /\ clients'[s] = u}
    <3>1. getRoomMembers(userSockets[q], u) = {s \in Sockets : at[s] = q /\ clients[s] = u}
      BY DEF Tracked, TrackingAgrees
    <3>2. CASE q = p
      BY <1>1, <1>3, <1>4, <3>2
    <3>3. CASE q # p
      BY <1>1, <1>3, <3>1, <3>3
    <3> QED
      BY <3>2, <3>3
  <2>3. ASSUME NEW q \in Processes, NEW r \in Rooms
        PROVE  getRoomMembers(roomMembers'[q], r) = {s \in Sockets : <<r, s>> \in joined' /\ at'[s] = q}
    <3>1. getRoomMembers(roomMembers[q], r) = {s \in Sockets : <<r, s>> \in joined /\ at[s] = q}
      BY DEF Tracked, TrackingAgrees, InRoom
    <3>2. CASE q = p
      BY <1>1, <1>3, <1>4, <3>2
    <3>3. CASE q # p
      BY <1>1, <1>2, <1>3, <3>1, <3>3
    <3> QED
      BY <3>2, <3>3
  <2> QED
    BY <2>1, <2>2, <2>3 DEF TrackingAgrees, InRoom
<1>6. NothingLeaks'
  <2>1. \A q \in Processes : NoEmptyRoom(userSockets'[q]) /\ NoEmptyRoom(roomMembers'[q])
    BY <1>3, <1>4 DEF Tracked, NothingLeaks
  <2>2. \A s \in refused : clients'[s] = NoUser /\ \A j \in joined' : j[2] # s
    BY <1>1, <1>2 DEF Tracked, NothingLeaks
  <2> QED
    BY <1>1, <2>1, <2>2 DEF NothingLeaks
<1>7. Placed'
  BY <1>1, <1>2 DEF Tracked, Placed
<1>8. DefaultRoomsKept'
  <2>1. ASSUME NEW s \in Sockets, at'[s] # Nowhere
        PROVE  <<dataUser'[s], s>> \in joined' /\ <<Broadcast, s>> \in joined'
    <3>1. at[s] # p /\ at[s] # Nowhere /\ dataUser'[s] = dataUser[s]
      BY <1>1, <2>1
    <3>2. dataUser[s] \in Rooms /\ Broadcast \in Rooms
      BY <3>1 DEF Tracked, TrackingAgrees, Rooms
    <3> QED
      BY <1>2, <3>1, <3>2 DEF Tracked, DefaultRoomsKept
  <2> QED
    BY <2>1 DEF DefaultRoomsKept
<1>9. \A q \in Processes : DOMAIN userSockets'[q] \subseteq Users /\ DOMAIN roomMembers'[q] \subseteq Rooms
  BY <1>3, <1>4 DEF Tracked
<1> QED
  BY <1>1, <1>2, <1>3, <1>5, <1>6, <1>7, <1>8, <1>9 DEF Tracked, Maps

\* A refused socket was in no structure.
LEMMA RefusalKeeps ==
  ASSUME Tracked, NEW s0 \in Sockets, ConnectRefused(s0)
  PROVE  Tracked'
<1>1. clients[s0] = NoUser
  BY DEF Tracked, TrackingAgrees, ConnectRefused
<1>2. \A j \in joined : j[2] # s0
  <2> SUFFICES ASSUME NEW j \in joined, j[2] = s0 PROVE FALSE
    OBVIOUS
  <2>1. j[1] \in Rooms /\ j = <<j[1], s0>>
    BY DEF Tracked
  <2> QED
    BY <2>1 DEF Tracked, Placed, ConnectRefused
<1>3. NothingLeaks'
  BY <1>1, <1>2 DEF Tracked, NothingLeaks, ConnectRefused
<1> QED
  BY <1>3 DEF Tracked, ConnectRefused, Maps, TrackingAgrees, InRoom, Placed,
      DefaultRoomsKept

LEMMA JoinKeeps ==
  ASSUME Tracked, NEW s0 \in Sockets, NEW r0 \in Rooms \cup BadRooms,
         handleRoomJoin(s0, r0)
  PROVE  Tracked'
<1> DEFINE old == roomMembers[at[s0]]
           m == addToRoom(old, r0, s0)
<1>1. at[s0] # Nowhere /\ at[s0] \in Processes /\ r0 \in Rooms
  BY DEF Tracked, handleRoomJoin
<1>2. DOMAIN old \subseteq Rooms /\ NoEmptyRoom(old)
  BY <1>1 DEF Tracked, NothingLeaks
<1>3. /\ roomMembers' = [roomMembers EXCEPT ![at[s0]] = m]
      /\ joined' = joined \cup {<<r0, s0>>}
      /\ UNCHANGED <<at, dataUser, clients, userSockets, refused>>
  BY DEF handleRoomJoin
<1>4. /\ DOMAIN m = DOMAIN old \cup {r0}
      /\ getRoomMembers(m, r0) = getRoomMembers(old, r0) \cup {s0}
      /\ \A q : q # r0 => getRoomMembers(m, q) = getRoomMembers(old, q)
      /\ NoEmptyRoom(old) => NoEmptyRoom(m)
  BY AddMembers
<1>5. joined' \subseteq Rooms \X Sockets
  BY <1>1, <1>3 DEF Tracked
<1> HIDE DEF m
<1> QED
  BY <1>1, <1>2, <1>3, <1>4, <1>5, RoomChangeKeeps

LEMMA LeaveKeeps ==
  ASSUME Tracked, NEW s0 \in Sockets, NEW r0 \in Rooms \cup BadRooms,
         handleRoomLeave(s0, r0)
  PROVE  Tracked'
<1> DEFINE old == roomMembers[at[s0]]
           m == removeFromRoom(old, r0, s0)
<1>1. at[s0] # Nowhere /\ at[s0] \in Processes /\ r0 \notin {dataUser[s0], Broadcast}
  BY DEF Tracked, handleRoomLeave
<1>2. DOMAIN old \subseteq Rooms /\ NoEmptyRoom(old)
  BY <1>1 DEF Tracked, NothingLeaks
<1>3. /\ roomMembers' = [roomMembers EXCEPT ![at[s0]] = m]
      /\ joined' = joined \ {<<r0, s0>>}
      /\ UNCHANGED <<at, dataUser, clients, userSockets, refused>>
  BY DEF handleRoomLeave
<1>4. /\ DOMAIN m \subseteq DOMAIN old
      /\ getRoomMembers(m, r0) = getRoomMembers(old, r0) \ {s0}
      /\ \A q : q # r0 => getRoomMembers(m, q) = getRoomMembers(old, q)
      /\ NoEmptyRoom(old) => NoEmptyRoom(m)
  BY RemoveMembers
<1>5. joined' \subseteq Rooms \X Sockets
  BY <1>3 DEF Tracked
<1> HIDE DEF m
<1> QED
  BY <1>1, <1>2, <1>3, <1>4, <1>5, RoomChangeKeeps

-----------------------------------------------------------------------------
(* Every step.                                                             *)

\* One step of one socket or one process, by its handler.
LEMMA NextIsAHandler ==
  ASSUME Next
  PROVE  \/ \E s \in Sockets, p \in Processes, u \in Users : Connect(s, p, u)
         \/ \E s \in Sockets : ConnectRefused(s) \/ Disconnect(s)
         \/ \E s \in Sockets, r \in Rooms \cup BadRooms :
              handleRoomJoin(s, r) \/ handleRoomLeave(s, r) \/ handleChatSend(s, r)
         \/ \E p \in Processes, r \in Rooms : Notify(p, r)
         \/ \E p \in Processes, u \in Users : forceLogoutUser(p, u)
         \/ \E p \in Processes : Restart(p)
BY DEF Next, Client, Server

LEMMA EmitIsTyped ==
  ASSUME NEW e \in Events, NEW p \in Processes, NEW r \in Rooms \cup BadRooms,
         NEW from \in Sockets \cup {Nowhere}, Emit(e, p, r, from)
  PROVE  emitted' \in Emissions
<1>1. InRoom(p, r) \ {from} \in SUBSET Sockets
  BY DEF InRoom
<1> HIDE DEF InRoom
<1> QED
  BY <1>1 DEF Emit, Emissions

LEMMA NextKeeps == Inv /\ [Next]_vars => Inv'
<1> SUFFICES ASSUME Inv, [Next]_vars PROVE Inv'
  OBVIOUS
<1> USE NullsAssumption
<1>1. Tracked /\ emitted \in Emissions \cup {Quiet}
  BY TrackedSuffices
<1>2. CASE UNCHANGED vars
  BY <1>2 DEF vars, Inv, TypeOK, Maps, TrackingAgrees, InRoom, NothingLeaks, Placed,
              DefaultRoomsKept
<1>3. SUFFICES ASSUME Next PROVE Tracked' /\ emitted' \in Emissions \cup {Quiet}
  <2>1. (Tracked /\ emitted \in Emissions \cup {Quiet} <=> Inv)'
    BY TrackedSuffices, PTL
  <2> QED
    BY <1>2, <1>3, <2>1
<1>4. ASSUME NEW s \in Sockets, NEW p \in Processes, NEW u \in Users, Connect(s, p, u)
      PROVE  Tracked' /\ emitted' \in Emissions \cup {Quiet}
  <2>1. emitted' = emitted
    BY <1>4 DEF Connect
  <2> QED
    BY <1>1, <1>4, <2>1, ConnectKeeps
<1>5. ASSUME NEW s \in Sockets, ConnectRefused(s)
      PROVE  Tracked' /\ emitted' \in Emissions \cup {Quiet}
  <2>1. emitted' = emitted
    BY <1>5 DEF ConnectRefused
  <2> QED
    BY <1>1, <1>5, <2>1, RefusalKeeps
<1>6. ASSUME NEW s \in Sockets, Disconnect(s)
      PROVE  Tracked' /\ emitted' \in Emissions \cup {Quiet}
  <2>1. /\ at[s] \in Processes /\ handleDisconnect(at[s], {s})
        /\ refused' = refused /\ emitted' = emitted
    BY <1>1, <1>6 DEF Disconnect, Tracked
  <2>2. {s} \in SUBSET Sockets /\ \A q \in {s} : at[q] = at[s]
    OBVIOUS
  <2> QED
    BY <1>1, <2>1, <2>2, DisconnectKeeps
<1>7. ASSUME NEW s \in Sockets, NEW r \in Rooms \cup BadRooms, handleRoomJoin(s, r)
      PROVE  Tracked' /\ emitted' \in Emissions \cup {Quiet}
  <2>1. at[s] \in Processes /\ Emit("room:user_joined", at[s], r, s)
    BY <1>1, <1>7 DEF Tracked, handleRoomJoin
  <2>2. emitted' \in Emissions
    BY <2>1, EmitIsTyped DEF Events
  <2> QED
    BY <1>1, <1>7, <2>2, JoinKeeps
<1>8. ASSUME NEW s \in Sockets, NEW r \in Rooms \cup BadRooms, handleRoomLeave(s, r)
      PROVE  Tracked' /\ emitted' \in Emissions \cup {Quiet}
  <2>1. at[s] \in Processes /\ Emit("room:user_left", at[s], r, s)
    BY <1>1, <1>8 DEF Tracked, handleRoomLeave
  <2>2. emitted' \in Emissions
    BY <2>1, EmitIsTyped DEF Events
  <2> QED
    BY <1>1, <1>8, <2>2, LeaveKeeps
<1>9. ASSUME UNCHANGED <<at, dataUser, joined, clients, userSockets, roomMembers, refused>>
      PROVE  Tracked'
  BY <1>1, <1>9 DEF Tracked, Maps, TrackingAgrees, InRoom, NothingLeaks, Placed,
                    DefaultRoomsKept
<1>10. ASSUME NEW s \in Sockets, NEW r \in Rooms \cup BadRooms, handleChatSend(s, r)
       PROVE  Tracked' /\ emitted' \in Emissions \cup {Quiet}
  <2>1. at[s] \in Processes /\ Emit("chat:message", at[s], r, s)
    BY <1>1, <1>10 DEF Tracked, handleChatSend
  <2>2. emitted' \in Emissions
    BY <2>1, EmitIsTyped DEF Events
  <2> QED
    BY <1>9, <1>10, <2>2 DEF handleChatSend
<1>11. ASSUME NEW p \in Processes, NEW r \in Rooms, Notify(p, r)
       PROVE  Tracked' /\ emitted' \in Emissions \cup {Quiet}
  <2>1. emitted' \in Emissions
    BY <1>11, EmitIsTyped DEF Events, Notify
  <2> QED
    BY <1>9, <1>11, <2>1 DEF Notify
<1>12. ASSUME NEW p \in Processes, NEW u \in Users, forceLogoutUser(p, u)
       PROVE  Tracked' /\ emitted' \in Emissions \cup {Quiet}
  <2> DEFINE K == {s \in getRoomMembers(userSockets[p], u) : at[s] = p}
  <2>1. K \in SUBSET Sockets /\ \A s \in K : at[s] = p
    BY <1>1 DEF Tracked, TrackingAgrees
  <2>2. handleDisconnect(p, K) /\ refused' = refused /\ Emit("force_logout", p, u, Nowhere)
    BY <1>12 DEF forceLogoutUser
  <2> HIDE DEF K
  <2>3. emitted' \in Emissions
    BY <2>2, EmitIsTyped DEF Events, Rooms
  <2> QED
    BY <1>1, <2>1, <2>2, <2>3, DisconnectKeeps
<1>13. ASSUME NEW p \in Processes, Restart(p)
       PROVE  Tracked' /\ emitted' \in Emissions \cup {Quiet}
  <2>1. emitted' = emitted
    BY <1>13 DEF Restart
  <2> QED
    BY <1>1, <1>13, <2>1, RestartKeeps
<1> QED
  BY <1>3, <1>4, <1>5, <1>6, <1>7, <1>8, <1>10, <1>11, <1>12, <1>13, NextIsAHandler

\* The invariant the theorems below are read from: the structures agree, name only
\* connected sockets, and hold nothing else.
THEOREM Invariant == Spec => []Inv
BY InitTracked, NextKeeps, PTL DEF Spec

\* The gateway's state has its type in every reachable state.
THEOREM TypeCorrect == Spec => []TypeOK
<1>1. Inv => TypeOK
  BY DEF Inv
<1> QED
  BY <1>1, Invariant, PTL

\* connectedClients, userSockets, RoomManager and the rooms of Socket.IO describe the
\* same sockets in every process, whatever connects, joins, leaves, drops, is
\* logged out or restarts.
THEOREM TrackingIsConsistent == Spec => []TrackingAgrees
<1>1. Inv => TrackingAgrees
  BY DEF Inv
<1> QED
  BY <1>1, Invariant, PTL

\* No map keeps an entry without members, and no refused socket is kept.
THEOREM NothingIsLeaked == Spec => []NothingLeaks
<1>1. Inv => NothingLeaks
  BY DEF Inv
<1> QED
  BY <1>1, Invariant, PTL

\* Every connected socket stays in the room of its user and in broadcast:all.
THEOREM DefaultRoomsStay == Spec => []DefaultRoomsKept
<1>1. Inv => DefaultRoomsKept
  BY DEF Inv
<1> QED
  BY <1>1, Invariant, PTL

\* forceLogoutUser leaves the user no socket in the process it was called in: the
\* sockets userSockets names are all the sockets the user has there.
THEOREM ForcedLogoutClears == Spec => ForceLogoutClears
<1>1. ASSUME Inv, NEW p \in Processes, NEW u \in Users, forceLogoutUser(p, u),
             NEW s \in Sockets
      PROVE  ~(at'[s] = p /\ dataUser'[s] = u)
  <2> DEFINE K == {q \in getRoomMembers(userSockets[p], u) : at[q] = p}
  <2>1. K = {q \in Sockets : at[q] = p /\ dataUser[q] = u}
    BY <1>1 DEF Inv, TrackingAgrees
  <2>2. /\ at' = [q \in Sockets |-> IF q \in K THEN Nowhere ELSE at[q]]
        /\ dataUser' = [q \in Sockets |-> IF q \in K THEN NoUser ELSE dataUser[q]]
    BY <1>1 DEF forceLogoutUser, handleDisconnect
  <2> HIDE DEF K
  <2> QED
    BY <1>1, <2>1, <2>2, NullsAssumption
<1>2. Inv => (\A p \in Processes, u \in Users :
                forceLogoutUser(p, u) => \A s \in Sockets : ~(at'[s] = p /\ dataUser'[s] = u))
  BY <1>1
<1> QED
  BY <1>2, Invariant, PTL DEF ForceLogoutClears

\* An emission to room r that moves no socket but its sender into r is heard by the
\* members RoomManager has before it or after it.
LEMMA HeardByTheRoster ==
  ASSUME Inv, Inv', NEW e, NEW p \in Processes, NEW r \in Rooms \cup BadRooms, NEW from,
         Emit(e, p, r, from),
         \A s \in Sockets : at'[s] = p => at[s] = p,
         \A s \in Sockets \ {from} : <<r, s>> \in joined' => <<r, s>> \in joined
  PROVE  \A s \in Sockets : s \in emitted'.heard <=>
           /\ s # emitted'.from
           /\ \/ s \in getRoomMembers(roomMembers[emitted'.process], emitted'.room)
              \/ s \in getRoomMembers(roomMembers'[emitted'.process], emitted'.room)
<1>1. /\ emitted'.process = p /\ emitted'.room = r /\ emitted'.from = from
      /\ emitted'.heard = {s \in Sockets : <<r, s>> \in joined /\ at[s] = p} \ {from}
  BY DEF Emit, InRoom
<1>2. CASE r \in Rooms
  <2>1. getRoomMembers(roomMembers[p], r) = {s \in Sockets : <<r, s>> \in joined /\ at[s] = p}
    BY <1>2 DEF Inv, TrackingAgrees, InRoom
  <2>2. getRoomMembers(roomMembers'[p], r) = {s \in Sockets : <<r, s>> \in joined' /\ at'[s] = p}
    BY <1>2 DEF Inv, TrackingAgrees, InRoom
  <2> QED
    BY <1>1, <2>1, <2>2
<1>3. CASE r \notin Rooms
  <2>1. \A s : <<r, s>> \notin joined
    BY <1>3 DEF Inv, TypeOK
  <2>2. r \notin DOMAIN roomMembers[p] /\ r \notin DOMAIN roomMembers'[p]
    BY <1>3 DEF Inv, TypeOK
  <2>3. getRoomMembers(roomMembers[p], r) = {} /\ getRoomMembers(roomMembers'[p], r) = {}
    BY <2>2 DEF getRoomMembers
  <2> QED
    BY <1>1, <2>1, <2>3
<1> QED
  BY <1>2, <1>3

\* The audience of an emission, which Socket.IO keeps, is the one RoomManager, which
\* chat:send asks, would give: apart from the sender, whoever is in the room.
THEOREM EmissionsMatchTheRoster == Spec => EmissionMatchesRoster
<1> USE NullsAssumption
<1> DEFINE Heard == \A s \in Sockets : s \in emitted'.heard <=>
             /\ s # emitted'.from
             /\ \/ s \in getRoomMembers(roomMembers[emitted'.process], emitted'.room)
                \/ s \in getRoomMembers(roomMembers'[emitted'.process], emitted'.room)
<1>1. ASSUME Inv, Inv', Next, emitted' # emitted PROVE Heard
  <2> HIDE DEF Heard
  <2>1. ASSUME NEW s \in Sockets, NEW r \in Rooms \cup BadRooms,
               handleRoomJoin(s, r) \/ handleRoomLeave(s, r) \/ handleChatSend(s, r)
        PROVE  Heard
    <3>1. /\ at[s] \in Processes /\ at' = at
          /\ \A q \in Sockets \ {s} : <<r, q>> \in joined' => <<r, q>> \in joined
      BY <1>1, <2>1 DEF Inv, TypeOK, handleRoomJoin, handleRoomLeave, handleChatSend
    <3>2. \E e \in Events : Emit(e, at[s], r, s)
      BY <2>1 DEF Events, handleRoomJoin, handleRoomLeave, handleChatSend
    <3> QED
      BY <1>1, <3>1, <3>2, HeardByTheRoster DEF Heard
  <2>2. ASSUME NEW p \in Processes, NEW r \in Rooms, Notify(p, r) PROVE Heard
    <3>1. Emit("notification", p, r, Nowhere) /\ at' = at /\ joined' = joined
      BY <2>2 DEF Notify
    <3> QED
      BY <1>1, <3>1, HeardByTheRoster DEF Heard
  <2>3. ASSUME NEW p \in Processes, NEW u \in Users, forceLogoutUser(p, u) PROVE Heard
    <3>1. /\ Emit("force_logout", p, u, Nowhere) /\ joined' \subseteq joined
          /\ \A s \in Sockets : at'[s] = p => at[s] = p
          /\ u \in Rooms
      BY <2>3 DEF forceLogoutUser, handleDisconnect, Rooms
    <3> QED
      BY <1>1, <3>1, HeardByTheRoster DEF Heard
  <2>4. (\E s \in Sockets, p \in Processes, u \in Users : Connect(s, p, u))
          => emitted' = emitted
    BY DEF Connect
  <2>5. (\E s \in Sockets : ConnectRefused(s) \/ Disconnect(s)) => emitted' = emitted
    BY DEF ConnectRefused, Disconnect
  <2>6. (\E p \in Processes : Restart(p)) => emitted' = emitted
    BY DEF Restart
  <2> QED
    BY <1>1, <2>1, <2>2, <2>3, <2>4, <2>5, <2>6, NextIsAHandler
<1>2. Inv /\ Inv' /\ [Next]_vars => (emitted' # emitted => Heard)
  BY <1>1 DEF vars
<1> QED
  BY <1>2, Invariant, PTL DEF Spec, EmissionMatchesRoster
=============================================================================
