---------------------------- MODULE SocketGateway ----------------------------
(***************************************************************************)
(* SocketGateway (src/core/socket/socket.gateway.ts) with its              *)
(* SocketAuthAdapter and RoomManager, in the Node processes PM2 starts     *)
(* (ecosystem.config.js).  Each process has its own server, maps and       *)
(* RoomManager; main.ts installs no Redis adapter, so the rooms of         *)
(* Socket.IO are per process as well.                                      *)
(*                                                                         *)
(* The awaits of handleConnection, handleRoomJoin and handleRoomLeave      *)
(* (jwtService.verifyAsync, and join and leave of the in-memory adapter)   *)
(* settle in microtasks without I/O, so no packet and no disconnect is     *)
(* handled between them: each handler is one action.                       *)
(***************************************************************************)
EXTENDS FiniteSets

CONSTANTS
  Processes, Sockets, Users,
  Groups,          \* valid room ids other than user:{id} and broadcast:all
  BadRooms,        \* room ids that do not match ROOM_ID_PATTERN
  Broadcast,       \* the room broadcast:all
  TokenFields,     \* where the tokens in use hold the user: AuthService signs
                   \* "userId", SocketAuthAdapter reads "sub"
  Nowhere, NoUser

ASSUME NullsAssumption == Nowhere \notin Processes \cup Sockets /\ NoUser \notin Users
ASSUME RoomsAssumption ==
  /\ Broadcast \notin Users \cup Groups \cup BadRooms
  /\ Users \cap Groups = {} /\ BadRooms \cap (Users \cup Groups) = {}
ASSUME TokenFieldsAssumption == TokenFields \subseteq {"sub", "userId"}

INSTANCE RoomManager

VARIABLES
  at,           \* the process each socket is connected to, or Nowhere
  dataUser,     \* socket.data.userId
  joined,       \* Socket.IO's own rooms: pairs <<room, socket>>
  clients,      \* connectedClients: the user a socket is tracked for, or NoUser
  userSockets,  \* userSockets of each process: user -> set of sockets
  roomMembers,  \* roomMembers of each process: room -> set of sockets
  refused,      \* sockets whose last connection, with a valid token, was refused
  emitted       \* the last emission: event, room, sender, process and receivers

vars == <<at, dataUser, joined, clients, userSockets, roomMembers, refused, emitted>>

\* user:{u} is written u.
Rooms == Users \cup Groups \cup {Broadcast}
Events == {"room:user_joined", "room:user_left", "chat:message", "notification",
           "force_logout"}
Emissions == [event : Events, room : Rooms \cup BadRooms, from : Sockets \cup {Nowhere},
              process : Processes, heard : SUBSET Sockets]
Quiet == [event |-> "none"]
Empty == [x \in {} |-> {}]

TypeOK ==
  /\ at \in [Sockets -> Processes \cup {Nowhere}]
  /\ dataUser \in [Sockets -> Users \cup {NoUser}]
  /\ joined \subseteq Rooms \X Sockets
  /\ clients \in [Sockets -> Users \cup {NoUser}]
  /\ \A p \in Processes :
       /\ DOMAIN userSockets[p] \subseteq Users
       /\ DOMAIN roomMembers[p] \subseteq Rooms
       /\ \A u \in DOMAIN userSockets[p] : userSockets[p][u] \subseteq Sockets
       /\ \A r \in DOMAIN roomMembers[p] : roomMembers[p][r] \subseteq Sockets
  /\ refused \subseteq Sockets
  /\ emitted \in Emissions \cup {Quiet}

Init ==
  /\ at = [s \in Sockets |-> Nowhere]
  /\ dataUser = [s \in Sockets |-> NoUser]
  /\ joined = {}
  /\ clients = [s \in Sockets |-> NoUser]
  /\ userSockets = [p \in Processes |-> Empty]
  /\ roomMembers = [p \in Processes |-> Empty]
  /\ refused = {}
  /\ emitted = Quiet

-----------------------------------------------------------------------------
\* The sockets of process p that are in Socket.IO room r.
InRoom(p, r) == {s \in Sockets : <<r, s>> \in joined /\ at[s] = p}

\* server.to(r).emit, or socket.to(r).emit when it comes from a socket.
Emit(e, p, r, from) ==
  emitted' = [event |-> e, room |-> r, from |-> from, process |-> p,
              heard |-> InRoom(p, r) \ {from}]

\* handleDisconnect, for each of the sockets K of process p.
handleDisconnect(p, K) ==
  /\ at' = [s \in Sockets |-> IF s \in K THEN Nowhere ELSE at[s]]
  /\ dataUser' = [s \in Sockets |-> IF s \in K THEN NoUser ELSE dataUser[s]]
  /\ joined' = {j \in joined : j[2] \notin K}
  /\ clients' = [s \in Sockets |-> IF s \in K THEN NoUser ELSE clients[s]]
  /\ userSockets' = [userSockets EXCEPT ![p] =
       Drop(@, [u \in DOMAIN @ |-> {s \in K : clients[s] = u}])]
  /\ roomMembers' = [roomMembers EXCEPT ![p] = removeFromAllRooms(@, K)]

\* Mutant: a second device of the user takes the place of the first.
ConnectLastDevice(s, p, u) ==
  /\ at[s] = Nowhere
  /\ "sub" \in TokenFields
  /\ at' = [at EXCEPT ![s] = p]
  /\ dataUser' = [dataUser EXCEPT ![s] = u]
  /\ joined' = joined \cup {<<u, s>>, <<Broadcast, s>>}
  /\ roomMembers' = [roomMembers EXCEPT ![p] = addToRoom(addToRoom(@, u, s), Broadcast, s)]
  /\ clients' = [clients EXCEPT ![s] = u]
  /\ userSockets' = [userSockets EXCEPT ![p] = With(@, u, {s})]
  /\ refused' = refused \ {s}
  /\ UNCHANGED emitted

\* handleConnection of a socket with a valid JWT of user u.
Connect(s, p, u) ==
  /\ at[s] = Nowhere
  /\ "sub" \in TokenFields
  /\ at' = [at EXCEPT ![s] = p]
  /\ dataUser' = [dataUser EXCEPT ![s] = u]
  /\ joined' = joined \cup {<<u, s>>, <<Broadcast, s>>}
  /\ roomMembers' = [roomMembers EXCEPT ![p] = addToRoom(addToRoom(@, u, s), Broadcast, s)]
  /\ clients' = [clients EXCEPT ![s] = u]
  /\ userSockets' = [userSockets EXCEPT ![p] = addToRoom(@, u, s)]
  /\ refused' = refused \ {s}
  /\ UNCHANGED emitted

\* authenticate finds no payload.sub: the socket is disconnected, and
\* handleDisconnect finds nothing to remove.
ConnectRefused(s) ==
  /\ at[s] = Nowhere
  /\ "userId" \in TokenFields
  /\ refused' = refused \cup {s}
  /\ UNCHANGED <<at, dataUser, joined, clients, userSockets, roomMembers, emitted>>

\* The client or the transport closes.
Disconnect(s) ==
  /\ at[s] # Nowhere
  /\ handleDisconnect(at[s], {s})
  /\ UNCHANGED <<refused, emitted>>

\* Mutant: the format of the room id is not checked.
joinAnyRoom(s, r) ==
  /\ at[s] # Nowhere
  /\ joined' = joined \cup {<<r, s>>}
  /\ roomMembers' = [roomMembers EXCEPT ![at[s]] = addToRoom(@, r, s)]
  /\ Emit("room:user_joined", at[s], r, s)
  /\ UNCHANGED <<at, dataUser, clients, userSockets, refused>>

\* room:join
handleRoomJoin(s, r) ==
  /\ at[s] # Nowhere
  /\ r \notin BadRooms
  /\ joined' = joined \cup {<<r, s>>}
  /\ roomMembers' = [roomMembers EXCEPT ![at[s]] = addToRoom(@, r, s)]
  /\ Emit("room:user_joined", at[s], r, s)
  /\ UNCHANGED <<at, dataUser, clients, userSockets, refused>>

\* Mutant: the default rooms can be left.
leaveAnyRoom(s, r) ==
  /\ at[s] # Nowhere
  /\ joined' = joined \ {<<r, s>>}
  /\ roomMembers' = [roomMembers EXCEPT ![at[s]] = removeFromRoom(@, r, s)]
  /\ Emit("room:user_left", at[s], r, s)
  /\ UNCHANGED <<at, dataUser, clients, userSockets, refused>>

\* Mutant: RoomManager is not told.
leaveSocketRoomOnly(s, r) ==
  /\ at[s] # Nowhere
  /\ r \notin {dataUser[s], Broadcast}
  /\ joined' = joined \ {<<r, s>>}
  /\ Emit("room:user_left", at[s], r, s)
  /\ UNCHANGED <<at, dataUser, clients, userSockets, roomMembers, refused>>

\* room:leave, of a room that is not a default room of the user.  The format of
\* the id is not checked, nor that the socket is in the room.
handleRoomLeave(s, r) ==
  /\ at[s] # Nowhere
  /\ r \notin {dataUser[s], Broadcast}
  /\ joined' = joined \ {<<r, s>>}
  /\ roomMembers' = [roomMembers EXCEPT ![at[s]] = removeFromRoom(@, r, s)]
  /\ Emit("room:user_left", at[s], r, s)
  /\ UNCHANGED <<at, dataUser, clients, userSockets, refused>>

\* chat:send: membership is RoomManager's, the audience is Socket.IO's.
handleChatSend(s, r) ==
  /\ at[s] # Nowhere
  /\ isInRoom(roomMembers[at[s]], r, s)
  /\ Emit("chat:message", at[s], r, s)
  /\ UNCHANGED <<at, dataUser, joined, clients, userSockets, roomMembers, refused>>

\* sendNotificationToUser and broadcastNotification, called in process p.
Notify(p, r) ==
  /\ r \in Users \cup {Broadcast}
  /\ Emit("notification", p, r, Nowhere)
  /\ UNCHANGED <<at, dataUser, joined, clients, userSockets, roomMembers, refused>>

\* forceLogoutUser, called in process p: every socket tracked for the user that
\* the server of p still has is disconnected, which runs handleDisconnect.
forceLogoutUser(p, u) ==
  /\ Emit("force_logout", p, u, Nowhere)
  /\ handleDisconnect(p, {s \in getRoomMembers(userSockets[p], u) : at[s] = p})
  /\ UNCHANGED refused

\* Process p dies and PM2 starts it again: its sockets and its maps are gone.
Restart(p) ==
  LET K == {s \in Sockets : at[s] = p} IN
  /\ K # {}
  /\ at' = [s \in Sockets |-> IF s \in K THEN Nowhere ELSE at[s]]
  /\ dataUser' = [s \in Sockets |-> IF s \in K THEN NoUser ELSE dataUser[s]]
  /\ clients' = [s \in Sockets |-> IF s \in K THEN NoUser ELSE clients[s]]
  /\ joined' = {j \in joined : j[2] \notin K}
  /\ userSockets' = [userSockets EXCEPT ![p] = Empty]
  /\ roomMembers' = [roomMembers EXCEPT ![p] = Empty]
  /\ UNCHANGED <<refused, emitted>>

Client(s) ==
  \/ \E p \in Processes, u \in Users : Connect(s, p, u)
  \/ ConnectRefused(s) \/ Disconnect(s)
  \/ \E r \in Rooms \cup BadRooms :
       handleRoomJoin(s, r) \/ handleRoomLeave(s, r) \/ handleChatSend(s, r)

Server(p) ==
  \/ \E r \in Rooms : Notify(p, r)
  \/ \E u \in Users : forceLogoutUser(p, u)
  \/ Restart(p)

Next == (\E s \in Sockets : Client(s)) \/ (\E p \in Processes : Server(p))

Spec == Init /\ [][Next]_vars

-----------------------------------------------------------------------------
\* The four structures of the gateway never disagree: in every process,
\* connectedClients, userSockets, RoomManager and Socket.IO's rooms describe the
\* same connected sockets, across connects, joins, leaves, disconnects, forced
\* logouts and restarts.
TrackingAgrees ==
  /\ \A s \in Sockets : clients[s] = dataUser[s] /\ (at[s] = Nowhere <=> clients[s] = NoUser)
  /\ \A p \in Processes :
       /\ \A u \in Users :
            getRoomMembers(userSockets[p], u) = {s \in Sockets : at[s] = p /\ clients[s] = u}
       /\ \A r \in Rooms : getRoomMembers(roomMembers[p], r) = InRoom(p, r)

\* The maps do not grow with the rooms and users that have come and gone: an
\* entry exists only while it has members, and a refused socket has none.
NothingLeaks ==
  /\ \A p \in Processes : NoEmptyRoom(userSockets[p]) /\ NoEmptyRoom(roomMembers[p])
  /\ \A s \in refused : clients[s] = NoUser /\ \A j \in joined : j[2] # s

\* Every connected socket stays in user:{userId} and broadcast:all: a
\* notification to the user, or to all, reaches each socket of the process.
DefaultRoomsKept ==
  \A s \in Sockets : at[s] # Nowhere =>
    <<dataUser[s], s>> \in joined /\ <<Broadcast, s>> \in joined

\* What is emitted to a room is received by the members RoomManager knows (in
\* the process), except the sender: membership is checked against one structure
\* and delivery goes by the other.
EmissionMatchesRoster ==
  [][emitted' # emitted =>
       \A s \in Sockets : s \in emitted'.heard <=>
         /\ s # emitted'.from
         /\ \/ s \in getRoomMembers(roomMembers[emitted'.process], emitted'.room)
            \/ s \in getRoomMembers(roomMembers'[emitted'.process], emitted'.room)]_vars

\* A forced logout leaves the user no socket in the process it was called in.
ForceLogoutClears ==
  [][\A p \in Processes, u \in Users :
       forceLogoutUser(p, u) => \A s \in Sockets : ~(at'[s] = p /\ dataUser'[s] = u)]_vars
=============================================================================
