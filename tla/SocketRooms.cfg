SPECIFICATION Spec
CONSTANTS
  Processes = {p1, p2}
  Sockets = {s1, s2, s3}
  Users = {u1, u2}
  Groups = {g1}
  BadRooms = {bad}
  Broadcast = Broadcast
  TokenFields = {"sub", "userId"}
  Nowhere = Nowhere
  NoUser = NoUser
SYMMETRY Symmetry
INVARIANTS
  TypeOK
  TrackingAgrees
  NothingLeaks
  DefaultRoomsKept

  
  
