SPECIFICATION Spec
CONSTANTS
  Requests = {r1, r2}
  Jobs = {j1, j2}
  UserIds = {u1, u2, u3}
  Persons = {p1, p2}
  Emails = {e1, e2}
  NoUser = NoUser
  NoPerson = NoPerson
  NoEmail = NoEmail
SYMMETRY Symmetry
INVARIANTS
  TypeOK
  OneAccountEach
  LookupsCoverKeys

  
