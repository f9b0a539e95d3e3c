SPECIFICATION Spec
CONSTANTS
  Requests = {r1}
  Jobs = {j1}
  UserIds = {u1, u2}
  Persons = {p1}
  Emails = {e1}
  NoUser = NoUser
  NoPerson = NoPerson
  NoEmail = NoEmail
PROPERTY
  RetentionEnforced
