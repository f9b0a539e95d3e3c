SPECIFICATION BrowserSpec
CONSTANTS
  Requests = {r1, r2}
  Databases = {d1, d2}
  Pages = {p1}
  None = None
  Skip = Skip
INVARIANTS
  TypeOK
  PagesTypeOK
  
  OneSetupPerPage
PROPERTIES
  SubmitSettles
