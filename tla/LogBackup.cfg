SPECIFICATION Spec
CONSTANTS
  Jobs = {j1, j2, j3}
  Files = {1, 2, 3, 4}
  DirOf <- MCDirOf
  Dirs = 2
  Month = 1
  Never = Never
SYMMETRY Symmetry
INVARIANTS
  TypeOK
  NightComplete
