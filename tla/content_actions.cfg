SPECIFICATION Spec
CONSTANTS
  ann = ann
  bob = bob
  r1 = r1
  r2 = r2
  j1 = j1
  j2 = j2
  User = {ann, bob}
  Request = {r1, r2}
  Task = {j1, j2}
  CacheLife = 1
  MaxTime = 3
  MaxWrites = 2
SYMMETRY Symmetry
CHECK_DEADLOCK FALSE
INVARIANTS
  TypeOK
  AnswersAgeOut
  WritesAreShown
