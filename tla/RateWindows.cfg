SPECIFICATION Spec
CONSTANTS
  c1 = c1
  c2 = c2
  c3 = c3
  c4 = c4
  NULL = NULL
  Calls = {c1, c2, c3, c4}
  RpmLimit = 2
  Minute = 2
  MaxStall = 2
  MaxTime = 5
SYMMETRY Symmetry
CHECK_DEADLOCK FALSE
INVARIANTS
  TypeOK
  WindowLimit
  RefusedAtLimit
