SPECIFICATION Spec
CONSTANTS
  t1 = t1
  t2 = t2
  NULL = NULL
  Tasks = {t1, t2}
  Threshold = 2
  Cooldown = 1
  MaxFailures = 3
  MaxTime = 4
INVARIANTS
  TypeOK
  OpenJustified
  OpensAtThreshold
PROPERTIES
  OpenHolds
