SPECIFICATION FairSpec
CONSTANTS
  c1 = c1
  c2 = c2
  c3 = c3
  k1 = k1
  k2 = k2
  i1 = i1
  p1 = p1
  a1 = a1
  v1 = v1
  v2 = v2
  NULL = NULL
  Calls = {c1, c2, c3}
  ApiKeys = {k1, k2}
  Results = {v1, v2}
  Projects = {p1}
  Aliases = {a1}
  KeyProject <- MCKeyProject
  CallAlias <- MCCallAlias
  CallKey <- MCCallKey
  CallIdem <- MCCallIdem
  DailyReqLimit = 1
  MaxDeliveries = 1
  MaxDay = 1
CHECK_DEADLOCK FALSE
INVARIANTS
  TypeOK
  DailyExact
  NoConflict
  RepliesFaithful
PROPERTIES
  RevocationFinal
  CallsEnd
