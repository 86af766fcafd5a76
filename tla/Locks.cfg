SPECIFICATION FairSpec
CONSTANTS
  r1 = r1
  k1 = k1
  p1 = p1
  NULL = NULL
  Requests = {r1, r2}
  ApiKeys = {k1}
  Projects = {p1}
  Workers = {w1, w2}
  Conns = {c1, c2}
  RequestKey <- MCRequestKey
  KeyProject <- MCKeyProject
  Ceiling <- MCCeiling
  Actual <- MCActual
  Limit = 2
INVARIANTS
  TypeOK
  DecisionsCurrent
  DeadlockShape
PROPERTIES
  NoOversubscription
  ImplementsLedger
  TransactionsEnd
