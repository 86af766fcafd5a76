SPECIFICATION FairSpec
CONSTANTS
  w1 = w1
  w2 = w2
  e1 = e1
  a1 = a1
  a2 = a2
  n1 = n1
  n2 = n2
  NULL = NULL
  Workers = {w1, w2}
  Enrolments = {e1}
  Conns = {n1, n2}
  Capabilities = {a1, a2}
  Reports <- MCReports
  EnrolmentTtl = 1
  TokenTtl = 2
  HeartbeatTimeout = 1
  MaxTime = 2
  MaxJti = 3
INVARIANTS
  TypeOK
  EnrolledOnce
  TokenCurrent
  ReportStands
PROPERTIES
  RevocationFinal
  SilentGoesOffline
