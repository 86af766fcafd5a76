SPECIFICATION FairSpec
CONSTANTS
  r1 = r1
  r2 = r2
  r3 = r3
  w1 = w1
  w2 = w2
  k1 = k1
  k2 = k2
  p1 = p1
  m1 = m1
  m2 = m2
  v1 = v1
  v2 = v2
  NULL = NULL
  Requests = {r1, r2}
  Workers = {w1, w2}
  ApiKeys = {k1, k2}
  Projects = {p1}
  Models = {m1, m2}
  Results = {v1, v2}
  KeyProject <- MCKeyProject
  RequestKey <- MCRequestKey
  RequestModel <- MCRequestModel
  Ceiling <- MCCeiling
  Serves <- MCServes
  Reports = {1}
  Overshoot = 0
  MaxRetries = 2
  QueueTtl = 3
  WorkerLease = 1
  DailyLimit = 9
  MonthlyLimit = 9
  MaxTime = 7
  AcceptUntil = 2
  MaxStall = 1
  DayOf <- MCOneDay
  MonthOf <- MCTwoDayMonth
INVARIANTS
  TypeOK
  AssignmentShape
  DeliveriesCounted
  UsageExact
  BudgetExact
  LifetimeBounded
  ClaimsSound
PROPERTIES
  ImplementsContract
  EventuallySettled
