SPECIFICATION Spec
CONSTANTS
  r1 = r1
  r2 = r2
  r3 = r3
  w1 = w1
  w2 = w2
  k1 = k1
  k2 = k2
  p1 = p1
  m1 = m1
  m2 = m2
  v1 = v1
  v2 = v2
  NULL = NULL
  Requests = {r1, r2, r3}
  Workers = {w1}
  ApiKeys = {k1, k2}
  Projects = {p1}
  Models = {m1, m2}
  Results = {v1}
  KeyProject <- MCKeyProject
  RequestKey <- MCRequestKey
  RequestModel <- MCRequestModel
  Ceiling <- MCCeiling
  Serves <- MCServes
  Reports = {1, 3}
  Overshoot = 1
  MaxRetries = 0
  QueueTtl = 1
  WorkerLease = 1
  DailyLimit = 3
  MonthlyLimit = 4
  MaxTime = 5
  AcceptUntil = 3
  MaxStall = 1
  DayOf <- MCThreeDays
  MonthOf <- MCTwoDayMonth
INVARIANTS
  BudgetExact
PROPERTIES
  PeriodsAdvance
  PeriodBooks
