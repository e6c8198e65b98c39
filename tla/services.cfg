SPECIFICATION Spec
CONSTANTS
  Session = {s1, s2}
  NULL = NULL
  u1 = u1  u2 = u2  e1 = e1  e2 = e2  e3 = e3  c1 = c1  c2 = c2
  User = {u1, u2}
  Email = {e1, e2, e3}
  Code = {c1, c2}
  Written = {e1}
  Moves <- SomeMoves
  MaxAttempts = 1
  AccountRows <- SomeAccounts
  Owner = {o1}
  Address = {a1, a2, a3}
  Author = {w1}
  Page = {p1}
  Strikes = 3
  HardLock = 5
  Content <- Table
  MaxLimit = 2
  DayLength = 2
  MonthLength <- Months
  Queries <- SomeQueries
  PoolSize = 2
  MaxRetries = 3
INVARIANTS
  CodesAuthorize
  CodesDelivered
  ResendsBounded
  DefaultKept
  FailuresCounted
  PageTrail
  ListsFaithful
  
PROPERTY RequestsEnd
CHECK_DEADLOCK FALSE
