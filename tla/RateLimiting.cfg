\* Leaky bucket, token bucket, quota limits and cache, one of them at a time.
SPECIFICATION PartSpec
CONSTANTS
  Keys = {k1, k2}
  Colon = {k2}
  capacity = 3
  leaksPerSecond = 2
  MaxRequests = 6
  TokenSlots = {p1, p2, p3}
  TokenScores = {1, 2}
  tokenCapacity = 4
  fillRate = 3
  MaxFailures = 1
  Users = {u1}
  Limits = {0, 1, 2}
  Managers = {m1, m2}
  Calls = {c1, c2}
  Day = 1
  MaxUpdates = 2
  None = None
  CacheKeys = {1, 2}
  Values = {v1, zero}
  Falsy = {zero}
  Lifetimes = {2}
  Forever = Forever
  Callers = {s1, s2, s3}
  LastMillisecond = 4
CHECK_DEADLOCK FALSE
INVARIANTS
  WaitIsBounded
  TokensAreAccounted
  LimitsAreFresh
PROPERTIES
  ImplementsThrottle
  PromisesAreKept
  SetNxIsExclusive
