\* Jobs of any rhythm, two overlapping runs; retries; durations.
SPECIFICATION KindSpec
CONSTANTS
  Registrations = {1, 2}
  Rhythms <- AllRhythms
  Runs = {r1, r2}
  maxRetries = 2
  HoursPerDay = 3
  DaysPerWeek = 3
  LastHour = 18
  HalfWeek = 4
  Null = Null
  Callers = {c1, c2}
  RetryOptions = {1, 2, 4}
  Delay = 2
  MaxTried = 5
  MaxVal = 2
CHECK_DEADLOCK FALSE
INVARIANTS
  RunsAreOnTime
  AttemptsAreAsAsked
  MinutesAndSecondsAgree
PROPERTIES
  JobsRunUntilCleared
  EveryCallerIsAnswered
