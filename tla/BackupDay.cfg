\* The backup job, registered at any time.
SPECIFICATION KindSpec
CONSTANTS
  Registrations = {1}
  Rhythms <- BackupRhythm
  Runs = {r1}
  maxRetries = 2
  HoursPerDay = 3
  DaysPerWeek = 3
  LastHour = 20
  HalfWeek = 4
  Null = Null
  Callers = {c1}
  RetryOptions = {1}
  Delay = 2
  MaxTried = 5
  MaxVal = 1
CHECK_DEADLOCK FALSE
INVARIANT RunsOnItsDay
