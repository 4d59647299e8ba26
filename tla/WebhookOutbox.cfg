\* One event in two runs of the job, or two events in batches.
SPECIFICATION ShapeSpec
CONSTANTS
  s1 = s1
  s2 = s2
  r1 = r1
  r2 = r2
  Senders = {s1, s2}
  Runs = {r1, r2}
  MaxOutbox = 2
  Delays <- ThreeDelays
  MAX_RETRIES = 4
  MaxAge = 3
  Null = Null
INVARIANTS
  StatusIsJustified
  ExactUnlessOverlapped
PROPERTIES
  BackoffIsRespected
  EventuallySettled
