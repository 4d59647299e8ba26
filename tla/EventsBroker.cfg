\* Four handlers registered and cleared, or two runs that retry two of them.
SPECIFICATION ShapeSpec
CONSTANTS
  n1 = n1
  n2 = n2
  u = u
  h1 = h1
  h2 = h2
  h3 = h3
  r1 = r1
  r2 = r2
  Events = {e1}
  Names = {n1, n2}
  NameOf <- AllNamedN1
  Handlers = {u, h1, h2, h3}
  Universal = {u}
  Subject <- SubjectOfHandlers
  Retries <- UpToTwoRetries
  Runs = {r1, r2}
  MaxClears = 1
  None = None
CHECK_DEADLOCK FALSE
INVARIANTS
  EverySubscriberIsCalledOnce
  CallsAreBounded
PROPERTIES
  EventuallyNothingToRetry
