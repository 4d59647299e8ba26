\* One call after the other: a refused one, and one that comes when the accepted are too old.
SPECIFICATION WindowSpec
CONSTANTS
  Slots = {p1}
  Scores = {1}
  Length <- TwoOrThree
  Limit <- OneOrTwo
  Second = 1
  MaxTime = 6
  MaxCalls = 3
  MaxErrors = 0
  FixedLength <- OneOrThree
  FixedMaxTime = 2
  MaxLapses = 1
CHECK_DEADLOCK FALSE
PROPERTY AcceptsWithinLimit
