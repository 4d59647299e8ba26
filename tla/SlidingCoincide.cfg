\* Three calls, two of them at one time and of one score.
SPECIFICATION WindowSpec
CONSTANTS
  Slots = {p1, p2}
  Scores = {1}
  Length <- TwoOrThree
  Limit <- OneOrTwo
  Second = 1
  MaxTime = 6
  MaxCalls = 3
  MaxErrors = 0
  FixedLength <- OneOrThree
  FixedMaxTime = 2
  MaxLapses = 0
CHECK_DEADLOCK FALSE
INVARIANT RequestsStayWithinLimit
