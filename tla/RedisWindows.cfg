\* Two calls at once of the fixed or of the sliding window, and time.  One failure
\* of redis is enough for a score that is never taken off.
SPECIFICATION WindowSpec
CONSTANTS
  Slots = {p1, p2}
  Scores = {1}
  Length <- TwoOrThree
  Limit <- OneOrTwo
  Second = 1
  MaxTime = 5
  MaxCalls = 3
  MaxErrors = 1
  FixedLength <- OneOrThree
  FixedMaxTime = 2
  MaxLapses = 1
SYMMETRY Symmetry
CHECK_DEADLOCK FALSE
INVARIANTS
  SetsAreAccounted
  CountersAreAccounted
PROPERTIES
  OnlyNewMembersAreLost
  QuotaIsNotOverstated
