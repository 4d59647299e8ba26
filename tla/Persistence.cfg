\* Overlapping transactional calls; overlapping set-ups; queries; pages.
SPECIFICATION KindSpec
CONSTANTS
  Calls = {1, 2, 3}
  i1 = i1
  i2 = i2
  Ids = {i1, i2}
  Null = Null
  MaxFailures = 1
  Setups = {1, 2, 3}
  MaxOutages = 2
  Fields = {"f", "g"}
  MaxNumber = 2
  MaxCalls = 3
  DefaultSize = 3
  MaxSize = 4
  MaxAsked = 5
  MaxTotal = 9
CHECK_DEADLOCK FALSE
INVARIANTS
  SoundUnlessShared
  SourcesAreKnown
  QueriesFindWhatIsWanted
  EveryItemOnce
PROPERTIES
  CallsAndReadersEnd
