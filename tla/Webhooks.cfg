\* Two webhooks, two users and two commands, an application event or a test.
SPECIFICATION PurposeSpec
CONSTANTS
  a = a
  b = b
  url1 = url1
  url2 = url2
  Ids = {w1, w2}
  Users = {u1, u2}
  Contents <- TwoContents
  Commands = {c1, c2}
  Null = Null
  Names = {a, b}
  Urls = {url1, url2}
  Publications = {p1}
  NameOf <- OnlyA
  Tests = {t1}
SYMMETRY Symmetry
CHECK_DEADLOCK FALSE
INVARIANTS
  ExactUnlessOverlapped
  WebhooksAreSentTheirEvents
PROPERTIES
  OnlyTheAssigneeChanges
