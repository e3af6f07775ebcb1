SPECIFICATION FairSpec
CONSTANTS
  r1 = r1  r2 = r2  r3 = r3  k1 = k1  k2 = k2  p1 = p1  p2 = p2
  Requests = {r1, r2, r3}
  Keys = {k1, k2}
  Products = {p1, p2}
  KeyOf <- RetryKeyOf
  Lines <- RetryLines
  MaxLine = 2
  InitStock <- ShortStock
  Faults = {}
  MaxMishaps = 0
  SnapshotIsolation = TRUE
  NoRequest = NoRequest
  NoKey = NoKey
CHECK_DEADLOCK FALSE
INVARIANTS NoOverselling FailedReturnsStock FailedNotCharged TopicInOrder
PROPERTIES OutcomeAnnounced
