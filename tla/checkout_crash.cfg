SPECIFICATION FairSpec
CONSTANTS
  r1 = r1  r2 = r2  r3 = r3  k1 = k1  k2 = k2  p1 = p1  p2 = p2
  Requests = {r1, r3}
  Keys = {k1, k2}
  Products = {p1, p2}
  KeyOf <- PairKeyOf
  Lines <- PairLines
  MaxLine = 2
  InitStock <- ShortStock
  Faults = {"crash", "abort"}
  MaxMishaps = 2
  SnapshotIsolation = TRUE
  NoRequest = NoRequest
  NoKey = NoKey
CHECK_DEADLOCK FALSE
INVARIANTS EventsTruthful FlaggedReturnsStock
PROPERTIES LifecycleSpec EveryOrderDecided
