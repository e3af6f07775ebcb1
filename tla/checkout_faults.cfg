SPECIFICATION Spec
CONSTANTS
  r1 = r1  r2 = r2  r3 = r3  k1 = k1  k2 = k2  p1 = p1  p2 = p2
  Requests = {r1, r2}
  Keys = {k1}
  Products = {p1}
  KeyOf <- OneKeyOf
  Lines <- OneLines
  MaxLine = 2
  InitStock <- OneStock
  Faults = {"timeout", "crash", "abort", "outage"}
  MaxMishaps = 2
  SnapshotIsolation = TRUE
  NoRequest = NoRequest
  NoKey = NoKey
CHECK_DEADLOCK FALSE
INVARIANTS IInv PaidMeansCharged PaidHoldsStock ClearedAfterDecision OverCreditNeedsMishap
