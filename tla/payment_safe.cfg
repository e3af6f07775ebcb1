SPECIFICATION FairSpec
CONSTANTS
  c1 = c1  c2 = c2  c3 = c3  c4 = c4  c5 = c5  k1 = k1  k2 = k2
  Calls = {c1, c2, c3, c4, c5}
  Keys = {k1, k2}
  KeyOf <- AllKeyOf
  Reads = {c4}
  Attempts = 2
  UnsafeMode = FALSE
  Faults = {"crash", "redis"}
CHECK_DEADLOCK FALSE
INVARIANTS ProcessedOnce AnswersAgree
PROPERTIES ChargeOnceSpec EveryCallEnds
