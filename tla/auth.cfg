SPECIFICATION Spec
CONSTANTS
  r1 = r1  r2 = r2  l1 = l1  f1 = f1  f2 = f2   o1 = o1  u1 = u1  u2 = u2
  Calls = {r1, r2, l1, f1, f2, o1, u1, u2}
  OpOf <- SomeOpOf
  TokenOf <- SomeTokenOf
  SnapshotIsolation = TRUE
  Faults = {"call", "crash", "network"}
  MaxMishaps = 2
CHECK_DEADLOCK FALSE
INVARIANTS TypeOK SingleUse RevokedForGood AnsweredIsRevoked KeyOutlivesRestarts StillVerified
