SPECIFICATION Spec
CONSTANTS
  k1 = k1  k2 = k2  x1 = x1  x2 = x2
  Groups = {"review"}
  Partitions = {k1, k2}
  Ids = {x1, x2}
  Calls = {c1, c2}
  Size <- SomeSize
  Delivers <- SomeDelivers
  Malformed <- SomeMalformed
  IdOf <- SomeIdOf
  MaxAttempts = 2
  Faults = {}
  MaxMishaps = 0
CHECK_DEADLOCK FALSE
INVARIANTS ReviewedAtMostOnce
