SPECIFICATION Spec
CONSTANTS
  k1 = k1  k2 = k2  x1 = x1  x2 = x2
  Groups = {"notification", "review"}
  Partitions = {k1, k2}
  Ids = {x1, x2}
  Calls = {}
  Size <- SomeSize
  Delivers <- SomeDelivers
  Malformed <- SomeMalformed
  IdOf <- SomeIdOf
  MaxAttempts = 1
  Faults = {"dlq", "crash"}
  MaxMishaps = 2
CHECK_DEADLOCK FALSE
INVARIANT NeverDropped
