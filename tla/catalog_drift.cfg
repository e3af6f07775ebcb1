SPECIFICATION Spec
CONSTANTS
  w1 = w1  w2 = w2  w3 = w3  g1 = g1  l1 = l1  m1 = m1
  p1 = p1  p2 = p2  none = none
  Calls = {w3, g1}
  Products = {p1, p2}
  Page = Page
  OpOf <- SomeOpOf
  ProductOf <- SomeProductOf
  QtyOf <- SomeQtyOf
  InitStock <- TwoStock
  Faults = {}
  NoCall = NoCall
CHECK_DEADLOCK FALSE
INVARIANTS NoDrift
