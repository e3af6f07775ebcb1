SPECIFICATION FairSpec
CONSTANTS
  a1 = a1  a2 = a2  d1 = d1  b1 = b1  p1 = p1  p2 = p2
  Calls = {a1, a2, d1, b1}
  Products = {p1, p2}
  OpOf <- SomeOpOf
  ItemsOf <- SomeItemsOf
  QtyOf <- SomeQtyOf
  Stocks = {2}
  Faults = {"redis", "crash"}
CHECK_DEADLOCK FALSE
INVARIANTS CountedOnce NothingComesBack
PROPERTIES AbandonedIsCounted LeftoversVanish
