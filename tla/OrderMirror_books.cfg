\* Two calls at once beside two syncs that may overlap and a run of the job; one failure or restart.
SPECIFICATION FairSpec
CONSTANTS
  c1 = c1  c2 = c2  c3 = c3  s1 = s1  s2 = s2  w1 = w1
  o1 = o1  o2 = o2  o3 = o3  low = low  high = high
  Calls = {c1, c2}
  Syncs = {s1, s2}
  Ids = {o1, o2, o3}
  Kinds = {low, high}
  Requests <- SomeOrders
  Writers = {w1}
  Traded = {o1}
  Counters <- CounterOrders
  AtOnce = 2
  MaxFailures = 1
INVARIANTS
  TypeOK
  QuantitiesAddUp
  NeverOffersMore
PROPERTIES
  BooksConverge
CHECK_DEADLOCK FALSE
