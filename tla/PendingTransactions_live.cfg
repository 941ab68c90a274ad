\* Every trade is settled, whatever falls through, is dropped or is split away; one call fails, any one.
SPECIFICATION FairSpec
CONSTANTS
  t1 = t1  t2 = t2
  o1 = o1  o2 = o2  o3 = o3  o4 = o4
  u1 = u1  u2 = u2
  None = None
  Trades = {t1, t2}
  Utxos = {u1}
  InitOrders <- TwoAsks
  Spares = {o3, o4}
  Offers <- SharedOrders
  Strategies <- AnyStrategy
  Settings <- NoSettings
  MaxFailures = 1
  QueryFails = TRUE
  CanRestart = FALSE
  CanEvict = TRUE
  CanSplit = TRUE
  Deletable = {o2}
INVARIANTS
  FillsAccounted
  ConfirmedIsMined
PROPERTIES
  SettledUnlessStuck
  ConfirmedIsFinal
  ClosedOnlyWhenFull
CHECK_DEADLOCK FALSE
