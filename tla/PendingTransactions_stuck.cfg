\* A call before the loop of the job fails.
SPECIFICATION FairSpec
CONSTANTS
  t1 = t1  t2 = t2
  o1 = o1  o2 = o2  o3 = o3  o4 = o4
  u1 = u1  u2 = u2
  None = None
  Trades = {t1, t2}
  Utxos = {u1}
  InitOrders <- TwoAsks
  Spares = {o3, o4}
  Offers <- SharedOrders
  Strategies <- OneStrategy
  Settings <- NoSettings
  MaxFailures = 1
  QueryFails = TRUE
  CanRestart = FALSE
  CanEvict = FALSE
  CanSplit = FALSE
  Deletable = {}
PROPERTIES
  EveryTradeSettles
CHECK_DEADLOCK FALSE
