\* Opposite trades are rebalanced while requests, restarts, failures and the operator interleave.
SPECIFICATION Spec
CONSTANTS
  t1 = t1  t2 = t2
  o1 = o1  o2 = o2  o3 = o3  o4 = o4
  u1 = u1  u2 = u2
  None = None
  Trades = {t1, t2}
  Utxos = {u1, u2}
  InitOrders <- BidAndAsk
  Spares = {o3, o4}
  Offers <- OppositeTrades
  Strategies <- OneStrategy
  Settings <- ChangeOfSpread
  MaxFailures = 1
  QueryFails = TRUE
  CanRestart = TRUE
  CanEvict = FALSE
  CanSplit = FALSE
  Deletable = {t1}
INVARIANTS
  TypeOK
  NoLoss
PROPERTIES
  RebalancedOnce
CHECK_DEADLOCK FALSE
