\* Retries of a trade beside another one, or rivals that are cancelled or signed.
SPECIFICATION Spec
CONSTANTS
  m1 = m1  m2 = m2  m3 = m3  m4 = m4
  m5 = m5  m6 = m6  m7 = m7
  t1 = t1  t2 = t2
  o1 = o1  o2 = o2  o3 = o3
  u1 = u1  u2 = u2  u3 = u3
  None = None
  Messages = {m1, m2, m3, m4, m5, m6, m7}
  Trades = {t1, t2}
  Orders = {o1, o2, o3}
  Utxos = {u1, u2, u3}
  Content <- RetriesAndRivals
  OrderType <- OneAsk
  Quantity <- QuantityThree
  Scale <- ScaleMixed
  Price <- PriceMixed
  Value <- ValueOne
  Source <- EveryOutput
  InitFilled <- NothingFilled
  Deletable = {}
  TIMEOUT = 1
  CLEANUP_INTERVAL = 1
  PROPAGATION = 0
  ClockRuns = FALSE
  Conversations <- RetriesOrRivals
  HonestExchange = TRUE
  CanRestart = TRUE
INVARIANTS
  FillBounds
  OneReservePerTrade
  ReservationBacked
  FillsAccounted
  TradesAreCovered
  SignedTwiceIsGivenUp
PROPERTIES
  ImplementsReservationTable
  SuccessIsBacked
SYMMETRY Alike
CHECK_DEADLOCK FALSE
