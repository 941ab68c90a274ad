\* A query and a split, while blocks arrive and both indexers follow.
SPECIFICATION FairFunds
CONSTANTS
  AtOnce = 1
  None = None
  Wallets <- SatsAndRunes
  Deposits <- Arrivals
  Traded = {2}
  MaxTip = 2
  MaxOutputs = 3
  Queries = {"plain", "runes"}
  PAGE = 1
  MaxFailures = 1
  Requests <- Parts
  FeeRates = {5}
INVARIANTS
  FundingTypeOK
  FoundIsAskedFor
  SplitsTypeOK
  SplitPaysItsFee
  PartsGetTheirRunes
PROPERTIES
  QueriesEnd
CHECK_DEADLOCK FALSE
