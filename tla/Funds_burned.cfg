\* A rune is split, and what is left after the fee is not worth an output.
SPECIFICATION FundsSpec
CONSTANTS
  AtOnce = 1
  None = None
  Wallets <- JustEnough
  Deposits = {}
  Traded = {}
  MaxTip = 1
  MaxOutputs = 2
  Queries = {}
  PAGE = 1
  MaxFailures = 0
  Requests <- Parts
  FeeRates = {1}
INVARIANTS
  RunesAreKept
CHECK_DEADLOCK FALSE
