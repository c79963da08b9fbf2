SPECIFICATION LiveSpec
CONSTANTS
  o1 = o1
  h1 = h1
  h2 = h2
  Orders <- OneOrder
  Fills <- TwoFills
  OrderOf <- SameOrder
  InputAmount <- Input
  DeadlineBase <- Base
  BondConfig <- Bonded
  OracleRates = {1}
  Bonds = {8}
  U256 = 16
  T1_BUFFER_SECONDS = 2
  T2_BUFFER_SECONDS = 2
  DEFAULT_MIN_MARGIN_SECONDS = 1
  FillFractions = {5000}
  MaxSignatures <- TwiceOne
  InclusionDelay = 1
  RelayDelay = 1
  MaxSkew = 1
  MaxTime = 5
INVARIANTS
  Conserved
PROPERTIES
  ImplementsAtomicSwap
  RevealedFillsSettle
CHECK_DEADLOCK FALSE
