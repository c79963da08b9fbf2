SPECIFICATION FillerSpec
CONSTANTS
  o1 = o1
  h1 = h1
  h2 = h2
  p1 = p1
  p2 = p2
  Orders <- OneOrder
  Fills <- TwoFills
  OrderOf <- SameOrder
  InputAmount <- Input
  DeadlineBase <- Base
  BondConfig <- Bonded
  OracleRates = {1}
  Bonds = {8}
  U256 = 16
  T1_BUFFER_SECONDS = 2
  T2_BUFFER_SECONDS = 1
  DEFAULT_MIN_MARGIN_SECONDS = 1
  FillFractions = {10000}
  MaxSignatures <- TwiceEach
  InclusionDelay = 1
  RelayDelay = 0
  MaxSkew = 1
  MaxTime = 4
  Processes <- TwoProcesses
  MaxTransfers = 1
SYMMETRY BothSymmetries
INVARIANTS
  SecretsSurvive
PROPERTIES
  FollowsSwap
CHECK_DEADLOCK FALSE
