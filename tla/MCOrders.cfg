SPECIFICATION OrdersSpec
CONSTANTS
  o1 = o1
  c1 = c1
  c2 = c2
  Orders <- OneOrder
  InputAmount <- TwoChunks
  Deadline <- BookDeadline
  FALLBACK_WINDOW = 1
  RewindLag = 1
  BACKFILL = TRUE
  FillAmounts = {1}
  MaxBlock = 3
  Callbacks <- TwoCallbacks
  MaxFaults = 1
  FAKE_MARKET_PREMIUM_BPS = 10000
  MIN_SPREAD_BPS = 100
  MIN_PROFIT_RAW = 1
  MAX_INVENTORY_USE_BPS = 5000
  Unit = 10
  OneInput = 10
  UINT32_MAX = 6
  MIN_FILL_CANDIDATES <- FourMinimums
  Quoters <- Quoting
  Requests <- AskedOrNot
  MaxOutages = 1
  Stakes = {"stake1", "stake2"}
  Polls = {1, 2}
  Starts = {1, 2}
  LogLength = 3
  MaxMishaps = 1
  Tokens = {"WETH", "WBTC"}
  Amounts = {5, 20}
  Rates = {100}
  Decays = {0, 7}
  START_PREMIUM_BPS = 2000
  FLOOR_SLIPPAGE_BPS = 1000
  AUCTION_BLOCKS = 5
  DECAY_PER_BLOCK_MAX = 6
  MaxInputs = 4
SYMMETRY CallbackSymmetry
INVARIANTS
  NeverOverbooked
  FilledIsSold
  CheckpointCovers
  SuggestionStaysPayable
  LargestMinimum
  RowsFollowChain
  SweepStaysFillable
CHECK_DEADLOCK FALSE
