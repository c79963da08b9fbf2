SPECIFICATION PromptSpec
CONSTANTS
  o1 = o1
  o2 = o2
  o3 = o3
  f1 = f1
  f2 = f2
  n1 = n1
  c1 = c1
  c2 = c2
  Orders <- OneOrder
  Fillers <- TwoFillers
  Bot = f1
  Accounts <- TwoFillers
  Treasury = f2
  Configs <- OnePlain
  U128 = 64
  SlashWindow = 0
  InputAmount <- Input
  MinOutput <- LowFloor
  MinFill <- SmallFill
  Deadline <- BotDeadline
  StartPrice <- Price
  DecayPerBlock <- Decay
  Nonces <- OneNonce
  NonceOf <- OneNonceForAll
  Payees <- OnePayee
  PayeeOf <- OneForAll
  PriceUnit = 1
  U256 = 128
  OracleRates = {10}
  Excesses = {0}
  Fees = {0}
  FillAmounts = {2}
  MaxBlock = 3
  Routers = {"router"}
  FallbackWindow = 0
  RouterOutputs = {7}
  FAKE_MARKET_PREMIUM_BPS = 10000
  MIN_SPREAD_BPS = 100
  MIN_PROFIT_RAW = 1
  MAX_INVENTORY_USE_BPS = 5000
  Unit = 1
  Strategies = {"whale", "cow"}
  REGISTER_AT_BLOCKS_LEFT = 2
  MinBlocksLeft = 1
  Balances = {4, 16}
  Books <- TwoBooks
  Callbacks <- TwoCallbacks
  MaxCrashes = 1
  Shares = {5000, 10000}
  MaxCommands = 2
SYMMETRY CallbackSymmetry
INVARIANTS
  CommandDelivers
  Provisioned
  WhaleCommitmentFillable
  StakedIsWatched
  GreedyIsOptimal
CHECK_DEADLOCK FALSE
