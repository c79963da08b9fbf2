SPECIFICATION Spec
CONSTANTS
  o1 = o1
  o2 = o2
  o3 = o3
  f1 = f1
  f2 = f2
  treasury = treasury
  n1 = n1
  Orders <- ThreeOrders
  Fillers <- OneFiller
  Accounts <- OneFillerAccounts
  Treasury = treasury
  Configs <- OnePlain
  U128 = 64
  SlashWindow = 1
  InputAmount <- Input
  MinOutput <- Floor
  MinFill <- SmallFill
  Deadline <- LastBlock
  StartPrice <- Price
  DecayPerBlock <- Decay
  Nonces <- OneNonce
  NonceOf <- OneNonceForAll
  Payees <- TwoPayees
  PayeeOf <- SharedByTwo
  PriceUnit = 1
  U256 = 128
  OracleRates = {10}
  Excesses = {0}
  Fees = {0, 3}
  FillAmounts = {2, 66}
  MaxBlock = 4
  Routers = {"router"}
  FallbackWindow = 1
  RouterOutputs = {3, 7}
  Aggregators = {"uniswap", "1inch"}
  SLIPPAGE_BPS = 3000
INVARIANTS
  IInv
  FloorPaid
  SwapperKillFreesStake
  TickMeansFallback
CHECK_DEADLOCK FALSE
