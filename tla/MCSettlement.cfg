SPECIFICATION Spec
CONSTANTS
  o1 = o1
  o2 = o2
  o3 = o3
  f1 = f1
  f2 = f2
  treasury = treasury
  n1 = n1
  Orders <- OneOrder
  Fillers <- TwoFillers
  Accounts <- AllAccounts
  Treasury = treasury
  Configs <- BothConfigs
  U128 = 64
  SlashWindow = 1
  InputAmount <- Input
  MinOutput <- Floor
  MinFill <- SmallFill
  Deadline <- LastBlock
  StartPrice <- Price
  DecayPerBlock <- Decay
  Nonces <- OneNonce
  NonceOf <- OneNonceForAll
  Payees <- TwoPayees
  PayeeOf <- SharedByTwo
  PriceUnit = 1
  U256 = 128
  OracleRates = {10}
  Excesses = {5}
  Fees = {0}
  FillAmounts = {2, 4}
  MaxBlock = 4
  Routers = {"router"}
  FallbackWindow = 1
  RouterOutputs = {3, 4, 7}
  Aggregators = {"uniswap", "1inch"}
  SLIPPAGE_BPS = 3000
SYMMETRY FillerSymmetry
INVARIANTS
  Solvent
  InputConserved
  PriceFollowsCurve
PROPERTIES
  FullDeliveryRefundsAll
  ImplementsEscrow
CHECK_DEADLOCK FALSE
