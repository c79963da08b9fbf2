SPECIFICATION PagesSpec
CONSTANTS
  h1 = h1
  Fills <- OneFill
  RESCAN_LAG = 2
  DEV_REWIND_LAG = 1
  BACKFILL = TRUE
  MaxPolls = 2
  MaxSigners = 2
  MaxBlocks <- FewBlocks
  MaxCrashes = 1
  MaxFailures = 1
  chainIds = {1, 2}
  ChainA = 1
  Directory <- Tokens
  Accounts = {"a", "b"}
  Typable = {5}
  Stamps = {1}
  MaxActs = 3
  MaxWalletActs = 1
  FillIds = {1, 2}
  MINUTE = 2
  Proposals <- TwoProposals
  Typed = {1}
  MaxTime = 1
  MaxFetches = 2
  MaxMoves = 3
  MaxPresses = 2
  Pages = {"p", "q"}
  Names = {"Whale", "CoW"}
  Own <- TwoFillers
  Seeds = {"Whale"}
  Networks = {1}
  MaxLogins = 2
  MaxClicks = 4
  MaxLoads = 1
  MaxCalls = 2
  MaxRestarts = 1
INVARIANTS
  BoardNeverAhead
  CheckpointCovers
  NothingCarriedOver
PROPERTIES
  StatusFollowsDiagram
CHECK_DEADLOCK FALSE
