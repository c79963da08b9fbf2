SPECIFICATION ConsoleSpec
CONSTANTS
  DefaultConfig <- Deployed
  Submissions <- AllSubmissions
  CHANGE_COOLDOWN = 2
  LOOSEN_DELAY = 3
  MAX_DELTA_BPS = 2000
  MIN_PENALTY_BPS = 500
  MIN_WORST_CASE_KAPPA_BPS = 1000
  MIN_COLLATERAL_RATE = 100
  MAX_COLLATERAL_RATE = 1000000
  MAX_BUCKETS = 16
  SampleNotionals <- Samples
  FarLeft = 10000000
  Fractions <- SomeFractions
  MaxTime = 10
  Watched <- WatchedSubmissions
  MaxSceneTime = 5
  p1 = p1
  p2 = p2
  Polls <- TwoPolls
  MaxEvents = 2
  MaxFaults = 1
  Typed <- TypedNumbers
  MaxEdits = 2
SYMMETRY PollSymmetry
INVARIANTS
  LiveConfigSettles
  AbandoningCosts
  FormMirrorsContract
  HistoryMatchesChain
PROPERTIES
  LooseningWaits
CHECK_DEADLOCK FALSE
