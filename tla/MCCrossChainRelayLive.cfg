SPECIFICATION LiveSpec
CONSTANTS
  h1 = h1
  Fills <- OneFill
  RESCAN_LAG = 2
  DEV_REWIND_LAG = 1
  BACKFILL = TRUE
  MaxPolls = 1
  MaxSigners = 2
  MaxBlocks <- TwoBlocks
  MaxCrashes = 1
  MaxFailures = 1
PROPERTIES
  EverySecretRelayed
  BoardCatchesUp
CHECK_DEADLOCK FALSE
