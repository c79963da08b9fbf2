SPECIFICATION LiveBook
CONSTANTS
  o1 = o1
  c1 = c1
  c2 = c2
  Orders <- OneOrder
  InputAmount <- TwoChunks
  Deadline <- BookDeadline
  FALLBACK_WINDOW = 1
  RewindLag = 1
  BACKFILL = TRUE
  FillAmounts = {1}
  MaxBlock = 3
  Callbacks <- OneCallback
  MaxFaults = 1
PROPERTIES
  FillsAreBooked
  DeadOrdersClose
CHECK_DEADLOCK FALSE
