SPECIFICATION FairSpec
CONSTANTS
  Inputs = {cpu}
  cpu = cpu
  HasService = FALSE
  NOutputs = 1
  Aggregating = FALSE
  DropOriginal = FALSE
  ChanSize = 1
  MayStop = TRUE
  MaxMetrics = 2
  MaxLeaks = 1
PROPERTY Terminates
CHECK_DEADLOCK FALSE
