SPECIFICATION FairSpec
CONSTANTS
  Inputs = {cpu}
  cpu = cpu
  HasService = FALSE
  NOutputs = 1
  Aggregating = TRUE
  DropOriginal = FALSE
  ChanSize = 1
  MayStop = FALSE
  MaxMetrics = 2
  MaxLeaks = 1
PROPERTY EverythingWritten
