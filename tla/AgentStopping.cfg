SPECIFICATION StopSpec
CONSTANTS
  Inputs = {cpu}
  cpu = cpu
  HasService = TRUE
  NOutputs = 1
  Aggregating = TRUE
  DropOriginal = TRUE
  ChanSize = 1
  MayStop = TRUE
  MaxMetrics = 2
  MaxLeaks = 1
PROPERTY StopsUnlessStranded
CHECK_DEADLOCK FALSE
