SPECIFICATION Spec
CONSTANTS
  Inputs = {cpu}
  cpu = cpu
  HasService = FALSE
  NOutputs = 2
  Aggregating = TRUE
  DropOriginal = TRUE
  ChanSize = 1
  MayStop = TRUE
  MaxMetrics = 2
  MaxLeaks = 1
INVARIANTS TypeOK OncePerOutput
PROPERTY NothingAfterLastFlush
CHECK_DEADLOCK FALSE
