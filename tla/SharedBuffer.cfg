SPECIFICATION Spec
CONSTANTS
  m1 = m1
  m2 = m2
  Nil = Nil
  Metric <- MCMetric
  Size = 3
  BatchSizes <- MCBatchSizes
  MaxAdd = 2
  MaxPushes = 7
INVARIANTS TypeOK LiveSlotsWritten Balance
PROPERTIES BatchIsPrefix RestIsSuffix QueueSpec
