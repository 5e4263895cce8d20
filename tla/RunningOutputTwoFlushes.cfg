SPECIFICATION Spec
CONSTANTS
  NMetrics = 3
  Metric <- MCMetric
  Nil = 0
  MetricBatchSize = 2
  MetricBufferLimit = 2
  Adder = Adder
  T = T
  F = F
  Flushers = {T, F}
  Kinds = {"plain", "aggregating"}
  Rejected = {}
SYMMETRY FlusherSymmetry
INVARIANTS TypeOK InOnePlace
PROPERTIES AcceptingDropsNothing LostOnlyInBatchOrReset
