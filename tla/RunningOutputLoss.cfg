SPECIFICATION Spec
CONSTANTS
  NMetrics = 5
  Metric <- MCMetric
  Nil = 0
  MetricBatchSize = 2
  MetricBufferLimit = 4
  Adder = Adder
  T = T
  F = F
  Flushers = {T}
  Kinds = {"plain"}
  Rejected = {}
INVARIANT NoSilentLoss
