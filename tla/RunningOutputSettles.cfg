SPECIFICATION FairSpec
CONSTANTS
  NMetrics = 4
  Metric <- MCMetric
  Nil = 0
  MetricBatchSize = 2
  MetricBufferLimit = 2
  Adder = Adder
  T = T
  F = F
  Flushers = {T}
  Kinds = {"plain"}
  Rejected = {3}
PROPERTIES ContractSpec EverySettles
