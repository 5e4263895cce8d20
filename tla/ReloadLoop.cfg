SPECIFICATION Spec
CONSTANTS
  Conn = {1, 2}
  Protocols = {"tcp", "udp"}
  Limits = {0, 1}
  MaxTCPConnections = 1
  Types = {"c"}
  DeleteOnGather = {"c"}
  TCPKeepAlive = TRUE
  MetricCSize = 0
  MaxLines = 2
  MaxGathers = 1
  MaxSignals = 1
INVARIANTS
  LoopTypeOK
  TokensBalance
  NobodySendsOnClosed
  ReportedOnce
PROPERTIES
  StopReturns
  EndsWhenTold
  ReloadsWhenTold
CHECK_DEADLOCK FALSE
