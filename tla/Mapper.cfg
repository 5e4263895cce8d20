SPECIFICATION Spec
CONSTANTS
  Hosts = {"h1", "h2"}
  Alerts <- MCAlerts
  Policies <- MCPolicies
  Files <- MCFiles
  MaxCommands = 4
  MaxFaults = 1
INVARIANTS
  TypeOK
  UserPluginsKept
  NoMetricStranded
  UndoRestores
  PlacedCompletely
  DefaultPolicySafe
CHECK_DEADLOCK FALSE
