SPECIFICATION Spec
CONSTANTS
  Hosts = {"h1", "h2"}
  Alerts <- OneAlert
  Policies <- OnePolicies
  Files <- MCFiles
  MaxCommands = 3
  MaxFaults = 0
INVARIANTS
  UndoRestoresConditions
CHECK_DEADLOCK FALSE
