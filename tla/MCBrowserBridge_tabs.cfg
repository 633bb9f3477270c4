SPECIFICATION Spec
CONSTANTS
  MaxSessions = 1
  MaxReplies = 0
  Tabs = {1, 2}
  MaxLoads = 2
  MaxCommands = 1
INVARIANTS PageCommandReachesItsTab
CHECK_DEADLOCK FALSE
