SPECIFICATION Spec
CONSTANTS
  MaxSessions = 2
  MaxReplies = 1
  Tabs = {1}
  MaxLoads = 1
  MaxCommands = 1
INVARIANTS TypeOK MenusTellTruth PermanentWhenQuiet
PROPERTIES PermanentAtLast ProxyEndsWithBrowser
CHECK_DEADLOCK FALSE
