SPECIFICATION Spec
CONSTANTS
  INSTANCES = 1
  Clients = {c1}
  NoClient = NoClient
  Requests <- MCRequests
  USE_WSTR = FALSE
  MaxEvents = 1
  MaxQueued = 2
INVARIANTS QueriedLengthSuffices
CHECK_DEADLOCK FALSE
