SPECIFICATION Spec
CONSTANTS
  INSTANCES = 1
  Clients = {c1, c2}
  NoClient = NoClient
  Requests <- MCRequests
  USE_WSTR = FALSE
  MaxEvents = 2
  MaxQueued = 2
INVARIANTS TypeOK NoThreadOutlivesItsObject HandleNamesObject AnswersAreTheHandlers LastUrlIsShown StringsFit
PROPERTIES AssertionFailsOnlyAfterTimeout UnRegisterReturns
CHECK_DEADLOCK FALSE
