SPECIFICATION Spec
CONSTANTS
  BUFSIZE = 2
  MAX_INPUT_MESSAGE_SIZE = 7
  Sizes = {0, 1, 2, 3, 6, 7, 12}
  MaxSent = 3
  MaxSessions = 2
INVARIANTS TypeOK MessagesArriveWhole NothingIsLeft BufferIsBounded
