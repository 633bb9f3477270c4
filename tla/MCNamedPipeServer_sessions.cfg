SPECIFICATION Spec
CONSTANTS
  INSTANCES = 2
  OutQuota = 1
  Senders = {}
  NoSender = NoSender
  MaxClients = 2
  MaxRequests = 2
INVARIANTS TypeOK NumbersNameSessions NoDeafInstance DiesOnlyOfStalledWrite LeaversAreDrained RepliesInOrder NoReplyToEarlierClient
PROPERTIES CallbacksAreSessions
