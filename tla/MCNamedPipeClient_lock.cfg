SPECIFICATION Spec
CONSTANTS
  OutQuota = 1
  Senders = {s1, s2}
  NoSender = NoSender
  MaxSessions = 2
  MaxMessages = 1
PROPERTY ListIsGuarded
