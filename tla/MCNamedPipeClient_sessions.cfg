SPECIFICATION FairSpec
CONSTANTS
  OutQuota = 0
  Senders = {s1, s2}
  NoSender = NoSender
  MaxSessions = 3
  MaxMessages = 2
INVARIANTS TypeOK NeverDeaf NoLostWakeup NoMessageCrossesSessions BlamesServerRightly HangsOnlyOnWrite
PROPERTIES CallbacksAreConnection LastWordsAreHeard StopEndsThread QueuedIsSent
