SPECIFICATION FairSpec
CONSTANTS
  INSTANCES = 1
  OutQuota = 1
  Senders = {s1}
  NoSender = NoSender
  MaxClients = 2
  MaxRequests = 1
INVARIANTS IInv NoLostWakeup
PROPERTIES StopEndsThread QueuedIsSent ConnectIsAnnounced
