SPECIFICATION LinkSpec
CONSTANTS
  r1 = r1
  r2 = r2
  r3 = r3
  s1 = s1
  None = None
  Requests = {r1, r2, r3}
  Subscriptions = {}
  InquiredTypes = {0}
  RequestSpec <- MCSetters
  SubSpec <- MCSubSpec
  Packets <- MCPackets
  ReplyTo <- MCReplyTo
  Notification <- MCNotification
  MaxTries = 2
  AckTimeout = 0
  ReplyTimeout = 0
  WritesBlock = FALSE
  Room = 2
  HeadsetIsPrompt = FALSE
INVARIANTS
  StaleAckOnlyAfterGivingUp
