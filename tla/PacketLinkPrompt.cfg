SPECIFICATION LinkSpec
CONSTANTS
  r1 = r1
  r2 = r2
  r3 = r3
  s1 = s1
  None = None
  Requests = {r1, r2, r3}
  Subscriptions = {s1}
  InquiredTypes = {0}
  RequestSpec <- MCRequestSpec
  SubSpec <- MCSubSpec
  Packets <- MCPackets
  ReplyTo <- MCReplyTo
  Notification <- MCNotification
  MaxTries = 3
  AckTimeout = 1
  ReplyTimeout = 1
  WritesBlock = FALSE
  Room = 2
  HeadsetIsPrompt = TRUE
INVARIANTS
  LinkTypeOK
  AnswersAreGenuine
  NoAckMeansNoAck
PROPERTIES
  FreshRequestFreshId
