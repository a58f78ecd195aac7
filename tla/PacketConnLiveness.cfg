SPECIFICATION FairSpec
CONSTANTS
  r1 = r1
  r2 = r2
  r3 = r3
  s1 = s1
  s2 = s2
  s3 = s3
  None = None
  Requests = {r1, r2}
  Subscriptions = {s1, s2}
  InquiredTypes = {0, 1}
  RequestSpec <- MCRequestSpec
  SubSpec <- MCSubSpec
  Packets <- MCReplies
  MaxTries = 2
  AckTimeout = 0
  ReplyTimeout = 0
  WritesBlock = TRUE
INVARIANTS
  EverySubscriberNotified
PROPERTIES
  NotifiedOnce
  EveryRequestEnds
  CloseEnds
