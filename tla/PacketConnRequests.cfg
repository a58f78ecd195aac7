SPECIFICATION Spec
CONSTANTS
  r1 = r1
  r2 = r2
  r3 = r3
  s1 = s1
  s2 = s2
  s3 = s3
  None = None
  Requests = {r1, r2, r3}
  Subscriptions = {}
  InquiredTypes = {0, 1}
  RequestSpec <- MCRequestSpec
  SubSpec <- MCSubSpec
  Packets <- MCReplies
  MaxTries = 3
  AckTimeout = 1
  ReplyTimeout = 1
  WritesBlock = FALSE
INVARIANTS
  TypeOK
  CalledBackOnce
  AlternatingSequenceId
  StopAndWait
  NotGivenUpEarly
PROPERTIES
  KeepsRequestContract
