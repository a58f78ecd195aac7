SPECIFICATION FairSpec
CONSTANTS
  None = None
  Calls = {c1, c2}
  Subscribers = {s1, s2}
  Used <- OperationNames
  Headsets <- MCHeadsets
INVARIANTS
  TypeOK
  UserCalledBackOnce
  InitMeansKnown
  AsksForWhatThereIs
  AnswersAreRecognised
  RecordsAreLive
PROPERTIES
  EveryCallEnds
