SPECIFICATION Spec
CONSTANTS
  NameMax = 1
  MaxLength = 13
  Counts <- MCCounts
  Data <- MCData
  Sample <- MCSample
INVARIANTS
  TypeOK
  ReadsInBounds
  BlocksInUse
  NothingElseLeaks
  EncodesParsed
PROPERTIES
  CallsReturn
CHECK_DEADLOCK FALSE
