SPECIFICATION Spec
CONSTANTS
  NameMax = 1
  MaxLength = 8
  Counts <- MCCounts
  Data <- MCData
  Sample <- MCSample
INVARIANTS
  RequestsEncoded
CHECK_DEADLOCK FALSE
