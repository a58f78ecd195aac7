SPECIFICATION Spec
CONSTANTS
  Frames <- MCFrames
  EscapedLen <- MCEscapedLen
  FRAME_BUF_SIZE = 4
  MAX_WIRE = 6
  WriteAgain = TRUE
INVARIANTS
  TypeOK
  SuccessSendsWhole
  BlockedIsKept
