SPECIFICATION EscapeSpec
CONSTANTS
  Frames <- MCFrames
INVARIANTS
  EscapeTypeOK
  InBounds
  ReaderGetsFrame
