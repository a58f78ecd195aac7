SPECIFICATION FairSpec
CONSTANTS
  Streams <- MCStreams
  FRAME_BUF_SIZE = 14
  MayHangUp = TRUE
INVARIANTS
  TypeOK
  FramesInOrder
  SentFramesInOrder
  NothingLeftBehind
PROPERTIES
  ReadReturns
