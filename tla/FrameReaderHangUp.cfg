SPECIFICATION FairSpec
CONSTANTS
  Streams <- MCPairStreams
  FRAME_BUF_SIZE = 14
  MayHangUp = TRUE
PROPERTIES
  HangUpReturns
