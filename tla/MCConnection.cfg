SPECIFICATION Spec
CONSTANTS
  Streams <- MCStreams
  Answer <- MCAnswer
  MAX_ERROR_SIZE = 3
  YY_BUF_SIZE = 2
  YY_READ_BUF_SIZE = 3
INVARIANTS ScannerTypeOK WaitsWithinPacket SaidIsDelivered
PROPERTY LexerSpec
CHECK_DEADLOCK FALSE
