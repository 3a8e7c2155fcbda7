CONSTANTS
  bufferSize = 4
  BUFFER_COUNT = 3
  minSize = 3
  MaxSize = 4
  MaxBytes = 15
  NoSeq = NoSeq
  MaxSeq = 2
  Packets = 4
  Stream <- Streams
SPECIFICATION Spec
INVARIANTS BytesIntact RoomToReceive Framing NoReplay
CHECK_DEADLOCK FALSE
