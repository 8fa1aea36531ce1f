SPECIFICATION TransferFairSpec
CONSTANTS
  c1 = c1
  c2 = c2
  Calls = {c1, c2}
  NoCall = NoCall
  MaxStreams = 2
  MaxChunks = 2
  CancelBit = 4
  ChunkSize = 65534
  LastSize = 124
  BufferSize = 65536
  MaxPayloadSize = 65536
  Cuts = FALSE
INVARIANTS WireIsReadable RefusedOnlyWhenSpent
PROPERTIES ChannelSpec SentArrives Returns
CHECK_DEADLOCK FALSE
