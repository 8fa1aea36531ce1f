SPECIFICATION FairSpec
CONSTANTS
  client = client
  server = server
  k1 = k1
  k2 = k2
  Ends = {client, server}
  Closers <- OneCloser
  MaxLate = 0
  MaxFrames = 1
PROPERTIES CloseEnds CloseReleases PeerLearns
CHECK_DEADLOCK FALSE
