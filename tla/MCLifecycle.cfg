SPECIFICATION Spec
CONSTANTS
  client = client
  server = server
  k1 = k1
  k2 = k2
  Ends = {client, server}
  Closers <- TwoClosers
  MaxLate = 1
  MaxFrames = 1
INVARIANTS OneTimer ReturnedIsClosed
CHECK_DEADLOCK FALSE
