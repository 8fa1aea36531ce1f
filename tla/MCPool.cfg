SPECIFICATION FairSpec
CONSTANTS
  a1 = a1
  a2 = a2
  b1 = b1
  n1 = n1
  n2 = n2
  NoConn = NoConn
  NoName = NoName
  Conns = {a1, b1}
  Clients = {a1}
  InPlace = {}
  Group = {a1}
  MayBlock = {b1}
  Names = {n1, n2}
  Size = 0
  ClientRetry = 1
INVARIANTS TypeOK TablesAgree CloseWaits
PROPERTY CloseReturns
CHECK_DEADLOCK FALSE
