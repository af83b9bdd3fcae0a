SPECIFICATION FairSpec
CONSTANTS
  Conns = {c1, c2}
  MaxFd = 3
  MaxNodes = 3
  MaxRequests = 4
  MaxHangups = 1
  Leaving = {c2}
  Stalling = {c2}
  Names = {ann, bob, cat}
  Requests <- Scenario
  NoConn = NoConn
  NoName = NoName
  c1 = c1
  c2 = c2
  ann = ann
  bob = bob
  cat = cat
PROPERTIES
  RequestsEnd
  SocketsReleased
CHECK_DEADLOCK FALSE
