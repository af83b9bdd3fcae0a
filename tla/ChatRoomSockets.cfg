SPECIFICATION Spec
CONSTANTS
  Conns = {c1, c2, c3}
  MaxFd = 2
  MaxNodes = 3
  MaxRequests = 4
  MaxHangups = 0
  Leaving = {c1, c2, c3}
  Stalling = {}
  Names = {ann, bob, cat}
  Requests <- Sockets
  NoConn = NoConn
  NoName = NoName
  c1 = c1
  c2 = c2
  ann = ann
  bob = bob
  cat = cat
SYMMETRY Symmetry
INVARIANTS
  NodeIsConnection
  RobbedOnlyAfter
PROPERTIES
  ClosedByOwner
CHECK_DEADLOCK FALSE
