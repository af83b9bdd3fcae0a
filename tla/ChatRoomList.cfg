SPECIFICATION Spec
CONSTANTS
  Conns = {c1, c2}
  MaxFd = 3
  MaxNodes = 4
  MaxRequests = 5
  MaxHangups = 0
  Leaving = {c1, c2}
  Stalling = {}
  Names = {ann, bob, cat}
  Requests <- Updates
  NoConn = NoConn
  NoName = NoName
  c1 = c1
  c2 = c2
  ann = ann
  bob = bob
  cat = cat
SYMMETRY Symmetry
INVARIANTS
  ListOrdered
  ListExact
  NamesUnique
PROPERTIES
  HeadStays
CHECK_DEADLOCK FALSE
