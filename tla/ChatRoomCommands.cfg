SPECIFICATION Spec
CONSTANTS
  Conns = {c1, c2}
  MaxFd = 3
  MaxNodes = 3
  MaxRequests = 4
  MaxHangups = 1
  Leaving = {c1, c2}
  Stalling = {c1, c2}
  Names = {ann, bob}
  Requests <- Operator
  NoConn = NoConn
  NoName = NoName
  c1 = c1
  c2 = c2
  ann = ann
  bob = bob
  cat = cat
SYMMETRY Symmetry
INVARIANTS
  TypeOK
  OperatorExists
  OperatorStill
CHECK_DEADLOCK FALSE
