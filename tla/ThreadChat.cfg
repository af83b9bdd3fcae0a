SPECIFICATION Spec
CONSTANTS
  Conns = {c1, c2, c3}
  MaxFd = 2
  MaxClients = 2
  Kinds = {"NAME", "SPACED", "SHORT", "WORD", "TEXT", "CUT"}
  MaxSends = 3
  MaxHangups = 1
  NoConn = NoConn
SYMMETRY Symmetry
INVARIANTS
  TypeOK
  CountedByName
  EverybodyInTheArray
  
  NoEcho
PROPERTIES
  RightNameAccepted
CHECK_DEADLOCK FALSE
