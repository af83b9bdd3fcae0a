SPECIFICATION Spec
CONSTANTS
  Conns = {c1, c2, c3}
  MaxFd = 3
  MaxClients = 2
  Kinds = {"NAME", "SPACED", "SHORT", "WORD", "TEXT", "CUT"}
  MaxSends = 3
  MaxHangups = 1
  NoConn = NoConn
SYMMETRY Symmetry
INVARIANTS
  RefusedAtMaximum
CHECK_DEADLOCK FALSE
