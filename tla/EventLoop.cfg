SPECIFICATION Spec
CONSTANTS
  Conns = {c1, c2, c3}
  Programs = {"chat_sever2", "chat_server", "poll_server", "telnet_server", "echo"}
  Kinds = {"NAME", "BAD", "TEXT", "CUT"}
  MaxSlots = 3
  MinFd = 2
  MaxFd = 3
  MaxSends = 3
  MaxHangups = 1
  NoConn = NoConn
SYMMETRY Symmetry
INVARIANTS
  TypeOK
  NobodyForgotten
  CaughtUp
  
  ReadsDontBlock
PROPERTIES
  BroadcastSpec
CHECK_DEADLOCK FALSE
