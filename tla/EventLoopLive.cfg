SPECIFICATION FairSpec
CONSTANTS
  Conns = {c1, c2}
  Programs = {"chat_sever2", "chat_server", "poll_server", "telnet_server", "echo"}
  Kinds = {"NAME", "BAD", "TEXT", "CUT"}
  MaxSlots = 2
  MinFd = 2
  MaxFd = 2
  MaxSends = 3
  MaxHangups = 1
  NoConn = NoConn
PROPERTIES
  LinesRead
  NewcomersAccepted
CHECK_DEADLOCK FALSE
