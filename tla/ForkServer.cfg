SPECIFICATION FairSpec
CONSTANTS
  Programs <- All
  Procs = {p1, p2}
  num_processes = 2
  MaxConns = 2
  MaxFd = 1
  MaxSends = 2
  MaxFaults = 1
CHECK_DEADLOCK FALSE
INVARIANT ZombiesAreMergedSignals
PROPERTY Served
