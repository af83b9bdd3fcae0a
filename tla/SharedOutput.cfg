SPECIFICATION Spec
CONSTANTS
  Threads = {t1, t2}
  Users = 2
  MaxRead = 1
  MaxOutput = 2
  MaxLines = 3
SYMMETRY Symmetry
INVARIANTS  LoginHonest
CHECK_DEADLOCK FALSE
