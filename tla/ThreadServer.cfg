SPECIFICATION FairSpec
CONSTANTS
  Programs <- All
  MaxConns = 3
  Threads = {t1, t2}
  MinFd = 2
  MaxFd = 3
  NUM_THREADS = 2
  MaxSends = 1
CHECK_DEADLOCK FALSE
INVARIANTS TypeOK OwnAnswers EveryDescriptorKept
PROPERTY Answered
