SPECIFICATION FairSpec
CONSTANTS
  Threads = {t1, t2, t3}
  NoThread = NoThread
  Expected = 2
  Modulus = 16
  Counts = {0, 1, 2}
  Budget = 2
  MaxCalls = 2
INVARIANTS TypeOK NoEarlyReturn SleepersAnnounced
PROPERTIES StaysOpen SleepersReleased
CHECK_DEADLOCK FALSE
