SPECIFICATION FairSpec
CONSTANTS
  Threads = {t1, t2}
  NoThread = NoThread
  Expected = 1
  Modulus = 16
  Counts = {0, 1, 2}
  Budget = 1
  MaxCalls = 1
PROPERTY WaitersReleased
CHECK_DEADLOCK FALSE
