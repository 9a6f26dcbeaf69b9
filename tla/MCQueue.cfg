SPECIFICATION FairSpec
CONSTANTS
  Threads = {t1, t2, t3}
  Items = {i1, i2}
  NoItem = NoItem
  NoThread = NoThread
  MaxCalls = 1
INVARIANTS TypeOK MutexProtects NoPopOnEmpty NoLostWakeup
PROPERTIES ImplementsFifo PoppersServed OthersReturn
CHECK_DEADLOCK FALSE
