SPECIFICATION FairSpec
CONSTANTS
  a = a
  b = b
  c = c
  d = d
  ThreadCount = 2
  Clients = {k1}
  Tasks = {a, b, c, d}
  Spawns <- MCSpawns
  NoTask = NoTask
  IndexModulus = 5
  MayFail = TRUE
INVARIANTS TypeOK ExactlyOnce QueuesAttended NothingOutlives
PROPERTIES TasksServed JoinReturns
CHECK_DEADLOCK FALSE
