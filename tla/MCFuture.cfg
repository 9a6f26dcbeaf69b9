SPECIFICATION FairSpec
CONSTANTS
  Producers = {p1, p2}
  Consumers = {c1}
  Values = {v1, v2}
  Errors = {e1}
  Monostate = Monostate
  Nullopt = Nullopt
  MovedFrom = MovedFrom
  NoThread = NoThread
  MaxCalls = 2
INVARIANTS TypeOK SoleWriter DataBelongs GetAgrees PromiseKept SleeperAnnounced
PROPERTIES StateFinal SleeperReleased
CHECK_DEADLOCK FALSE
