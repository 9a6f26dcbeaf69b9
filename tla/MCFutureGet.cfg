SPECIFICATION Spec
CONSTANTS
  Producers = {p1}
  Consumers = {c1}
  Values = {v1}
  Errors = {e1}
  Monostate = Monostate
  Nullopt = Nullopt
  MovedFrom = MovedFrom
  NoThread = NoThread
  MaxCalls = 1
INVARIANT GetDelivers
CHECK_DEADLOCK FALSE
