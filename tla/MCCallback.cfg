SPECIFICATION Spec
CONSTANTS
  Chains = {c1, c2}
  Callbacks = {c1}
  Direct = {}
  Length = 1
  MayThrow = {1}
INVARIANT HandlerCalled
CHECK_DEADLOCK FALSE
