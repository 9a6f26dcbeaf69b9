SPECIFICATION FairSpec
CONSTANTS
  Chains = {c1, c2, c3}
  Callbacks = {c2, c3}
  Direct = {c2}
  Length = 2
  MayThrow = {1, 3}
INVARIANTS TypeOK EarlyCancelStops OutcomeFaithful NoOrphan HandlerOnce
PROPERTY FutureReady
CHECK_DEADLOCK FALSE
