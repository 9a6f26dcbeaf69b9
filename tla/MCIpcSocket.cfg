SPECIFICATION Spec
CONSTANTS
  Servers = {srv}
  Streams = {s1, s2}
  Datagrams = {d1}
  NoObject = NoObject
  Unborn = Unborn
  Paths <- MCPaths
  BindPaths <- MCBindPaths
  Size = 4
  Nul = Nul
  Fds = {f1, f2, f3}
  Invalid = Invalid
  MaxSocks = 3
  MaxQueue = 0
  Capacity = 1
  QueueSizes = {0, 1}
  Modes <- MCModes
SYMMETRY Symmetry
INVARIANTS TypeOK OwnedOnce
PROPERTIES SocketStays NameTakenByBind SenderKnown
CHECK_DEADLOCK FALSE
