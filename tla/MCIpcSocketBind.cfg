SPECIFICATION Spec
CONSTANTS
  Servers = {srv}
  Streams = {s1}
  Datagrams = {d1}
  NoObject = NoObject
  Unborn = Unborn
  Paths <- MCPath
  BindPaths <- MCPath
  Size = 4
  Nul = Nul
  Fds = {f1, f2}
  Invalid = Invalid
  MaxSocks = 3
  MaxQueue = 0
  Capacity = 1
  QueueSizes = {0, 1}
  Modes <- MCModes
PROPERTY BindFreesName
CHECK_DEADLOCK FALSE
