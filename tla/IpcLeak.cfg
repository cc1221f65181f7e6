CONSTANTS
  Pids = {p1, p2, p3}
  MaxChannels = 2
  MaxHandles = 2
  Depth = 1
  MaxCreate = 3
SPECIFICATION IpcSpec
INVARIANT NoOrphanChannel
CHECK_DEADLOCK FALSE
