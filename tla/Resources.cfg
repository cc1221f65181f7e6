SPECIFICATION ResourcesSpec
CONSTANTS
  PageSize = 16
  HeaderSize = 4
  Alignment = 2
  HeapPages = 3
  Sizes = {1, 4, 12, 14}
  FrameSize = 2
  Width = 4
  PmmPages = 5
  LowPages = 1
  Entries <- MCEntries
  KeptRanges <- MCKept
  Procs = {p1, p2}
  Frames = 11
  Pool = {2, 3, 4, 5, 6, 7, 8, 9, 10}
  Span = 2
  CloneTables = 3
  MaxPages = 4
  ImagePages = {2, 3}
  StackPages = {3}
  DataPages = {2}
  HeapBase = 4
  HeapTop = 7
  Pids = {q1, q2, q3}
  MaxChannels = 2
  MaxHandles = 2
  Depth = 1
  MaxCreate = 3
SYMMETRY ProcessSymmetry
INVARIANTS HeapSound PagesExact  ChannelsSound OwnMessages
PROPERTY ExitSparesOthers
CHECK_DEADLOCK FALSE
