SPECIFICATION StartupSpec
CONSTANTS
  Width = 16
  PageUnit = 4
  WordUnit = 2
  LinkBase = 4
  FwEvents = 2
  Images <- MCImages
  Areas <- MCAreas
  MapSizes <- MCMapSizes
  QDepth = 2
  CidLimit = 4
  SectorSize = 2
  PageSize = 3
  Firsts = {1}
  Counts = {1, 3}
  NsSectors = 4
  NvmeTimeouts = 1
  AhciPorts = {0, 1}
  AhciCmds = {"read", "write"}
  AhciTimeouts = 1
  CmdTrbs = 16
  Ep0Trbs = 16
  KbdTrbs = 4
  EvtTrbs = 5
  HidReports <- MCHidReports
  XhciFaults = 1
  RingCount = 3
  BufferSize = 2
  Frames <- MCFrames
  PciMax = 3
  Buses <- MCBuses
  Machines = {"loader", "drivers", "modules"}
INVARIANTS
  HandOffCurrent
  LoadStaysInside
  DependenciesFirst
  BlockIoIsOwn
  DevicesInOrder
CHECK_DEADLOCK FALSE
