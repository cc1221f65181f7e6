SPECIFICATION VfsSpec
CONSTANTS
  MaxNodes = 5
  ContentLen = 2
  MountMax = 2
  Lengths = {1}
  Sources = {"a"}
  MaxDepth = 2
  Names = {"a", "ab"}
  Short <- MCShort
  CallPaths <- MCCallPaths
  Targets <- MCTargets
  DiskPaths <- MCDiskPaths
PROPERTY VolumeOnlyThroughMount
