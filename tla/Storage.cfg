SPECIFICATION StorageSpec
CONSTANTS
  Docs = Docs
  Notes = Notes
  ChunkX = ChunkX
  ChunkY = ChunkY
  MaxCluster = 5
  Slots = 3
  Fats = 2
  MaxFaults = 1
  Paths <- MCPaths
  Chunks = {ChunkX, ChunkY}
  Contents <- MCContents
  MaxNodes = 5
  ContentLen = 2
  MountMax = 2
  Lengths = {1}
  Sources = {"a"}
  MaxDepth = 2
  Names = {"a", "ab"}
  Short <- MCShort
  CallPaths <- MCCallPaths
  Targets <- MCTargets
  DiskPaths <- MCDiskPaths
  Manifests <- MCManifests
  NoEntry = "none"
  SystemApps <- MCSystemApps
  Homes <- MCHomes
  AppMax = 5
  DiscoveryMax = 3
  MaxFiles = 2
  PkgFaults = 2
INVARIANTS OldOrNew VolumeSound TreeSound 
CONSTRAINT Whole
