SPECIFICATION ServicesSpec
CONSTANTS
  f = f
  v = v
  FileSystems <- MCFileSystems
  Ntfs <- MCNtfs
  Tree <- MCTree
  Chars = {"/", "a", "b"}
  MountPaths <- MCMountPaths
  Paths <- MCPaths
  FlagSets <- MCFlagSets
  BufferLengths = {1}
  MaxOffset = 1
  MaxFd = 2
  ModuleNames = {"ahci"}
  MaxModules = 2
CHECK_DEADLOCK FALSE
INVARIANTS
  OpenResolvesByComponent
  OneModulePerName
PROPERTIES
  DescriptorsAreHandles
  ModulesAreHandles
