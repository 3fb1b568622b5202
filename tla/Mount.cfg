CONSTANTS
  Volumes <- MCVolumes
  PersistentDir <- MCPersistentDir
  EphemeralPaths <- MCEphemeralPaths
  PersistentPaths <- MCPersistentPaths
  Specs <- MCSpecs
  MaxVersion = 2
  MaxWrites = 2
SPECIFICATION Spec
INVARIANTS
  PathsServed
  PersistentKept
  FstabIsMounts
  
