CONSTANTS
  SectorsPerMiB = 4
  GptSectors = 2
  MaxFaults = 3
  DiskSpecs <- MCDiskSpecs
  PartSize <- MCPartSize
  TreeSize <- MCTreeSize
  ImgOverhead = 1
  MinPartSize = 1
  MiBPerGB = 4
  MaxBuilds = 2
  DiskSizes <- MCDiskSizes
  ExtraParts <- MCExtraParts
SPECIFICATION Spec
INVARIANTS
  ChrootClean
  ImageComplete
  HostKept
  LayoutAsConfigured
  DataKept
  ResetOnce
PROPERTIES
  FirstBootDeploys
