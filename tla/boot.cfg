SPECIFICATION FairSpec
CONSTANTS
  Sector <- MCSector
  Junk = "junk"
  FirstByte <- MCFirstByte
  Volumes <- MCVolumes
  Floppies <- MCFloppies
  Total = 5
  Stage2Sectors = 2
  ManifestLba = 2
  ImageBase = 2
  KernelLoad = 7
  RamSectors = 12
  MaxBoots = 2
INVARIANTS
  TypeOK
  ImageInPlace
  KernelInPlace
  OnlyTheDriveStopsIt
  OnlyA20Crashes
PROPERTIES
  BootEnds
CHECK_DEADLOCK FALSE
