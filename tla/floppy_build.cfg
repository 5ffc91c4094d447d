SPECIFICATION Spec
CONSTANTS
  UpperOf <- MCUpperOf
  Allowed = {"A", "B", "K"}
  StemLen = 2
  ExtLen = 1
  BytesPerSector = 2
  TotalSectors = 22
  ReservedSectors = 3
  SectorsPerFat = 6
  RootEntries = 3
  SectorsPerTrack = 11
  Heads = 2
  EntryBytes = 1
  KernelName <- MCKernelName
  Hosts <- MCHosts
  Typed <- MCTyped
  Limits <- MCLimits
  Required <- MCRequired
INVARIANTS
  TypeOK
  ChainsIntact
  KernelWhereManifestSays
  BuiltImagesValidate
  ListingComplete
PROPERTIES
  ImplementsFileStore
CHECK_DEADLOCK FALSE
