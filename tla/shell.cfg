SPECIFICATION FairSpec
CONSTANTS
  Word <- MCWord
  MaxVars = 2
  HalfRange = 2
  IntOf <- MCIntOf
  Stored <- MCStored
  Disks <- AllDisks
  Damaged = {"T.BAT"}
  RfsFiles <- ShippedRfs
  RxeNames <- MCRxeNames
  UserLines <- AllUser
  MaxScriptDepth = 3
  BufCap = 3
  DumpLines = 1
  StackFrames = 5
INVARIANTS
  TypeOK
  BatchIntegrity
  DepthMatches
  RxeIntegrity
  NamesUnique
PROPERTIES
  SetReadsBack
  ImplementsPrograms
  ReturnsToPrompt
CHECK_DEADLOCK FALSE
