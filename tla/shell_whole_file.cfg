SPECIFICATION Spec
CONSTANTS
  Word <- MCWord
  MaxVars = 2
  HalfRange = 2
  IntOf <- MCIntOf
  Stored <- MCStored
  Disks <- ScriptDisks
  Damaged = {}
  RfsFiles <- ShippedRfs
  RxeNames <- MCRxeNames
  UserLines <- ScriptUser
  MaxScriptDepth = 2
  BufCap = 2
  DumpLines = 1
  StackFrames = 4
INVARIANTS
  RunsWholeFile
CHECK_DEADLOCK FALSE
