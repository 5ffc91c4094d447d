SPECIFICATION Spec
CONSTANTS
  Word <- MCWord
  MaxVars = 2
  HalfRange = 2
  IntOf <- MCIntOf
  Stored <- MCStored
  Disks <- ShippedDisks
  Damaged = {}
  RfsFiles <- ShippedRfs
  RxeNames <- MCRxeNames
  UserLines <- ShippedUser
  MaxScriptDepth = 3
  BufCap = 2
  DumpLines = 1
  StackFrames = 5
INVARIANTS
  RunsRxeByName
