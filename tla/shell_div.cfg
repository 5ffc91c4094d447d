SPECIFICATION Spec
CONSTANTS
  Word <- MCWord
  MaxVars = 2
  HalfRange = 2
  IntOf <- MCIntOf
  Stored <- MCStored
  Disks <- VarDisks
  Damaged = {}
  RfsFiles <- ShippedRfs
  RxeNames <- MCRxeNames
  UserLines <- VarUser
  MaxScriptDepth = 1
  BufCap = 3
  DumpLines = 1
  StackFrames = 2
INVARIANTS
  DivisionReported
