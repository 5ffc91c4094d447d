SPECIFICATION Spec
CONSTANTS
  Word <- MCWord
  MaxVars = 2
  HalfRange = 2
  IntOf <- MCIntOf
  Stored <- MCStored
  Disks <- SelfDisks
  Damaged = {}
  RfsFiles <- ShippedRfs
  RxeNames <- MCRxeNames
  UserLines <- SelfUser
  MaxScriptDepth = 3
  BufCap = 2
  DumpLines = 1
  StackFrames = 6
INVARIANTS
  ScriptsFitTheStack
CHECK_DEADLOCK FALSE
