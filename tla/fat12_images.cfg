SPECIFICATION Spec
CONSTANTS
  UpperOf <- Upper
  Allowed = {"A", "B"}
  StemLen = 2
  ExtLen = 1
  SectorBytes = 2
  EntryBytes = 1
  Typed <- TypedNames
  Limits <- MaxLens
INVARIANTS
  ReadFollowsChain
  SuccessIsComplete
PROPERTIES
  ReadReturns
CHECK_DEADLOCK FALSE
