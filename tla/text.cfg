SPECIFICATION Spec
CONSTANTS
  UpperOf <- MCUpperOf
  Allowed = {"A", "B", "R"}
  StemLen = 3
  ExtLen = 1
  LineCap = 4
  HalfRange = 128
  DecCap = 4
  HexCount = 2
  RfsDrive <- MCRfsDrive
  RfsNames <- MCRfsNames
  Keyboards <- MCKeyboards
  MaxLength = 5
INVARIANTS
  HostNamesFind
  TypedNamesFindTheirFile
  LinesKept
  WordsMatch
  CountsExact
  PrintReadsBack
CHECK_DEADLOCK FALSE
