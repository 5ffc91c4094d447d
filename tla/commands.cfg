SPECIFICATION FairSpec
CONSTANTS
  Moments <- MCMoments
  Following <- MCFollowing
  Lead = 6
  Quiet = 1
  LogSize = 3
  MessageCap = 3
  PromptCap = 2
  Chars = {"a", "b", "c", "d", "i", "r"}
  Texts <- MCTexts
  Initial <- MCInitial
  Default <- MCDefault
  Packages = {"BASE", "NET"}
  Base = "BASE"
INVARIANTS
  TypeOK
  ShowsOneMoment
  ShowsTheTime
  TextsKept
PROPERTY
  ReadEnds
