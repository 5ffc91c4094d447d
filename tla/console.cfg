SPECIFICATION Spec
CONSTANTS
  Rows = 2
  Cols = 3
  LineCap = 4
  Chars <- Names
  Typable <- Stars
  HostBytes <- Sent
  ShiftOf <- Same
  Prompt <- Sign
  PauseText <- Sign
  Outputs <- Answers
  Colors <- TwoColors
  Grey = "grey"
  Fifo = 1
  Keys = 1
INVARIANTS
  TypeOK
  ScreenShowsText
  Mirrored
  OneColor
  EchoShowsLine
  ShiftNotStuck
