CONSTANTS
  Chars = {a, Blank}
  Nul = Nul
  Newline = Newline
  LineFeed = Newline
  Other = Other
  Cap = 3
  Wrap = 256
  Careful = TRUE
  XLen = 6
  YLen = 3
  TabStop = 2
  Blank = Blank
  Tab = Tab
  Back = Back
  ClearScreen = ClearScreen
  ClearLine = ClearLine
  Mark = Mark
  c = c
  d = d
  Outputs <- SomeOutputs
SPECIFICATION ConsoleSpec
INVARIANTS
  LineShown
  TranscriptShown
PROPERTY LineSpec
