CONSTANTS
  Nul = Nul
  Other = Other
  InitAlloc = 2
  XLen = 4
  YLen = 3
  TabStop = 2
  Blank = Blank
  LineFeed = LineFeed
  Tab = Tab
  Back = Back
  ClearScreen = ClearScreen
  ClearLine = ClearLine
  a = a
  Typed = {a}
  Bar = Bar
  NoFile = NoFile
  Files <- SomeFiles
  MaxChars = 2
  MaxLines = 2
  Wide = FALSE
  Again = TRUE
SPECIFICATION EditorSpec
INVARIANTS
  ScreenShowsText
PROPERTIES
  SavesTextUnlessJoined
  DocumentSpec
