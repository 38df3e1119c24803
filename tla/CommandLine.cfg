CONSTANTS
  e = e
  w = w
  LineFeed = LineFeed
  MaxRest = 5
  filename_max = 4
  Chars = {e, w}
  Blank = Blank
  Quote = Quote
  Backslash = Backslash
  Slash = Slash
  null = null
  NotYet = NotYet
  Refused = Refused
  Fault = Fault
  escape_char <- Meaning
  Commands <- Known
  Lines <- EnteredLines
SPECIFICATION CmdSpec
INVARIANTS
  WordsParsed
  OnePieceOpens
CHECK_DEADLOCK FALSE
