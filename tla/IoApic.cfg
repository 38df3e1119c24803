CONSTANTS
  Madts <- SomeMadts
  LapicId = 0
  QuietBoot = TRUE
SPECIFICATION ApicSpec
INVARIANTS
  RightHandler
PROPERTIES
  Served
  QuitEndsDump
CHECK_DEADLOCK FALSE
