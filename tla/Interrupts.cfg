CONSTANTS
  Lines = {0, 1}
  SpuriousLine = 7
  MaxDepth = 2
  MaxStack = 3
  BootGuards = FALSE
  HandlerGuards = FALSE
SPECIFICATION FairSpec
INVARIANTS
  GuardExcludes
  GuardReopens
  InServiceWhileHandled
PROPERTIES
  Served
