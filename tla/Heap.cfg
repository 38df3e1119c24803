CONSTANTS
  NumPages = 4
  PageSize = 24
  PageCount = 1
  Sizes = {1, 6, 16}
  MaxLive = 3
SPECIFICATION Spec
INVARIANTS
  Layout
  ClientsOwnTheirBlocks
  UsageExact
CHECK_DEADLOCK FALSE
PROPERTIES
  GrowsOnlyWhenFull
