CONSTANTS
  N = 3
  Keys = {a, b}
  Garbage = Garbage
SPECIFICATION QueueFairSpec
INVARIANTS
  KeysConserved
PROPERTIES
  InOrderUnlessClobbered
  WaitEnds
