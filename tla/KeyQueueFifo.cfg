CONSTANTS
  N = 3
  Keys = {a, b}
  Garbage = Garbage
SPECIFICATION QueueSpec
PROPERTIES QueueIsFifo
