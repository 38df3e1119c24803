CONSTANTS
  Names = {a, b}
  Files = {1, 2, 3}
  Streams = {s1, s2}
  Bytes = {65}
  Closed = Closed
  MaxSize = 2
  MaxIndex = 3
SPECIFICATION Spec
INVARIANTS
  LockedWhileOpen
PROPERTIES
  EofAtEnd
  AppendKeeps
  FileAccessSpec
SYMMETRY Symmetry
CHECK_DEADLOCK FALSE
