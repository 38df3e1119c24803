CONSTANTS
  Keys <- SomeKeys
  Bytes <- Set1
  TapKeys = {"PAUSE"}
  N = 1
  MaxTyped = 2
SPECIFICATION FairSpec
INVARIANTS
  ModifiersFollow
PROPERTIES
  DecodesWhatWasTyped
  ReadAsTyped
  Decoded
