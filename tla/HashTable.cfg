CONSTANTS
  k1 = k1  k2 = k2  k3 = k3  k4 = k4
  Keys = {k1, k2, k3, k4}
  Objects = {o1, o2, o3, o4, o5}
  None = None
  BucketOf <- PairsCollide
SPECIFICATION Spec
INVARIANTS
  OwnedOnce
PROPERTIES
  DictionarySpec
