SPECIFICATION Spec
CONSTANTS
  Calls = {c1, c2, c3, c4}
  Keys = {k1, k2, k3}
  Fingerprints = {f1}
  Capacity = 2
  MaxAttempts = 1
  NoKey = NoKey
  NoTask = NoTask
SYMMETRY Symmetry
INVARIANTS
  LeastRecentlyUsedGoes
CONSTRAINT OnlyCacheTraffic
CHECK_DEADLOCK FALSE
