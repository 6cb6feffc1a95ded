SPECIFICATION FairSpec
CONSTANTS
  Calls = {c1, c2}
  Keys = {k1, k2}
  Fingerprints = {f1, f2}
  Capacity = 1
  MaxAttempts = 2
  NoKey = NoKey
  NoTask = NoTask
PROPERTIES
  EveryCallAnswered
  ImplementsKeyBinding
CHECK_DEADLOCK FALSE
