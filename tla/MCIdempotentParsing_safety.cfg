SPECIFICATION Spec
CONSTANTS
  Calls = {c1, c2, c3}
  Keys = {k1, k2}
  Fingerprints = {f1, f2}
  Capacity = 1
  MaxAttempts = 1
  NoKey = NoKey
  NoTask = NoTask
SYMMETRY Symmetry
CONSTRAINT OnlyCallsWithKey
INVARIANTS
  TypeOK
  NoForeignResult
  SingleFlight
  ExactReplay
  OrphansStayOut
  NeighbourCancellationIsInvisible
CHECK_DEADLOCK FALSE
