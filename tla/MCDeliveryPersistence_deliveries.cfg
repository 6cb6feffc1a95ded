SPECIFICATION Spec
SYMMETRY Symmetry
CONSTRAINT Apart
CONSTANTS
  Workers = {w1, w2}
  Readers = {r1}
  Recoverers = {x1, x2}
  Versions = {"v", "again", "h"}
  Historical = "h"
  Deliveries <- Releases
  Candidates = {"c1", "c2"}
  Absent = Absent
  MaxLegacy = 1
  MaxDamage = 1
INVARIANTS
  ReaderSeesOneDelivery
  PromiseIsKept
  ConflictIsReal
  CountsChangedIsStored
  RecoveryIsKept
PROPERTIES
  ImplementsRegister
