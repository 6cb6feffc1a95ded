SPECIFICATION Spec
CONSTANTS
  Workers = {w1, w2}
  Facts = {1, 2, 3}
  Payloads = {"a", "b"}
  Exports <- FourReleases
  Absent = Absent
INVARIANTS
  SuccessStaysTrue
  ReportsAreNested
  OneExportNeverConflicts
