SPECIFICATION Spec
CONSTANTS
  NodesOf <- TreeNodes
  SizeOf <- TreeSize
  InferredTypeOf <- TreeTypeOf
  ValueOf <- TreeValue
  ResultOf <- TreeHolds
  MaxRuns = 3
  Deliver <- BuildDelivery
  PassesGates <- MayWrite
  MayGenerate <- GenerationAllowed
  Scenarios <- TheScenarios
  Possible <- ThePossible
  Dossiers <- TheDossiers
INVARIANTS
  OnlyTheFrozenPlanIsGenerated
  ThePlanIsGenerated
  StoredIsWhole
  SummaryTellsTheTruth
  NoReportWithoutPayment
  GroupIsReleasedTogether
PROPERTIES
  AmountsNeverChangeADecision
CHECK_DEADLOCK FALSE
