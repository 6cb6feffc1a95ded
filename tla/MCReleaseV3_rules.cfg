SPECIFICATION RulesSpec
CONSTRAINT FirstAnswerCounts
CONSTANTS
  NodesOf <- TreeNodes
  SizeOf <- TreeSize
  InferredTypeOf <- TreeTypeOf
  InferenceFails <- TreeIllTyped
  ResultOf <- TreeHolds
  Catalog <- TheCatalog
  MatchesSchema <- WellShaped
  PassesSemantics <- AcceptedOverCatalog
  KindOf <- TheKinds
  Answers <- TheAnswers
  Givens <- TheGivens
  Slips <- TheSlips
  Changes <- TheChanges
  MaxAttempts = 3
INVARIANTS
  EachAttemptIsJudgedOnItsOwn
  FeedbackIsOfTheLastAnswer
  DeliveryIsOfOnePiece
  HonestDeliveryIsPrepared
CHECK_DEADLOCK FALSE
