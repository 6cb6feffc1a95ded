SPECIFICATION FairSpec
CONSTANTS
  MaxRetries = 3
  BaseDelay = 1
  MaxDelay = 2
  Answers <- AllAnswers
INVARIANTS
  TypeOK
  AuditTellsWhatHappened
  RetryBudget
  ResultIsTheLastGoodCandidate
  FeedbackIsFresh
PROPERTIES
  RefinesTask
  ParseEnds
CHECK_DEADLOCK FALSE
