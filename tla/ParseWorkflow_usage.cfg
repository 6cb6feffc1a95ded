SPECIFICATION Spec
CONSTANTS
  MaxRetries = 2
  BaseDelay = 1
  MaxDelay = 3
  Answers <- AllAnswers
INVARIANTS
  AllReturnedUsageIsCounted
CHECK_DEADLOCK FALSE
