SPECIFICATION Spec
CONSTANTS
  MaxRetries = 2
  BaseDelay = 1
  MaxDelay = 3
  Answers <- AllAnswers
INVARIANTS
  FeedbackIsAboutTheCandidateSent
CHECK_DEADLOCK FALSE
