\* A node that may answer twice or stray, and a connection that may be lost.
CONSTANTS
  Publishes = {p1, p2, p3}
  MaxReplies = 2
  MayBreak = TRUE
  MayStray = TRUE
SPECIFICATION Spec
INVARIANTS PublishCallbackOnce SuccessIsFinal AnswersAreExpected
CHECK_DEADLOCK FALSE
