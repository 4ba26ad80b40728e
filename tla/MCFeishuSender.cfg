SPECIFICATION FairSenderSpec
CONSTANTS
  Messages = {m1, m2, m3}
  Threads = {m3}
  MaxRetries = 2
  MaxConcurrent = 1
INVARIANT DuplicatesNeedLostAnswers
PROPERTY AnswersEnd
CHECK_DEADLOCK FALSE
