SPECIFICATION ContextSpec
CONSTANTS
  Sessions = {s1, s2}
  MaxTurns = 3
  MaxSteps = 3
  MaxSkillCalls = 1
  KeepMessages = 4
  PruneKeep = 4
  Threshold = 7
SYMMETRY SessionSymmetry
INVARIANTS
  ToolResultsFollowTheirCalls
  QuestionIsAsked
  SessionsStaySeparate
  RawHoldsEveryMessage
CHECK_DEADLOCK FALSE
