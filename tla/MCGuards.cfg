CONSTANTS
  Sessions = {s1, s2}
  Texts = {"", "x"}
  Threshold = 2
  MaxCalls = 3
  MaxOutputs = 5
SPECIFICATION Spec
INVARIANTS RefusalsAreTraced CallsAreAudited RefusalsAreCounted ForgettingHidesNoLoop
CHECK_DEADLOCK FALSE
