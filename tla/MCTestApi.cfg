SPECIFICATION Spec
CONSTANTS
  r1 = r1  r2 = r2  r3 = r3  r4 = r4
  k1 = k1  k2 = k2
  None = None
  Requests <- MCRequests
  Keys <- MCKeys
  KeyOf <- MCKeyOf
  Ids <- MCIds
  IdOf <- MCIdOf
  MaxQueueSize = 1
INVARIANTS
  OwnAnswer
  AnswersSuffice
CHECK_DEADLOCK FALSE
