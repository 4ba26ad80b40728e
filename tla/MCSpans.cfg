SPECIFICATION Spec
CONSTANTS
  MaxTurns = 2
  MaxLlm = 3
  MaxTools = 3
  MaxFailed = 1
  Chunk = 4
INVARIANTS
  SpansAreClosed
  OwnTrace
  EventsLeaveTheBuffer
PROPERTY ParentsAreOpen
CHECK_DEADLOCK FALSE
