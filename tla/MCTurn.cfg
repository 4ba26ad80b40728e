SPECIFICATION Spec
CONSTANT MaxCalls = 3
INVARIANTS
  DeniedTurnIsRefused
  DenialEndsTheStep
  ChatMatchesSession
  TurnIsAnswered
  TraceIsClosed
CHECK_DEADLOCK FALSE
