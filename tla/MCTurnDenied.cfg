SPECIFICATION Spec
CONSTANT MaxCalls = 3
INVARIANT DeniedCallNotRun
CHECK_DEADLOCK FALSE
