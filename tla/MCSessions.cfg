SPECIFICATION Spec
CONSTANTS
  k1 = k1  k2 = k2
  t1 = t1  t2 = t2  t3 = t3
  n1 = n1  v1 = v1  c1 = c1
  None = None
  Keys <- MCKeys
  Turns <- MCTurns
  NewCmds <- MCNewCmds
  VerboseCmds <- MCVerboseCmds
  ClearCalls <- MCClearCalls
  KeyOf <- MCKeyOf
  MaxActiveSessions = 1
  MaxCrashes = 1
  MaxFaults = 2
INVARIANTS
  TwoWritersNeedTraffic
  CountTracksFile
  WaitersAreServed
PROPERTIES
  SessionsSurvive
CHECK_DEADLOCK FALSE
