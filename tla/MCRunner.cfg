SPECIFICATION FairSpec
CONSTANTS
  k1 = k1  k2 = k2
  m1 = m1  m2 = m2  m3 = m3  m4 = m4
  None = None
  Keys <- MCKeys
  Messages <- MCMessages
  KeyOf <- MCKeyOf
  MaxQueueSize = 2
INVARIANTS
  WorkerOwnsKey
  QueueHasWorker
  NoOvertaking
  StoppedIsQuiet
PROPERTIES
  LossOnlyAtIdleExit
  QueuedIsTaken
  WorkersRetire
  ShutdownCompletes
  ImplementsKeyedQueues
CHECK_DEADLOCK FALSE
