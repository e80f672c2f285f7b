SPECIFICATION Spec
CHECK_DEADLOCK FALSE
CONSTANTS
  SIGINT = SIGINT
  SIGTERM = SIGTERM
  Signals <- MCTwoSignals
  Document <- MCDocument
  NoFile = NoFile
  Modulus <- MCModulus
INVARIANTS
  TypeOK
  RunningMeansComplete
  ContextOutlivesThread
  ReleasedOnExit
  AbortedByOwnJoin
  OnlyNestedStopsWait
  WholeConfig
  ReloadsAsSaved
PROPERTY
  ShutdownFinishes
