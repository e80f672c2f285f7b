SPECIFICATION Spec
CHECK_DEADLOCK FALSE
CONSTANTS
  SIGINT = SIGINT
  SIGTERM = SIGTERM
  Signals <- MCOneSignal
  Document <- MCOneDocument
  NoFile = NoFile
  Modulus <- MCModulus
PROPERTY
  SignalStops
