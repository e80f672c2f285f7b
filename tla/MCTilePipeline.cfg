SPECIFICATION Spec
CONSTANTS
  k1 = k1
  k2 = k2
  Worker <- MCWorker
  Tile <- MCTile
  Word = 256
  Packed <- MCPacked
  SampleSize = 2
  LargeSize = 4
  MaxCalls = 1
  MaxWire = 1
  Name <- MCName
  Control <- MCControl
  Bad = Bad
  Absent = Absent
  Thrown = Thrown
  Null = Null
SYMMETRY Symmetry
INVARIANTS
  TypeOK
  AcceptedIsSent
  OnlyWholeMessages
  RatioOfCountedCalls
  ControlUnderstood
