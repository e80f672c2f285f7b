SPECIFICATION Spec
CONSTANTS
  t1 = t1
  t2 = t2
  Free = Free
  NoRequest = NoRequest
  Garbage = Garbage
  NoLayout = NoLayout
  NoMetadata = NoMetadata
  Thread <- MCThread
  Request <- MCRequest
  Layout <- MCLayout
  Word = 1073741824
  Level <- MCLevel
  Leftover <- MCLeftover
  DefaultTileSize = 256
  Algorithm = "lz4"
  MaxRequestsInFlight = 2
  CudaBuild = TRUE
  MaxReads = 3
PROPERTY
  InitializeReturns
