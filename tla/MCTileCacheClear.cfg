SPECIFICATION Spec
CONSTANTS
  k1 = k1
  k2 = k2
  k3 = k3
  n1 = n1
  n2 = n2
  n3 = n3
  small = small
  medium = medium
  oversize = oversize
  NoData = NoData
  NoNode = NoNode
  Freed = Freed
  Idle = Idle
  Key <- MCKey
  Node <- MCNode
  Data <- MCData
  SizeOf <- MCSizeOf
  MaxEntries = 2
  MaxBytes = 3
  CounterMod = 2
  MaxNow = 1
PROPERTY
  ClearResetsStats
