SPECIFICATION Spec
CONSTANTS
  r1 = r1
  r2 = r2
  Request <- TwoRequests
  Length = 3
  Upsets <- AllUpsets
  MaxStaged = 5
SYMMETRY Symmetry
INVARIANT FileIsWhole
INVARIANT AcknowledgedIsStaged
PROPERTY KeepsContract
