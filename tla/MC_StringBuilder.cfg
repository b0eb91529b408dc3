SPECIFICATION Spec
CONSTANTS
  Requests <- MCRequests
  MaxAppend = 3
  MaxFactor = 8
  MaxCapacity = 16
INVARIANTS TypeOK OneByteBehind TextIsWhole
PROPERTY CutAtTheEdge
