SPECIFICATION RestedSpec
CONSTANTS
  RiskOrders = {o1, o2}
  Deltas <- MCDeltas
  MaxPosition = 3
  NumSlices = 2
  MinOrder = 2
INVARIANT FlatIsFlat
CHECK_DEADLOCK FALSE
