SPECIFICATION Spec
CONSTANTS
  n1 = n1
  n2 = n2
  Nodes = {n1, n2}
  MaxTerm = 5
  ElectionTimeout = 0
  MaxMissed = 1
  LeaseDuration = 2
SYMMETRY Symmetry
INVARIANTS LeasesAreUnique
PROPERTY LeasesFollowFences
CHECK_DEADLOCK FALSE
