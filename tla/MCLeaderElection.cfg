SPECIFICATION Spec
CONSTANTS
  n1 = n1
  n2 = n2
  n3 = n3
  Nodes = {n1, n2, n3}
  MaxTerm = 2
  MaxRestarts = 1
SYMMETRY Symmetry
INVARIANTS
  ElectionSafety
  VotesAreHonest
  WinnersHaveQuorum
PROPERTIES ImplementsElections
CHECK_DEADLOCK FALSE
