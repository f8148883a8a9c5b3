------------------------- MODULE MCLeaderElection -------------------------
(* LeaderElection on three interchangeable nodes.                           *)
EXTENDS LeaderElection, TLC
CONSTANTS n1, n2, n3

Symmetry == Permutations(Nodes)
=============================================================================
