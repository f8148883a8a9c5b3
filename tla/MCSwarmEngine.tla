--------------------------- MODULE MCSwarmEngine ---------------------------
(* SwarmEngine on two nodes.  A leader is late after one tick and one late  *)
(* check, a lease lasts longer than that, as 500 ms do against 150 ms.      *)
EXTENDS SwarmEngine, TLC
CONSTANTS n1, n2
Symmetry == Permutations(Nodes)
=============================================================================
