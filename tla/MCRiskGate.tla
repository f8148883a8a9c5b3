----------------------------- MODULE MCRiskGate -----------------------------
(* RiskGate on two orders, one of which sells.                              *)
EXTENDS RiskGate
MCDeltas == {-2, 3}
=============================================================================
