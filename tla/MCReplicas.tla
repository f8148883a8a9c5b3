----------------------------- MODULE MCReplicas -----------------------------
(* Replication with a thread that appends and another that commits; nothing *)
(* is compacted.                                                            *)
EXTENDS Replication
CONSTANTS a1, k1
MCWorkloads ==
  {[append |-> {a1}, commit |-> {k1}, truncate |-> {}, checksums |-> {TRUE}]}
=============================================================================
