--------------------------- MODULE MCSharedMemory ---------------------------
(* The modules whose steps are single accesses to memory that threads share *)
(* and that have nothing else in common: each behaviour exercises one part  *)
(* and leaves the others in their initial states.                           *)
EXTENDS LiveFire, StonithFencer, LeaseGate, OrderQueue, EpochReclaimer, TLC
CONSTANTS t1, t2, t3, c1, c2, w1, w2, s1, k1, p1, p2, d1, d2, r1, r2, x1, a1

VARIABLE part

Parts == {"live fire", "fencer", "lease gate", "order queue", "epochs"}
All == <<liveVars, vars, leaseVars, queueVars, epochVars>>

MCInit ==
  /\ part \in Parts
  /\ part # "fencer" => term = [c \in Callers |-> 1]
  /\ LiveInit /\ Init /\ LeaseInit /\ QueueInit /\ EpochInit

MCNext ==
  /\ UNCHANGED part
  /\ \/ /\ part = "live fire" /\ LiveNext
        /\ UNCHANGED <<vars, leaseVars, queueVars, epochVars>>
     \/ /\ part = "fencer" /\ Next
        /\ UNCHANGED <<liveVars, leaseVars, queueVars, epochVars>>
     \/ /\ part = "lease gate" /\ LeaseNext
        /\ UNCHANGED <<liveVars, vars, queueVars, epochVars>>
     \/ /\ part = "order queue" /\ QueueNext
        /\ UNCHANGED <<liveVars, vars, leaseVars, epochVars>>
     \/ /\ part = "epochs" /\ EpochNext
        /\ UNCHANGED <<liveVars, vars, leaseVars, queueVars>>

MCSpec == MCInit /\ [][MCNext]_<<part, All>>

Symmetry == Permutations(Threads)

\* Every variable of every part stays in the states its module names.
TypesOK ==
  /\ LiveTypeOK /\ TypeOK /\ LeaseTypeOK /\ QueueTypeOK /\ EpochTypeOK
=============================================================================
