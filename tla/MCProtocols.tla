---------------------------- MODULE MCProtocols ----------------------------
(* The modules that fit a small instance each and have nothing in common:   *)
(* each behaviour exercises one part and leaves the others in their initial *)
(* states.  The log serves two parts, alone and under the replicas.         *)
EXTENDS OrderStateMachine, LeaderDetection, Replication, RiskGate, BookHealer,
        TelemetryHub
CONSTANTS a1, a2, k1, r1, r2, m1, l1, l2, o1, o2, o3, u1, u2, u3

VARIABLE part

\* Fill quantities include those apply_fill refuses.
MCFillQuantities == {-1, 0, 1, 2, 4}
MCDeltas == {-4, 2, 3}

\* Two appenders with failing checksums, one of which also commits, beside a
\* committer; one appender beside a committer, past the end of the ring; a
\* thread that does everything in turn.
LogWorkloads ==
  { [append |-> {a1, a2}, commit |-> {a2, k1}, truncate |-> {}, checksums |-> BOOLEAN],
    [append |-> {a1}, commit |-> {k1}, truncate |-> {}, checksums |-> {TRUE}],
    [append |-> {a1}, commit |-> {a1}, truncate |-> {a1}, checksums |-> {TRUE}] }
\* Compaction in the background, or none and checksums that may fail.
Compacted == [append |-> {a1}, commit |-> {a1}, truncate |-> {k1}, checksums |-> {TRUE}]
ReplicationWorkloads ==
  {Compacted, [append |-> {a1}, commit |-> {a1}, truncate |-> {}, checksums |-> BOOLEAN]}
MCWorkloads == LogWorkloads \union ReplicationWorkloads

\* Three appends and one compaction; a log that starts again is not followed.
ReplicationBound ==
  /\ calls' <= 3 /\ goal'[a1] <= 3 /\ ~restarted
  /\ snapshot.index = 0 \/ compactor' = compactor

\* Clients are interchangeable: they come in one order.
ClientsInTurn ==
  /\ socket'[u2] # "none" => socket'[u1] # "none"
  /\ socket'[u3] # "none" => socket'[u2] # "none"

ReplicationOnly == <<replicaVars, compactorVars, restarted>>
All == <<part, vars, detectionVars, replicationVars, riskVars, bookVars, hubVars>>

MCInit ==
  /\ part \in {"orders", "detection", "log", "replication", "risk", "book", "telemetry"}
  /\ Init /\ DetectionInit /\ ReplicationInit /\ RiskInit /\ BookInit /\ HubInit
  /\ workload \in CASE part = "log" -> LogWorkloads
                    [] part = "replication" -> ReplicationWorkloads
                    [] OTHER -> {Compacted}

MCNext ==
  /\ UNCHANGED part
  /\ \/ /\ part = "orders" /\ Next
        /\ UNCHANGED <<detectionVars, replicationVars, riskVars, bookVars, hubVars>>
     \/ /\ part = "detection" /\ DetectionNext
        /\ UNCHANGED <<vars, replicationVars, riskVars, bookVars, hubVars>>
     \/ /\ part = "log" /\ LogNext
        /\ UNCHANGED <<vars, detectionVars, ReplicationOnly, riskVars, bookVars, hubVars>>
     \/ /\ part = "replication" /\ ReplicationNext /\ ReplicationBound
        /\ UNCHANGED <<vars, detectionVars, riskVars, bookVars, hubVars>>
     \/ /\ part = "risk" /\ RiskNext
        /\ UNCHANGED <<vars, detectionVars, replicationVars, bookVars, hubVars>>
     \/ /\ part = "book" /\ BookNext
        /\ UNCHANGED <<vars, detectionVars, replicationVars, riskVars, hubVars>>
     \/ /\ part = "telemetry" /\ HubNext /\ ClientsInTurn
        /\ UNCHANGED <<vars, detectionVars, replicationVars, riskVars, bookVars>>

\* The fairness of LeaderDetection, in the behaviours that exercise it.
MCFairness ==
  part = "detection" => DetectionFairness

MCSpec == MCInit /\ [][MCNext]_All /\ MCFairness

\* Every variable of every part stays in the states its module names.
TypesOK ==
  /\ TypeOK /\ DetectionTypeOK /\ ReplicationTypeOK /\ RiskTypeOK /\ BookTypeOK
  /\ HubTypeOK
=============================================================================
