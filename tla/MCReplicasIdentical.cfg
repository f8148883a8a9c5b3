SPECIFICATION ReplicationSpec
CONSTANTS
  a1 = a1
  k1 = k1
  Size = 2
  Threads = {a1, k1}
  Replicas = {r1, r2}
  Workloads <- MCWorkloads
  MaxAppends = 2
INVARIANT ReplicasIdentical
CHECK_DEADLOCK FALSE
