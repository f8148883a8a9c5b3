SPECIFICATION MCSpec
CONSTANTS
  MaxOrders = 2
  Quantities = {3, 4}
  FillQuantities <- MCFillQuantities
  Prices = {3, 4}
  Word = 26
  PurgeAfter = 1
  MaxTime = 2
  m1 = m1
  l1 = l1
  l2 = l2
  Monitors = {m1}
  Leaders = {m1, l1, l2}
  ElectionTimeout = 1
  MaxMissed = 3
  MaxTerm = 2
  a1 = a1
  a2 = a2
  k1 = k1
  r1 = r1
  r2 = r2
  Size = 3
  Threads = {a1, a2, k1}
  Workloads <- MCWorkloads
  MaxAppends = 4
  Replicas = {r1, r2}
  o1 = o1
  o2 = o2
  o3 = o3
  RiskOrders = {o1, o2, o3}
  Deltas <- MCDeltas
  MaxPosition = 3
  NumSlices = 2
  MinOrder = 2
  MaxId = 5
  MaxGap = 1
  MaxFailures = 2
  u1 = u1
  u2 = u2
  u3 = u3
  Clients = {u1, u2, u3}
  BufferCapacity = 1
  InboxCapacity = 1
  MaxClients = 2
  MaxFrames = 2
INVARIANTS
  TypesOK
  FillAccounting PurgeQueueExact AverageInRange
  CommittedAreStored AckedAreKept AckedIsReadable
  ReplicasHoldCommitted AppliedInOrder
  OneAtATimeStaysInLimit LiquidationIsExact
  InSequence
  FramesInOrder
PROPERTIES
  TerminalIsFinal
  AlarmIsEarned SilenceIsNoticed
CHECK_DEADLOCK FALSE
