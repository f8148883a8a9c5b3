SPECIFICATION MCSpec
CONSTANTS
  t1 = t1
  t2 = t2
  t3 = t3
  Threads = {t1, t2, t3}
  c1 = c1
  c2 = c2
  w1 = w1
  w2 = w2
  Callers = {c1, c2}
  Witnesses = {w1, w2}
  Terms = {1, 2}
  Enabled = TRUE
  s1 = s1
  k1 = k1
  Signers = {s1}
  Keepers = {k1}
  Tokens = {"old", "new"}
  Duration = 1
  MaxTime = 2
  MaxEpoch = 2
  p1 = p1
  p2 = p2
  d1 = d1
  d2 = d2
  Producers = {p1, p2}
  Consumers = {d1, d2}
  Capacity = 2
  MaxOrders = 3
  r1 = r1
  r2 = r2
  x1 = x1
  a1 = a1
  EpochReaders = {r1, r2}
  EpochWriters = {x1}
  Advancers = {a1}
  Epochs = 4
  MaxPending = 1
  MaxVersion = 2
  MaxEpochs = 4

SYMMETRY Symmetry
INVARIANTS
  TypesOK
  LockdownRefuses OnePromotion GateMatchesState
  FencedIsDead SuccessIsGenuine
  ValidatedWasValid ClearedIsRefused
  TakenIsPut
  OnlyOlderReadersLose
PROPERTIES
  EndIsFinal
  ImplementsFifo
CHECK_DEADLOCK FALSE
