SPECIFICATION Spec
CONSTANTS
  MaxOrders = 1
  Quantities = {2}
  FillQuantities = {1, 2}
  Prices = {1}
  Word = 16
  PurgeAfter = 1
  MaxTime = 2
  SeqHistory = 2
  CancelTimeout = 1
  ResolverTimeout = 2
  MaxHistory = 4
  Feeds = {"chaotic"}
  MaxReports = 4
  MaxDeliveries = 2
  MaxCancels = 0
  MaxEvents = 4
INVARIANT FillsOnce
CHECK_DEADLOCK FALSE
