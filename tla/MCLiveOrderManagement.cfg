SPECIFICATION Spec
CONSTANTS
  MaxOrders = 2
  Quantities = {2}
  FillQuantities = {1, 2}
  Prices = {1}
  Word = 16
  PurgeAfter = 1
  MaxTime = 2
  SeqHistory = 2
  CancelTimeout = 1
  ResolverTimeout = 2
  MaxHistory = 4
  Feeds = {"ordered", "reordered", "unstamped"}
  MaxReports = 4
  MaxDeliveries = 2
  MaxCancels = 2
  MaxEvents = 4
INVARIANTS
  FillsMirrored
  EndsMirrored
  PendingCancelsKnown
  FillWins
  DropsOnlyAfterCancel
PROPERTY ImplementsTracker
CHECK_DEADLOCK FALSE
