SPECIFICATION PeerReadersSpec
CONSTANTS
  EpochReaders = {r1, r2}
  EpochWriters = {x1}
  Advancers = {a1}
  Epochs = 4
  MaxPending = 1
  MaxVersion = 2
  MaxEpochs = 4
INVARIANT FreedIsUnread
CHECK_DEADLOCK FALSE
