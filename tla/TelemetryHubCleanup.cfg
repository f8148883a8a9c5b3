SPECIFICATION HubSpec
CONSTANTS
  Clients = {u1, u2}
  BufferCapacity = 1
  InboxCapacity = 1
  MaxClients = 2
  MaxFrames = 2
INVARIANT CleanedUp
CHECK_DEADLOCK FALSE
