CONSTANTS
  c1 = c1
  c2 = c2
  b1 = b1
  b2 = b2
  Clients = {c1, c2}
  Broadcasts = {b1, b2}
  None = None
SPECIFICATION FairSpec
CONSTRAINT HostBound
INVARIANT NeverDeaf
INVARIANT WorkspaceUsable
INVARIANT WatchesOnce
INVARIANT NoClientLost
INVARIANT InOrder
INVARIANT NoSendStuck
PROPERTY DisconnectQuits
PROPERTY BroadcastReaches
CHECK_DEADLOCK FALSE
