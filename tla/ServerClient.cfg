CONSTANTS
  Messages = {m1, m2, m3}
  Receiver = Receiver
  MaxConnections = 2
SPECIFICATION FairSpec
INVARIANT SentAtMostOnce
INVARIANT NoCarryOver
INVARIANT NoneStranded
PROPERTY NotWedged
PROPERTY FailureEndsWait
PROPERTY ImplementsOutbox
CHECK_DEADLOCK FALSE
