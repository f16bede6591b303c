CONSTANTS
  Messages = {m1, m2, m3}
  Receiver = Receiver
  MaxConnections = 1
SPECIFICATION Spec
INVARIANT NoOverflow
CHECK_DEADLOCK FALSE
