CONSTANTS
  Files = {f1}
  Timers = {t1, t2}
  None = None
  Event = Event
  MaxWrites = 2
SPECIFICATION FairSpec
INVARIANT NeverBlind
INVARIANT NotedIsReported
PROPERTY EveryWriteReported
PROPERTY StopsAfterDispose
CHECK_DEADLOCK FALSE
