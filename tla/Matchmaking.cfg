CONSTANTS
  Projects = {p1, p2}
  Mangled = {p2}
  Requests = {r1, r2}
  None = None
SPECIFICATION FairSpec
INVARIANT AddressOfProject
INVARIANT NoOrphanFlag
PROPERTY RequestsComplete
PROPERTY DeadRemoved
PROPERTY ImplementsDirectory
CHECK_DEADLOCK FALSE
