SPECIFICATION Spec
CONSTANTS
  Callers = {c1, c2}
  Types = {int, string}
  None = None
  MaxDocuments = 2
  MaxInfos = 4
SYMMETRY GenericSymmetry
CONSTRAINT StackBound
INVARIANT NewestStored
INVARIANT NewestRuns
INVARIANT OwnType
CHECK_DEADLOCK FALSE
