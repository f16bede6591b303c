SPECIFICATION Spec
CONSTANTS
  Methods = {m1}
  Name <- Distinct
  None = None
  MaxUpdates = 1
CHECK_DEADLOCK FALSE
INVARIANT AttachedAnyway
