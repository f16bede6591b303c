SPECIFICATION Spec
CONSTANTS
  Methods = {m1, m2}
  Name <- Distinct
  None = None
  MaxUpdates = 0
CHECK_DEADLOCK FALSE
INVARIANT HandlerInvoked
