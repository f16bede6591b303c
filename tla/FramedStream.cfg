CONSTANTS
  Bodies <- MCBodies
  Parts <- MCParts
  StreamLength = 3
  Damage = {0, 190}
  MaxFaults = 2
SPECIFICATION Spec
INVARIANT WholeDelivered
INVARIANT NothingInvented
INVARIANT ReadyBetween
CHECK_DEADLOCK FALSE
