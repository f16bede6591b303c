CONSTANTS
  Projects = {p1}
  Mangled = {}
  Requests = {r1, r2, r3}
  None = None
SPECIFICATION Spec
PROPERTY RefusedWhileLoading
CHECK_DEADLOCK FALSE
