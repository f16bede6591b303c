SPECIFICATION Spec
CONSTANTS
  Methods = {m1, m2}
  Name <- Overloads
  None = None
  MaxUpdates = 2
SYMMETRY MethodSymmetry
CONSTRAINT OneAtOnce
CONSTRAINT CallsBound
INVARIANT NewestInEffect
INVARIANT InterceptorKept
INVARIANT OneBody
INVARIANT NeverBackwards
CHECK_DEADLOCK FALSE
