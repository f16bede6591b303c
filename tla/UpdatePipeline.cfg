CONSTANTS
  cs = cs
  razor = razor
  Files = {cs, razor}
  Razor = {razor}
  MaxJobs = 3
  None = None
  MaxVersion = 2
  Broken <- MCBroken
SPECIFICATION FairSpec
CONSTRAINT EditBound
INVARIANT PreviousUsable
INVARIANT RefusedOnlyIfDelayed
INVARIANT InStep
INVARIANT SavedIsApplied
PROPERTY JobsComplete
PROPERTY NeverBackwards
PROPERTY WorkspaceForward
CHECK_DEADLOCK FALSE
