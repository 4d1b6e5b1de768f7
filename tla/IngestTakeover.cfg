SPECIFICATION FairSpec
CONSTANTS
  one = one
  two = two
  None = None
  Actor <- MCActors
  Kinds <- Publishers
  Failures = FALSE
  MaxChild = 4
  MaxEvents = 3
INVARIANT StillNormalized
CHECK_DEADLOCK FALSE
