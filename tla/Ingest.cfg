SPECIFICATION FairSpec
CONSTANTS
  one = one
  two = two
  None = None
  Actor <- MCActors
  Kinds <- AllKinds
  Failures = TRUE
  MaxChild = 5
  MaxEvents = 4
INVARIANTS TypeOK NoStray InTurn EndsClean DeletedIsGone
PROPERTY UnfedEnds
CHECK_DEADLOCK FALSE
