SPECIFICATION Spec
CONSTANTS
  c1 = c1
  c2 = c2
  t1 = t1
  t2 = t2
  s1 = s1
  s2 = s2
  None = None
  Camera = Camera
  Card = Card
  Call <- OneCall
  Task <- OneTask
  Schedule <- OneSchedule
  Kinds <- StopKinds
  Ends <- Loops
  MaxEvents = 2
CHECK_DEADLOCK FALSE
INVARIANT NothingLingers
