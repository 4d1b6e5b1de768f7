SPECIFICATION FairSpec
CONSTANTS
  cam = cam
  desk = desk
  wide = wide
  split = split
  one = one
  two = two
  None = None
  Source <- TwoSources
  Scene <- OneScene
  Known <- OneScene
  Actor <- TwoActors
  MaxRun = 3
  MaxEvents = 2
PROPERTY LiveEditsShow
CHECK_DEADLOCK FALSE
