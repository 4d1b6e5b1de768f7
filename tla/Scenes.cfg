SPECIFICATION FairSpec
CONSTANTS
  cam = cam
  desk = desk
  wide = wide
  split = split
  one = one
  two = two
  None = None
  Source <- OneSource
  Scene <- TwoScenes
  Known <- OneScene
  Actor <- TwoActors
  MaxRun = 4
  MaxEvents = 3
INVARIANTS TypeOK NoStray
PROPERTIES OneComposed SceneReachesProgram
CHECK_DEADLOCK FALSE
