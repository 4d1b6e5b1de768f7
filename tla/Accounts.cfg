SPECIFICATION Spec
CONSTANTS
  u1 = u1
  u2 = u2
  u3 = u3
  admin = admin
  sam = sam
  t1 = t1
  t2 = t2
  k1 = k1
  k2 = k2
  one = one
  two = two
  None = None
  User <- ThreeUsers
  Name <- Names
  AdminName = admin
  Role <- Roles
  Token <- Tokens
  Key <- Keys
  Actor <- TwoActors
  SystemToken = TRUE
  MaxEvents = 5
SYMMETRY Symmetry
INVARIANTS TypeOK SessionOwned SetupOnce
PROPERTY AdminRemains
CHECK_DEADLOCK FALSE
