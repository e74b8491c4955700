SPECIFICATION Spec
CONSTANTS
  o1 = o1
  o2 = o2
  o3 = o3
  o4 = o4
  Seed = Seed
  None = None
  Calls <- ThreeCalls
  Kinds <- AllKinds
  Exclusive <- LoadAndLogin
  LoadFirst = FALSE
  Seeded = TRUE
  HasStorage = TRUE
  MaxGen = 2
  MaxRestarts = 1
SYMMETRY CallSymmetry
INVARIANTS
  LogoutClears
CHECK_DEADLOCK FALSE
