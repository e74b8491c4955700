SPECIFICATION Spec
CONSTANTS
  o1 = o1
  o2 = o2
  o3 = o3
  o4 = o4
  Seed = Seed
  None = None
  Calls <- FourCalls
  Kinds <- AllKinds
  Exclusive <- AllButRefresh
  LoadFirst = FALSE
  Seeded = TRUE
  HasStorage = TRUE
  MaxGen = 2
  MaxRestarts = 1
SYMMETRY CallSymmetry
INVARIANTS
  StorageCurrent
  OneRefreshBehind
  LogoutClears
PROPERTIES
  LoginPrevails
CHECK_DEADLOCK FALSE
