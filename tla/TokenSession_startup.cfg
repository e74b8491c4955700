SPECIFICATION FairSpec
CONSTANTS
  o1 = o1
  o2 = o2
  o3 = o3
  o4 = o4
  Seed = Seed
  None = None
  Calls <- ThreeCalls
  Kinds <- AllKinds
  Exclusive <- LoadOnly
  LoadFirst = TRUE
  Seeded = TRUE
  HasStorage = TRUE
  MaxGen = 2
  MaxRestarts = 1
INVARIANTS
  SingleRefresh
  NoRefreshTokenReuse
PROPERTIES
  NoRollback
  EveryCallSettles
  RefreshMakesWay
CHECK_DEADLOCK FALSE
