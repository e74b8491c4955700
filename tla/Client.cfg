SPECIFICATION ClientSpec
CONSTANTS
  r1 = r1
  o1 = o1
  o2 = o2
  o3 = o3
  Seed = Seed
  None = None
  Requests <- OneRequest
  MaxRetries = 0
  Auths <- UserMode
  Methods <- Reads
  ThrowingOwner = FALSE
  MaxTokens = 3
  Calls <- ThreeCalls
  Kinds <- AllKinds
  Exclusive <- LoadOnly
  Seeded = TRUE
  HasStorage = TRUE
  MaxGen = 2
SYMMETRY Symmetries
INVARIANTS
  RefreshAnswers
PROPERTIES
  ImplementsHttpClient
CHECK_DEADLOCK FALSE
