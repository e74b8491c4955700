SPECIFICATION FairSpec
CONSTANTS
  r1 = r1
  r2 = r2
  r3 = r3
  Requests <- TwoRequests
  MaxRetries = 1
  Auths <- AllModes
  Methods <- ReadsAndWrites
  ThrowingOwner = FALSE
  MaxTokens = 2
INVARIANTS
  WritesSentOnce
  DispatchesBounded
  OneRefreshAtATime
  OneRefreshPerPair
  RefreshesNeeded
PROPERTIES
  RequestsSettle
  RefreshRecovers
CHECK_DEADLOCK FALSE
