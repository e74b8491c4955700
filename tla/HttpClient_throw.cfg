SPECIFICATION FairSpec
CONSTANTS
  r1 = r1
  r2 = r2
  r3 = r3
  Requests <- TwoRequests
  MaxRetries = 1
  Auths <- UserMode
  Methods <- Reads
  ThrowingOwner = TRUE
  MaxTokens = 2
PROPERTIES
  RefreshRecovers
CHECK_DEADLOCK FALSE
