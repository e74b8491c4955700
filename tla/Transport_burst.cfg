SPECIFICATION TransportSpec
CONSTANTS
  r1 = r1
  r2 = r2
  r3 = r3
  Requests <- TwoRequests
  MaxRetries = 0
  Auths <- UserMode
  Methods <- Reads
  ThrowingOwner = FALSE
  MaxTokens = 2
  MaxRequests = 1
  Window = 2
SYMMETRY RequestSymmetry
INVARIANTS
  DispatchRate
