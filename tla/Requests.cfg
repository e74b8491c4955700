SPECIFICATION RequestsSpec
CONSTANTS
  k1 = k1
  w1 = w1
  w2 = w2
  d1 = d1
  m1 = m1
  o1 = o1
  o2 = o2
  Items <- OneItem
  Weeks <- TwoWeeks
  Dates <- OneDate
  MaxSegments = 3
  Undefined = Undefined
  Blank = Blank
  Alias = Alias
  Moves <- OneMove
  MaxMoves = 2
  Object = Object
  Contents <- TwoContents
  Http = Http
  None = None
SYMMETRY Symmetries
INVARIANTS
  TypeOK
  OneCoverage
  WaiverHasTeam
  FrontendGuards
  FrontendWrites
  SentAsCalled
  CoverageStated
PROPERTIES
  PathsFixed
