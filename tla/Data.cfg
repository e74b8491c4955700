SPECIFICATION MCSpec
CONSTANTS
  StringTexts <- Plain
  NumberTexts <- Numerals
  MaxDepth = 7
  MaxElements = 5
  MaxListed = 8
  SmallBody = 2
  NoBody = NoBody
  Normalized <- NormalizeArrays
  OverrideChoices <- SomeOverrides
  SportChoices <- OneSport
  RouteIdChoices <- OneOrTwoRoutes
  MaxScenarios = 2
INVARIANTS
  ReadsAsDeclared
  PatternsAreWrappers
  AnswersAreHonest
  SuccessIsEvidence
  FixturesAgree
  GapsAreReal
CHECK_DEADLOCK FALSE
