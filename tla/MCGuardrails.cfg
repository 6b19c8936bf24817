SPECIFICATION GuardSpec
CONSTANTS
  Facts <- SmallFacts
  Answer <- SmallAnswers
  Options <- SmallOptions
  Failed = Failed
  Nothing = Nothing
INVARIANTS
  GuardTypeOK
  EveryFindingStated
  SuppressionIsBacked
  HeuristicStands
  ReplayAgrees
