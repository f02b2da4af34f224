CONSTANTS
  Mode = "soft_gate"
  Policy = "auto_first_trained"
  PromotionEvery = 1
  RevertResetAfter = 1
  ProbationResetAfter = 1
  Top = 1
  StepUpAfter = 1
  FloorGames = 1
  MaxRows = 2
  MaxCrashes = 1
  MinBufferGames = 0
  AnchorEvery = 1
  AnchorLag = 1
SPECIFICATION EitherSpec
CHECK_DEADLOCK FALSE
INVARIANT SurvivesFirstIteration
