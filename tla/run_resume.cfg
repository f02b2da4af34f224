CONSTANTS
  Mode = "soft_gate"
  Policy = "auto_first_trained"
  PromotionEvery = 1
  RevertResetAfter = 2
  ProbationResetAfter = 1
  Top = 1
  StepUpAfter = 1
  FloorGames = 1
  MaxRows = 4
  MaxCrashes = 2
  MinBufferGames = 2
  AnchorEvery = 1
  AnchorLag = 1
SPECIFICATION EitherSpec
INVARIANTS TypeOK ResumableOnceCommitted LineageIsClean FilesMatchRows ReplacedBestsAreKept EachGameOnce CountNeverAhead AnchorsComparePastSelves ResetsAreExact RungsAreEarned GeneratorFollowsGates
PROPERTIES ImplementsLog RunsComplete
CHECK_DEADLOCK FALSE
