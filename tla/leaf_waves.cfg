CONSTANTS
  s1 = s1
  s2 = s2
  s3 = s3
  s4 = s4
  Slots = {s1, s2, s3, s4}
  Workers = 2
  MaxBatch = 2
  Requests <- Three
  MaxEvals = 2
  MaxPlays = 3
  MaxPanics = 1
SPECIFICATION EitherSpec
INVARIANTS SchedulersTypeOK AnswersAreOwn SlotsComeBack
PROPERTIES CallsReturn SearchesOutliveErrors SchedulersImplementWaves
CHECK_DEADLOCK FALSE
