CONSTANTS
  s1 = s1
  s2 = s2
  s3 = s3
  s4 = s4
  Slots = {s1, s2, s3, s4}
  Workers = 2
  MaxBatch = 2
  Requests <- Three
  MaxEvals = 1
  MaxPlays = 2
  MaxPanics = 1
SPECIFICATION Safety
INVARIANT EveryFailureReturnsCapacity
CHECK_DEADLOCK FALSE
