CONSTANTS
  c1 = c1
  c2 = c2
  Callers = {c1, c2}
  MaxBatch = 2
  MaxRows = 3
  MaxCalls <- TwoEach
  MaxPending = 3
SPECIFICATION ServicesSpec
INVARIANTS ServicesTypeOK NothingIsForgotten StopEndsEveryCall BarrierHolds
PROPERTIES ServicesImplementTheirPromise CallersReturn NewestIsServed
CHECK_DEADLOCK FALSE
