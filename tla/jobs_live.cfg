CONSTANTS
  Jobs = {j1}
  Keys = {k1, k2}
  TerminalKeys = {k2}
  Clients = {c1}
  ConcurrentList <- OneAnnotator
  Sequential = {s1}
  Target = 2
  SearchWorkers = 1
  AnnotatorWorkers = 1
  Ttl = 0
  IdleTimeout = 1
  None = None
  a1 = a1
SPECIFICATION Spec
INVARIANT ResponseIsWhole
INVARIANT CloseExactlyOnce
PROPERTY EverySearchSettles
PROPERTY StopIsHonoured
PROPERTY FinishedIsForgotten
PROPERTY AnswersOnlySharpen
