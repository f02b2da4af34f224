CONSTANTS
  Jobs = {j1}
  Keys = {k1}
  TerminalKeys = {}
  Clients = {c1}
  ConcurrentList <- OneAnnotator
  Sequential = {s1}
  Target = 1
  SearchWorkers = 1
  AnnotatorWorkers = 1
  Ttl = 0
  IdleTimeout = 1
  None = None
  a1 = a1
SPECIFICATION Safety
PROPERTY WaitsToDeadline
