CONSTANTS
  Jobs = {j1, j2}
  Keys = {k1}
  TerminalKeys = {}
  Clients = {c1, c2}
  ConcurrentList <- NoAnnotators
  Sequential = {}
  Target = 1
  SearchWorkers = 1
  AnnotatorWorkers = 1
  Ttl = 0
  IdleTimeout = 1
  None = None
  a1 = a1
SPECIFICATION Safety
SYMMETRY Symmetric
INVARIANT TypeOK
INVARIANT LiveJobReachable
INVARIANT BlockingUndisturbed
PROPERTY ImplementsTable
