SPECIFICATION Spec
CONSTANTS
  r1 = r1
  r2 = r2
  Requests = {r1, r2}
  Ticker = ticker
  Closer = closer
  None = none
  Batches <- MixedBatches
  WindowSize = 2
  MaxInMemorySpans = 1
  LateDrop = TRUE
  Reconciling = TRUE
  MaxTime = 3
SYMMETRY Interchangeable
INVARIANTS
  InOrder DiffBase Backed OneFate Accounting ArrivedInWindow CleanShutdown
PROPERTIES
  Refines
