SPECIFICATION Spec
CONSTANTS
  r1 = r1
  r2 = r2
  Requests = {r1, r2}
  Ticker = ticker
  Closer = closer
  None = none
  Batches <- OneSpan
  WindowSize = 2
  MaxInMemorySpans = 2
  LateDrop = TRUE
  Reconciling = FALSE
  MaxTime = 3
PROPERTIES
  EbpfSpansKept
