SPECIFICATION Spec
CONSTANTS
  Requests = {r1, r2, r3}
  Closers = {c1, c2}
  Sizes = {0, 1, 2}
  MaxInMemorySpans = 3
  None = none
INVARIANTS
  TypeOK PublishedWhole SameOutcome
PROPERTIES
  Refines
