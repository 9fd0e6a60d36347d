SPECIFICATION Spec
CONSTANTS
  a = a
  b = b
  ab = ab
  ep = ep
  eq = eq
  None = None
  Services = {a, b}
  Edges = {ab}
  Endpoints = {ep}
  From <- MCFrom
  To <- MCTo
  Provenance <- MCProvenance
  Windows <- MCWindows
  Written <- MCWritten
  Overlay = {ep}
  Shapes = {{a}, {a, ep}, {a, b, ab, ep}}
  Supports = {2}
  Latencies = {1}
  LastWindow = 5
  Faults = TRUE
INVARIANTS
  TypeOK ViewsNested RetiredLongUnseen RetiredBounded
PROPERTIES
  EntersBySight LeavesByMiss PublishedAdvances
