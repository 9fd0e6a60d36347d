SPECIFICATION Spec
CONSTANTS
  a = a
  b = b
  ab = ab
  ep = ep
  eq = eq
  None = None
  Services = {a, b}
  Edges = {ab}
  Endpoints = {ep}
  From <- MCFrom
  To <- MCTo
  Provenance <- MCProvenance
  Windows <- MCWindows
  Written <- MCWritten
  Overlay = {}
  Shapes = {{a}, {a, ep}, {a, b, ab}, {a, b, ab, ep}}
  Supports = {1, 8}
  Latencies = {1}
  LastWindow = 4
  Faults = FALSE
PROPERTY RetentionRuns
