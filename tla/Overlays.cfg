SPECIFICATION Spec
CONSTANTS
  a = a
  b = b
  c = c
  call = call
  other = other
  route = route
  e1 = e1
  None = None
  Empty = Empty
  Invalid = Invalid
  Documents <- MCDocuments
  Observed <- MCObserved
  OverlayFiles <- MCOverlayFiles
  Legacy <- MCLegacy
INVARIANTS
  LastWins Traceable RefusedForCause
