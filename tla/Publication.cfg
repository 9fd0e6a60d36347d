SPECIFICATION Spec
CONSTANTS
  x = x
  y = y
  None = None
  LastWindow = 3
  Discovered <- MCDiscovered
  Projections <- MCProjections
INVARIANTS
  LatestRecorded DiffReproducible SeenCarried ReportsFollow
PROPERTY
  LatestAdvances
