SPECIFICATION FairSpec
CONSTANTS
  h1 = h1
  h2 = h2
  g1 = g1
  HttpRequests = {h1}
  GrpcRequests = {g1}
  Grpc = TRUE
  None = none
CHECK_DEADLOCK FALSE
PROPERTIES
  StopsInTime
