SPECIFICATION PeersSpec
CONSTANTS
  web = web
  shop = shop
  store = store
  alt = alt
  here = here
  there = there
  obi = obi
  generic = generic
  get = get
  query = query
  D = D
  L = L
  A = A
  None = None
  Batches <- MCBatches
  Services = {web, shop, store, alt}
  HttpOps = {get}
  GrpcOps = {}
  Scoped = {D}
  Query <- MCQuery
  ObiDomains = {obi}
INVARIANTS
  LinksExact SourcesExact Disclosed CallsKept NeverGuesses Connected
