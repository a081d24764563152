CONSTANTS
  h1 = h1 p1 = p1 u1 = u1 n1 = n1 latest = latest
  stable = stable charm = charm r1 = r1 any = any
  None = None
  Handlers = {h1}
  Readers = {h1}
  PackageIds = {p1}
  Names = {n1}
  Tracks = {latest}
  LatestTrack = latest
  Stable = stable
  Channels <- OneChannel
  Uploads = {u1}
  DotDot = {}
  SharedKey = "uploads"
  Payloads = {charm}
  Charms = {charm}
  Resources = {r1}
  Declared <- NoDeclared
  Platforms = {any}
  MaxRevision = 1
  MaxActions = 1
  MaxPushes = 1
  MaxBatch = 1
  MaxUpdates = 1
  Questions = {"refresh"}
  Served = {"register", "upload", "push", "release"}
  ServedResources = {}
SPECIFICATION RegistrySpec
INVARIANTS RefreshFailsOnlyOnInfrastructure
CHECK_DEADLOCK FALSE
