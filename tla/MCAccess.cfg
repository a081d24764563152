CONSTANTS
  h1 = h1 v1 = v1 p1 = p1 p2 = p2 n1 = n1 latest = latest stable = stable edge = edge
  u1 = u1 charm = charm r1 = r1 a1 = a1 a2 = a2 g1 = g1
  None = None
  Handlers = {h1}
  Viewers = {v1}
  PackageIds = {p1}
  Names = {n1}
  Tracks = {latest}
  LatestTrack = latest
  Channels = {stable, edge}
  Uploads = {u1}
  DotDot = {}
  SharedKey = "uploads"
  Payloads = {charm}
  Charms = {charm}
  Resources = {r1}
  Declared <- NoDeclared
  MaxRevision = 1
  MaxBatch = 1
  Accounts = {a1, a2}
  Groups = {g1}
  Identities <- SomeIdentities
  Grants <- SomeGrants
  Memberships <- SomeMemberships
  Served = {"register", "patch", "unregister", "upload", "push", "release"}
SPECIFICATION AccessSpec
INVARIANTS AccessTypeOK ActsOnlyWhenEntitled StandingRightsSuffice
PROPERTIES ChannelsAsGranted
CHECK_DEADLOCK FALSE
