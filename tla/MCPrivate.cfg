CONSTANTS
  h1 = h1 h2 = h2 p1 = p1 u1 = u1 u2 = u2 u3 = u3 n1 = n1
  c1 = c1 latest = latest
  charm = charm junk = junk r1 = r1 r2 = r2
  None = None
  Handlers = {h1, h2}
  PackageIds = {p1}
  Names = {n1}
  Tracks = {latest}
  LatestTrack = latest
  Channels = {c1}
  Uploads = {u1}
  DotDot = {}
  SharedKey = "uploads"
  Payloads = {charm}
  Charms = {charm}
  Resources = {r1}
  Declared <- DeclaredAll
  MaxRevision = 2
  MaxBatch = 1
  Served = {"register", "patch", "upload", "push", "release"}
SPECIFICATION Spec
PROPERTIES OnlyPatchChangesPrivate
CHECK_DEADLOCK FALSE
