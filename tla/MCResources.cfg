CONSTANTS
  h1 = h1 h2 = h2 p1 = p1 p2 = p2 u1 = u1 u2 = u2 u3 = u3 n1 = n1
  c1 = c1 latest = latest charm = charm file = file r1 = r1 old = old new = new
  None = None
  Handlers = {h1, h2}
  PackageIds = {p1}
  Names = {n1}
  Tracks = {latest}
  LatestTrack = latest
  Channels = {c1}
  Uploads = {u1, u2, u3}
  DotDot = {u2, u3}
  SharedKey = "uploads"
  Payloads = {charm, file}
  Charms = {charm}
  Resources = {r1}
  Declared <- DeclaredOne
  Platforms = {old}
  MaxRevision = 2
  MaxBatch = 1
  MaxUpdates = 1
  Served = {"register", "upload", "push"}
  ServedResources = {"push_resource", "update_resources"}
SPECIFICATION ResourcesSpec
CONSTRAINT FewRows
SYMMETRY Symmetry
INVARIANTS ResourcesTypeOK ResourceRevisionsContiguous ResourcesServeTheirHash ReviewNamesARevision ResourceRepliesAreTrue RevisionsContiguous NumberWasNext
PROPERTIES ResourceContentImmutable RevisionsImmutable
CHECK_DEADLOCK FALSE
