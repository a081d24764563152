CONSTANTS
  h1 = h1 p1 = p1 u1 = u1 u2 = u2 n1 = n1 latest = latest stable = stable
  charm = charm other = other r1 = r1 any = any
  None = None
  Readers = {h1}
  PackageIds = {p1}
  Names = {n1}
  Tracks = {latest}
  LatestTrack = latest
  Stable = stable
  Channels <- OneChannel
  Uploads = {u1}
  DotDot = {}
  SharedKey = "uploads"
  Payloads = {charm, other}
  Charms = {charm, other}
  Resources = {r1}
  Declared <- NoDeclared
  Platforms = {any}
  MaxRevision = 1
  MaxActions = 1
  MaxPushes = 1
  Questions = {"refresh", "find", "info"}
SPECIFICATION DownloadsSpec
INVARIANTS DigestsAreWhatTheyAreCalled
CHECK_DEADLOCK FALSE
