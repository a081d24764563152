CONSTANTS
  h1 = h1 p1 = p1 u1 = u1 u2 = u2 n1 = n1 latest = latest stable = stable
  charm = charm other = other r1 = r1 any = any
  None = None
  Readers = {h1}
  PackageIds = {p1}
  Names = {n1}
  Tracks = {latest}
  LatestTrack = latest
  Stable = stable
  Channels <- OneChannel
  Uploads = {u1, u2}
  DotDot = {u2}
  SharedKey = "uploads"
  Payloads = {charm, other}
  Charms = {charm, other}
  Resources = {r1}
  Declared <- NoDeclared
  Platforms = {any}
  MaxRevision = 2
  MaxActions = 1
  MaxPushes = 2
  Questions = {"refresh", "find", "info"}
SPECIFICATION DownloadsSpec
CONSTRAINT FewRows
SYMMETRY Symmetry
INVARIANTS
  DownloadsTypeOK AnswersStayDownloadable ResourcesAsReleased
  DownloadsKeepTheirPromise ReleasesCanBeListed
PROPERTIES PartsAreAccountedFor
CHECK_DEADLOCK FALSE
