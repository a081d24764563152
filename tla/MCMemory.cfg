CONSTANTS
  p1 = p1 n1 = n1 n2 = n2 latest = latest stable = stable edge = edge
  u1 = u1 part = part charm = charm r1 = r1 old = old new = new d1 = d1 d2 = d2
  s1 = s1 s2 = s2 a1 = a1 a2 = a2 t1 = t1
  None = None
  PackageIds = {p1}
  Names = {n1, n2}
  Tracks = {latest, edge}
  LatestTrack = latest
  Channels = {stable}
  Uploads = {u1}
  DotDot = {u1}
  SharedKey = "uploads"
  Payloads = {charm}
  Charms = {charm}
  Resources = {r1}
  Declared <- NoDeclared
  Platforms = {old, new}
  Queries = {part}
  Matches <- OneMatch
  DefinitionIds = {d1, d2}
  MaxRevision = 2
  MaxPushes = 3
  Subjects = {s1}
  AccountIds = {a1, a2}
  Hashes = {t1}
  MaxTime = 1
SPECIFICATION MemorySpec
SYMMETRY Symmetry
INVARIANTS MemoryTypeOK IndexesAgree AccountsAgree
PROPERTIES RunsLikePostgres
CHECK_DEADLOCK FALSE
