CONSTANTS
  h1 = h1 h2 = h2 u1 = u1 dev = dev a1 = a1 a2 = a2 s1 = s1 s2 = s2 s3 = s3
  view = view manage = manage edge = edge p1 = p1
  None = None
  Handlers = {h1, h2}
  Subjects = {u1, dev}
  DevSubject = dev
  AccountIds = {a1, a2}
  Sessions = {s1, s2}
  Permissions = {view, manage}
  DefaultPermissions = {view, manage}
  Channels = {edge}
  Packages = {p1}
  Requested <- TwoRequests
  TTLs = {1}
  DefaultTTL = 1
  MaxTime = 2
SPECIFICATION TokensSpec
SYMMETRY Symmetry
INVARIANTS TokensTypeOK ActsForOwner DeadTokensAreRefused RevocationIsShown
PROPERTIES DeadForGood ExchangeKeepsRestrictions
CHECK_DEADLOCK FALSE
