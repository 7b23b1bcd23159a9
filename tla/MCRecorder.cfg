SPECIFICATION Spec
CONSTANTS
  p1 = p1
  p2 = p2
  t1 = t1
  t2 = t2
  x1 = x1
  x2 = x2
  x3 = x3
  root = root
  official = official
  relay = relay
  garbled = garbled
  v1 = v1
  None = None
  Proxies = {p1, p2}
  Tokens = {t1}
  Roots = {root}
  RootOf <- OneRoot
  Upstreams = {official, relay}
  Unusable = {}
  Default = official
  Builds = {v1}
  Exchanges = {x1, x2}
  QueueDepth = 1
  MaxEdits = 1
SYMMETRY Symmetry
CHECK_DEADLOCK FALSE
INVARIANTS StoredUnderConsent NeverAstray CountedOnce WrittenAtExit DeletedStaysDeleted
