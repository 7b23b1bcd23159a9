SPECIFICATION MCSpec
CONSTANTS
  Proxies = {}
  Tokens <- MCTokens
  Roots <- MCRoots
  RootOf <- MCRootOf
  Upstreams <- MCUpstreams
  Unusable = {}
  Default = "official"
  Builds = {}
  OwnUrls <- MCOwn
  SharedUrls <- MCShared
  ShellUrls <- MCOwn
  MaxEdits = 1
  MaxRuns = 3
INVARIANTS  RelayKept  KeyAccounted
CHECK_DEADLOCK FALSE
