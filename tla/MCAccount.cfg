SPECIFICATION MCFairSpec
CONSTANTS
  Proxies = {}
  Tokens = {"t"}
  Roots = {"p"}
  RootOf <- MCRootOf
  Upstreams = {"official", "relay"}
  Unusable = {}
  Default = "official"
  Builds = {}
  DeviceTokens <- MCTokens
  AccountOf <- MCAccounts
  NoToken = 0
  Longest = 2
  Saves = FALSE
  PurgeOverlaps = FALSE
  MaxEvents = 6
INVARIANTS  NoStaleGate SignedOutPaused
PROPERTIES Recovers
CHECK_DEADLOCK FALSE
