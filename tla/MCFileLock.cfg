SPECIFICATION LockSpec
CONSTANTS
  Procs = {p1, p2, p3}
  NoProc = NoProc
  Changes = {c1, c2, c3, c4}
  NoChange = NoChange
  SlowHolders = TRUE
  EjectorsDie = TRUE
CHECK_DEADLOCK FALSE
SYMMETRY Symmetry
INVARIANTS MutualExclusion NoLostUpdate
PROPERTIES FreshLockIsSafe
