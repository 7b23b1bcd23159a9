SPECIFICATION Spec
CONSTANTS
  proxy = proxy
  command = command
  call = call
  line = line
  p1 = p1
  s1 = s1
  Handles = {proxy, command}
  Writers = {proxy}
  Records = {call, line}
  NoRecord = NoRecord
  Rawcalls = {call}
  Projects = {p1}
  Sessions = {s1}
  ProjectOf <- OneProject
  SessionOf <- OneSession
  Size <- Sizes
  LineSize = 1
  Quota = 5
  Holds = TRUE
  MayCrash = TRUE
CHECK_DEADLOCK FALSE
INVARIANTS   DeletedIsGone StoredOrHeld
