SPECIFICATION Spec
CONSTANTS
  r1 = r1
  r2 = r2
  r3 = r3
  b1 = b1
  b2 = b2
  b3 = b3
  p1 = p1
  p2 = p2
  s1 = s1
  NoBatch = NoBatch
  Records = {r1, r2}
  BatchIds = {b1, b2}
  Projects = {p1}
  Sessions = {s1}
  ProjectOf <- OneProject
  SessionOf <- OneSession
  Unparsable = {}
  Unmaskable = {}
  Commands = {"requeue"}
  MayTear = FALSE
CHECK_DEADLOCK FALSE
SYMMETRY Symmetry
INVARIANTS NothingLost AtMostOnce
