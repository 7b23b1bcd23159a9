SPECIFICATION MCFairSpec
CONSTANTS
  Versions = {1, 2, 3}
  Broken = {2}
  Runs = {"a", "b"}
  Free = "free"
  Dead = "dead"
  MaxEvents = 5
INVARIANTS  FinishOwed
 
CHECK_DEADLOCK FALSE
