SPECIFICATION MCFairSpec
CONSTANTS
  Slots <- MCSlots
  Watchdogs <- MCDogs
  Cmds = {"a", "b"}
  Paths = {1}
  Versions = {1, 2, 3}
  Broken = {3}
  NoOne = 0
  Stranger = 9
  MaxCrashes = 1
  MaxEvents = 5
INVARIANTS ServingIsProvable OneFlusher 
PROPERTIES WatchdogsSettle
CHECK_DEADLOCK FALSE
