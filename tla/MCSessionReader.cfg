SPECIFICATION Spec
CONSTANTS
  hook = hook
  resident = resident
  poll = poll
  Readers = {resident, hook}
  ProcessOf <- Processes
  NoReader = NoReader
  Present = {"main", "agent"}
  Suspends = FALSE
  MaxLines = 2
  MaxRewrites = 1
  MaxKept = 1
CHECK_DEADLOCK FALSE
INVARIANTS  AgentHeldBack NothingSkipped 
