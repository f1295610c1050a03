SPECIFICATION Spec
CONSTANTS
  Jobs = {j1}
  Passes = {p1}
  NoJob = NoJob
  Proxied = TRUE
  MaxLive = 1
  MaxInflight = 1
  MaxCreates = 2
  MaxFaults = 1
  MaxLosses = 2
CHECK_DEADLOCK FALSE
INVARIANTS
  EgressWhileRunning
