SPECIFICATION FairSpec
CONSTANTS
  Jobs = {j1}
  Passes = {p1, p2}
  NoJob = NoJob
  Proxied = FALSE
  MaxLive = 1
  MaxInflight = 1
  MaxCreates = 2
  MaxFaults = 1
  MaxLosses = 0
CHECK_DEADLOCK FALSE
INVARIANTS
  HandlesAreKept
PROPERTIES
  OrphanSweepSparesRecords
  EveryContainerEnds
