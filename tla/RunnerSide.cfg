SPECIFICATION Spec
CHECK_DEADLOCK FALSE
CONSTANTS
  MaxRounds = 3
  MaxFailures = 2
  Calls = {c1, c2}
  Prices = {2}
  Budget = 5
  Cap = 9
  MaxMisses = 1
  Tunnels = {k1, k2}
  MaxTunnels = 1
  MaxIncarnations = 2
  Askers = {a1, a2}
  MaxPulls = 3
  MaxLookups = 2
  MaxAttempts = 2
  MaxWireFaults = 2
  MaxBatches = 2
  MaxPhaseRuns = 2
  Vms = {v1, v2}
  MaxFlyFaults = 3
  MaxReaps = 1
  Dirs = {w1, w2}
  MaxLocalFaults = 3
INVARIANTS
  BoundedOvershoot
  NoGroupIsStranded
  SlotsAreExact
  OneMachineOfAJob
PROPERTIES
  TeardownIsProof
  NothingIsStranded
  OverBudgetEnds
  DeadDaemonLeavesNothing
  EveryWarmIsAnswered
  EndedJobsLoseTheirContainer
  StoppedProvisionEnds
