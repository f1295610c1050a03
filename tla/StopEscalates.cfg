SPECIFICATION ShimSpec
CHECK_DEADLOCK FALSE
CONSTANTS
  MaxBatches = 2
  MaxPhaseRuns = 2
PROPERTIES
  StopEscalates
