SPECIFICATION LiveSpec
CONSTANTS
  Jobs = {j1}
  Replicas = {r1}
  Handlers = {h1}
  MaxClaims = 1
  MaxGates = 1
  MaxCrashes = 1
  MaxConcurrent = 1
  Clocks = {"heartbeat", "wall_clock"}
  Kinds = {"fix_issue"}
  Policies = {"allow"}
  Backends = {"docker", "local"}
  NoJob = NoJob
  NoReplica = NoReplica
CHECK_DEADLOCK FALSE
PROPERTIES
  WaitEnds
  ClaimEnds
