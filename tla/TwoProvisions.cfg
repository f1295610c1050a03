SPECIFICATION Spec
CONSTANTS
  Jobs = {j1}
  Replicas = {r1}
  Handlers = {h1}
  MaxClaims = 2
  MaxGates = 1
  MaxCrashes = 0
  MaxConcurrent = 1
  Clocks = {}
  Kinds = {"fix_issue"}
  Policies = {"allow"}
  Backends = {"docker"}
  NoJob = NoJob
  NoReplica = NoReplica
CHECK_DEADLOCK FALSE
INVARIANTS
  ProvisionsAreSeparate
