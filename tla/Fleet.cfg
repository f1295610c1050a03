SPECIFICATION Spec
CONSTANTS
  Jobs = {j1, j2}
  Replicas = {r1}
  Handlers = {h1}
  MaxClaims = 2
  MaxGates = 0
  MaxCrashes = 0
  MaxConcurrent = 1
  Clocks = {}
  Kinds = {"fix_issue"}
  Policies = {"allow"}
  Backends = {"fly"}
  NoJob = NoJob
  NoReplica = NoReplica
CHECK_DEADLOCK FALSE
SYMMETRY Symmetry
INVARIANTS
  WithinConcurrencyCap
