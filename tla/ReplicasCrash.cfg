SPECIFICATION Spec
CONSTANTS
  Jobs = {j1}
  Replicas = {r1, r2}
  Handlers = {h1}
  MaxClaims = 1
  MaxGates = 1
  MaxCrashes = 1
  MaxConcurrent = 1
  Clocks = {}
  Kinds = {"fix_issue"}
  Policies = {"gate", "allow"}
  Backends = {"local"}
  NoJob = NoJob
  NoReplica = NoReplica
CHECK_DEADLOCK FALSE
SYMMETRY Symmetry
INVARIANTS
  OnePullRequestPerJob
  WaitingIsActionable
