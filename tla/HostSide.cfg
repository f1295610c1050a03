SPECIFICATION HostSpec
SYMMETRY Symmetry
CHECK_DEADLOCK FALSE
CONSTANTS
  Jobs = {j1}
  Replicas = {r1}
  Handlers = {h1, h2}
  MaxClaims = 1
  MaxGates = 2
  MaxCrashes = 0
  MaxConcurrent = 1
  Clocks = {}
  Kinds = {"fix_issue"}
  Policies = {"gate", "deny"}
  Backends = {"local"}
  NoJob = NoJob
  NoReplica = NoReplica
  Guids = {g1, g2}
  Issues = {i1, i2}
  Intakes = {d1, d2}
  HourlyLimit = 1
  MaxThrows = 1
  Tickets = {1, 2}
  Pollers = {p1}
  Page = 2
  MaxClock = 2
  MaxPollFaults = 1
  Writers = {w1, w2}
  MaxEvents = 1
  ReplayPage = 2
  MaxId = 3
  MaxDrops = 1
  MaxTries = 2
  Asks = {a1, a2}
  Revokers = {v1, v2}
  MaxTokens = 2
  MaxProvisions = 2
  MaxTokenFaults = 1
  BaseEntries = {"spelled", "lookalike"}
  RepoEntries = {"internal", "unlabelled"}
  MaxEntries = 5
  Texts = {"p", "q"}
  BaseLines = 2
  Inserted = 1
  MaxAdded = 1
  Adds = {n1}
  Callbacks = {b1, b2}
  MaxOnboardFaults = 1
  Files = 3
  Ticks = {t1, t2}
  MaxDue = 1
  MaxActivations = 2
INVARIANTS
  PolicyRespected
  WithinHourlyLimit
  HeldUntilApproved
  CursorFollowsWork
  StreamIsComplete
  OneTokenPerProvision
  RegisteredTokensDie
  DerivedIsAdmitted
  CommittedAsJudged
  SecretsFollowRows
  SchemaBeforeService
PROPERTIES
  TerminalIsFinal
  ApprovalSurvives
  KeepsLifecycle
