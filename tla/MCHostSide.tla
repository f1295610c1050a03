----------------------------- MODULE MCHostSide -----------------------------
(***************************************************************************)
(* The machines of the host, for TLC: a job with its applies and gates, and*)
(* the services around it.  They share no state, so one run explores each  *)
(* in turn: machine says which one moves, the others stay as they start.   *)
(***************************************************************************)
EXTENDS DevJobProperties, WebhookIntake, TrackerPoll, EventLog, ScmTokens, JobPolicy, UnifiedDiff,
        Onboarding, PluginLifecycle, TLC

VARIABLE machine

machines == <<machine, vars, intake, polling, eventLog, scm, admission, diffs, onboarding, lifecycle>>

\* A machine with many initial states rests in one of them.
StillPolicy ==
  /\ inputs = [middleware |-> "plain", clone |-> "forge", base |-> {}, repo |-> {},
               subscription |-> FALSE, image |-> "pinned", requireDigest |-> TRUE]
  /\ stage = "row" /\ policy = NoPolicy /\ hosts = NoHosts
StillDiff == edit = <<>> /\ upload = <<>> /\ stageOf = "posted" /\ progress = <<>> /\ committed = <<>>
StillPlugin ==
  /\ schema = [objects |-> {}, donor |-> {}, ledger |-> {}, purged |-> FALSE]
  /\ plugin = "off" /\ disposers = <<>> /\ activations = 0
  /\ deadline = Assembled /\ ticking = [t \in Ticks |-> AtRest]

HostInit ==
  /\ Init /\ IntakeInit /\ PollInit /\ EventLogInit /\ ScmInit /\ OnboardingInit
  /\ machine \in {"jobs", "intake", "poll", "log", "scm", "policy", "diff", "onboarding", "plugin"}
  /\ IF machine = "policy" THEN PolicyInit ELSE StillPolicy
  /\ IF machine = "diff" THEN DiffInit ELSE StillDiff
  /\ IF machine = "plugin" THEN LifecycleInit ELSE StillPlugin

HostNext ==
  /\ UNCHANGED machine
  /\ \/ /\ machine = "jobs" /\ Next
        /\ UNCHANGED <<intake, polling, eventLog, scm, admission, diffs, onboarding, lifecycle>>
     \/ /\ machine = "intake" /\ IntakeNext
        /\ UNCHANGED <<vars, polling, eventLog, scm, admission, diffs, onboarding, lifecycle>>
     \/ /\ machine = "poll" /\ PollNext
        /\ UNCHANGED <<vars, intake, eventLog, scm, admission, diffs, onboarding, lifecycle>>
     \/ /\ machine = "log" /\ EventLogNext
        /\ UNCHANGED <<vars, intake, polling, scm, admission, diffs, onboarding, lifecycle>>
     \/ /\ machine = "scm" /\ ScmNext
        /\ UNCHANGED <<vars, intake, polling, eventLog, admission, diffs, onboarding, lifecycle>>
     \/ /\ machine = "policy" /\ PolicyNext
        /\ UNCHANGED <<vars, intake, polling, eventLog, scm, diffs, onboarding, lifecycle>>
     \/ /\ machine = "diff" /\ DiffNext
        /\ UNCHANGED <<vars, intake, polling, eventLog, scm, admission, onboarding, lifecycle>>
     \/ /\ machine = "onboarding" /\ OnboardingNext
        /\ UNCHANGED <<vars, intake, polling, eventLog, scm, admission, diffs, lifecycle>>
     \/ /\ machine = "plugin" /\ LifecycleNext
        /\ UNCHANGED <<vars, intake, polling, eventLog, scm, admission, diffs, onboarding>>

HostSpec == HostInit /\ [][HostNext]_machines

\* The request handlers of the gate and admin routes are interchangeable.
Symmetry == Permutations(Handlers)
=============================================================================
