---------------------------- MODULE MCRunnerSide ----------------------------
(***************************************************************************)
(* The machines around a running container, for TLC.  They share no state, *)
(* so one run explores each of them in turn: machine says which one moves, *)
(* and the others stay as their Init leaves them.                          *)
(***************************************************************************)
EXTENDS JobResources, LlmBudget, EgressProxy, ImageWarmer, DockerWire, RunnerShim, FlyMachines,
        LocalRunner

VARIABLE machine

machines == <<machine, resources, budgetVars, proxy, warming, wire, shim, fly, local>>

\* A machine that is not explored rests where no fair action of it is enabled.
StillResources == dind = TRUE /\ ResourcesInit
StillBudget ==
  /\ jobStatus = "ended" /\ usage = 0 /\ calls = [c \in Calls |-> NoCall]
  /\ ledger = 0 /\ warnings = 0 /\ overwritten = FALSE /\ misses = 0
StillShim ==
  /\ mode = "phased" /\ step = "exited" /\ stops = [cancelled |-> FALSE, wall |-> "off"]
  /\ child = NoChild /\ grace = "spent" /\ unposted = 0 /\ emitted = 0 /\ phaseRuns = 0
  /\ report = "none"

Init ==
  /\ ProxyInit /\ WarmerInit /\ WireInit /\ FlyInit /\ LocalInit
  /\ machine \in {"resources", "budget", "proxy", "warmer", "wire", "shim", "fly", "local"}
  /\ IF machine = "resources" THEN ResourcesInit ELSE StillResources
  /\ IF machine = "budget" THEN BudgetInit ELSE StillBudget
  /\ IF machine = "shim" THEN ShimInit ELSE StillShim

Next ==
  /\ UNCHANGED machine
  /\ \/ machine = "resources" /\ ResourcesNext /\ UNCHANGED <<budgetVars, proxy, warming, wire, shim, fly, local>>
     \/ machine = "budget" /\ BudgetNext /\ UNCHANGED <<resources, proxy, warming, wire, shim, fly, local>>
     \/ machine = "proxy" /\ ProxyNext /\ UNCHANGED <<resources, budgetVars, warming, wire, shim, fly, local>>
     \/ machine = "warmer" /\ WarmerNext /\ UNCHANGED <<resources, budgetVars, proxy, wire, shim, fly, local>>
     \/ machine = "wire" /\ WireNext /\ UNCHANGED <<resources, budgetVars, proxy, warming, shim, fly, local>>
     \/ machine = "shim" /\ ShimNext /\ UNCHANGED <<resources, budgetVars, proxy, warming, wire, fly, local>>
     \/ machine = "fly" /\ FlyNext /\ UNCHANGED <<resources, budgetVars, proxy, warming, wire, shim, local>>
     \/ machine = "local" /\ LocalNext /\ UNCHANGED <<resources, budgetVars, proxy, warming, wire, shim, fly>>

Fairness ==
  /\ ResourcesFairness /\ BudgetFairness /\ ProxyFairness /\ WarmerFairness
  /\ WireFairness /\ ShimFairness

Spec == Init /\ [][Next]_machines /\ Fairness
=============================================================================
