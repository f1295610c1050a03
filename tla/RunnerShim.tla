----------------------------- MODULE RunnerShim -----------------------------
(***************************************************************************)
(* The shim inside a job's container: it fetches the spec, clones, drives  *)
(* the CLI (one child in collapsed mode; one per phase in the gated loop), *)
(* posts batched events through one chain and reports.  A cancel seen by a *)
(* heartbeat and the wall clock stop the child: SIGTERM, and SIGKILL when  *)
(* the one grace timer fires.                                              *)
(***************************************************************************)
EXTENDS Naturals

CONSTANTS MaxBatches,     \* event batches the child emits
          MaxPhaseRuns    \* phases the middleware hands one provision

ASSUME ShimAssumption == MaxBatches \in Nat /\ MaxPhaseRuns \in Nat \ {0}

VARIABLES
  mode,       \* "collapsed" (runShim) or "phased" (runPhasedShim)
  step,       \* where the shim is
  stops,      \* the cancel it has seen and its wall clock's state
  child,      \* the CLI or the bootstrap command, and its exit code
  grace,      \* the grace timer: "unset", "ticking", "spent"
  unposted,   \* batches in postChain
  emitted,    \* batches emitted (bound)
  phaseRuns,  \* phases begun (bound)
  report      \* the last result the middleware took

shim == <<mode, step, stops, child, grace, unposted, emitted, phaseRuns, report>>

NoChild == [state |-> "none", code |-> 0]

ShimInit ==
  /\ mode \in {"collapsed", "phased"} /\ step = "spec"
  /\ stops = [cancelled |-> FALSE, wall |-> "off"] /\ child = NoChild /\ grace = "unset"
  /\ unposted = 0 /\ emitted = 0 /\ phaseRuns = 0 /\ report = "none"

\* The finally block: both intervals and both timers are cleared.
Stopped(outcome) ==
  /\ step' = "exited" /\ report' = outcome /\ grace' = "spent"
  /\ stops' = [stops EXCEPT !.wall = "off"]

\* safeResult: a result is reported, or its post fails and is only logged.
Reported(outcome) == \E taken \in {outcome, report} : Stopped(taken)

\* fetchSpec fails, or the protocol differs: collapsed mode reports the latter.
SpecRefused ==
  /\ step = "spec" /\ UNCHANGED <<mode, child, unposted, emitted, phaseRuns>>
  /\ Stopped("none") \/ (mode = "collapsed" /\ Reported("failed"))

\* The phased wall clock starts here, the collapsed one with the child.
SpecFetched ==
  /\ step = "spec" /\ step' = "clone"
  /\ \E armed \in {"off", "ticking"} :
       stops' = [stops EXCEPT !.wall = IF mode = "phased" THEN armed ELSE "off"]
  /\ UNCHANGED <<mode, child, grace, unposted, emitted, phaseRuns, report>>

\* Mutant of Signalled: a bare SIGTERM.
TermOnly ==
  /\ \/ child.state # "running" /\ UNCHANGED child
     \/ child.state = "running" /\ child' \in {child, [state |-> "ended", code |-> 1]}
  /\ UNCHANGED grace

\* terminateAgent, terminateWithEscalation: the child may ignore SIGTERM; the grace
\* timer is started once and never again.
Signalled ==
  /\ \/ child.state # "running" /\ UNCHANGED child
     \/ child.state = "running" /\ child' \in {child, [state |-> "ended", code |-> 1]}
  /\ grace' = IF grace = "unset" THEN "ticking" ELSE grace

CancelSeen ==
  /\ step \notin {"spec", "exited"} /\ ~stops.cancelled
  /\ stops' = [stops EXCEPT !.cancelled = TRUE] /\ Signalled
  /\ UNCHANGED <<mode, step, unposted, emitted, phaseRuns, report>>

WallExpires ==
  /\ stops.wall = "ticking" /\ stops' = [stops EXCEPT !.wall = "fired"]
  /\ unposted' = unposted + 1 /\ Signalled
  /\ UNCHANGED <<mode, step, emitted, phaseRuns, report>>

\* The timer kills the child there is when it fires.  Between the check at the top of
\* the loop and the spawn there is only a local git or directory read, shorter than
\* the grace window; the clone of collapsed mode may be longer.  A killed child is
\* taken to close its pipes: a grandchild that holds them open delays the close.
GraceFires ==
  /\ grace = "ticking" /\ step # "starting" /\ grace' = "spent"
  /\ child' = IF child.state = "running" THEN [state |-> "ended", code |-> 1] ELSE child
  /\ UNCHANGED <<mode, step, stops, unposted, emitted, phaseRuns, report>>

\* cloneAtBaseSha with the one-shot SCM token; then dockerd, best effort.
Cloned ==
  /\ step = "clone"
  /\ step' = IF mode = "phased" THEN "top" ELSE "starting"
  /\ UNCHANGED <<mode, stops, child, grace, unposted, emitted, phaseRuns, report>>

CloneFails ==
  /\ step = "clone" /\ UNCHANGED <<mode, child, unposted, emitted, phaseRuns>>
  /\ (mode = "collapsed" /\ Reported("failed")) \/ (mode = "phased" /\ Stopped("none"))

Halted == stops.cancelled \/ stops.wall = "fired"

\* The top of the loop: a stop between phases is reported as the phase's failure.
PhaseBegins ==
  /\ step = "top" /\ ~Halted /\ phaseRuns < MaxPhaseRuns
  /\ step' = "starting" /\ phaseRuns' = phaseRuns + 1 /\ unposted' = unposted + 1
  /\ UNCHANGED <<mode, stops, child, grace, emitted, report>>

HaltedBetween ==
  /\ step = "top" /\ Halted /\ UNCHANGED <<mode, child, unposted, emitted, phaseRuns>>
  /\ Reported("failed")

\* runAgent, runCommand: the kill hook is set as the child is spawned.
ChildStarts ==
  /\ step = "starting" /\ step' = "child" /\ child' = [state |-> "running", code |-> 0]
  /\ \E armed \in {"off", "ticking"} :
       stops' = IF mode = "collapsed" THEN [stops EXCEPT !.wall = armed] ELSE stops
  /\ UNCHANGED <<mode, grace, unposted, emitted, phaseRuns, report>>

\* The child cannot be spawned; or the phase needs none (no bootstrap command, a host
\* phase), or its git read fails: PhaseRunner turns each into a phase result.
ChildMissing ==
  /\ step = "starting" /\ UNCHANGED <<mode, unposted, emitted, phaseRuns>>
  /\ \/ mode = "collapsed" /\ Reported("failed") /\ UNCHANGED child
     \/ /\ mode = "phased" /\ step' = "phase result" /\ UNCHANGED <<stops, grace, report>>
        /\ \E code \in {0, 1} : child' = [state |-> "none", code |-> code]

\* The batching sink flushes: at 50 events, each second, and when the child closes.
ChildEmits ==
  /\ child.state = "running" /\ emitted < MaxBatches
  /\ emitted' = emitted + 1 /\ unposted' = unposted + 1
  /\ UNCHANGED <<mode, step, stops, child, grace, phaseRuns, report>>

ChildEnds ==
  /\ child.state = "running"
  /\ \E code \in {0, 1} : child' = [state |-> "ended", code |-> code]
  /\ UNCHANGED <<mode, step, stops, grace, unposted, emitted, phaseRuns, report>>

\* A batch is taken or lost; either way the chain goes on.
BatchPosted ==
  /\ unposted > 0 /\ unposted' = unposted - 1
  /\ UNCHANGED <<mode, step, stops, child, grace, emitted, phaseRuns, report>>

\* The collapsed shim clears its timers when the child is done and awaits the chain.
AgentDone ==
  /\ step = "child" /\ child.state = "ended" /\ mode = "collapsed"
  /\ step' = "draining" /\ unposted' = unposted + 1
  /\ grace' = IF grace = "ticking" THEN "spent" ELSE grace
  /\ stops' = [stops EXCEPT !.wall = IF @ = "ticking" THEN "off" ELSE @]
  /\ UNCHANGED <<mode, child, emitted, phaseRuns, report>>

\* postChain has settled.
Drained == unposted = 0

\* The collapsed verdict: wall clock, cancel, exit code, then the diff.  collectDiff or
\* postDiff may fail.
CollapsedVerdict ==
  /\ step = "draining" /\ Drained /\ UNCHANGED <<mode, child, unposted, emitted, phaseRuns>>
  /\ \/ (Halted \/ child.code # 0) /\ Reported("failed")
     \/ /\ ~Halted /\ child.code = 0
        /\ \E outcome \in {"no_changes", "diff_ready", "failed"} : Reported(outcome)

\* A phase's body: not ok for a code other than 0, and when the artifact is missing,
\* the review moved HEAD or implement changed nothing.
PhaseEnds ==
  /\ step = "child" /\ child.state = "ended" /\ mode = "phased"
  /\ step' = "phase result" /\ unposted' = unposted + 1
  /\ \E code \in {child.code, 1} : child' = [state |-> "none", code |-> code]
  /\ UNCHANGED <<mode, stops, grace, emitted, phaseRuns, report>>

\* postPhaseResult: the directive rules; a lost call ends the shim without a report.
Directed ==
  /\ step = "phase result"
  /\ \/ /\ child.code = 0 /\ step' = "top" /\ unposted' = unposted + 1
        /\ UNCHANGED <<stops, grace, report>>
     \/ \E outcome \in {"park", "done", "failed"} :
          /\ child.code # 0 => outcome = "failed"
          /\ Stopped(outcome) /\ unposted' = unposted + 1
     \/ Stopped(report) /\ UNCHANGED unposted
  /\ UNCHANGED <<mode, child, emitted, phaseRuns>>

ShimNext ==
  \/ SpecRefused \/ SpecFetched \/ CancelSeen \/ WallExpires \/ GraceFires \/ Cloned \/ CloneFails
  \/ PhaseBegins \/ HaltedBetween \/ ChildStarts \/ ChildMissing \/ ChildEmits \/ ChildEnds
  \/ BatchPosted \/ AgentDone \/ CollapsedVerdict \/ PhaseEnds \/ Directed

\* Timers fire, calls return, the shim's own code runs; the child need not end.
ShimFairness ==
  /\ WF_shim(SpecFetched \/ SpecRefused) /\ WF_shim(Cloned \/ CloneFails) /\ WF_shim(GraceFires)
  /\ WF_shim(PhaseBegins \/ HaltedBetween) /\ WF_shim(ChildStarts \/ ChildMissing)
  /\ WF_shim(BatchPosted) /\ WF_shim(AgentDone \/ PhaseEnds)
  /\ WF_shim(CollapsedVerdict) /\ WF_shim(Directed)

ShimSpec == ShimInit /\ [][ShimNext]_shim /\ ShimFairness

-----------------------------------------------------------------------------
\* A gated provision that is cancelled or runs out of time ends, also when its child
\* traps SIGTERM and whatever phase the stop finds the loop in.
StoppedProvisionEnds == (mode = "phased" /\ Halted) ~> (step = "exited")

\* index.ts:76-78: "SIGTERM -> SIGKILL after a grace window. Both cancel and wall-clock use
\* it", so that no child that ignores SIGTERM hangs the provision.  Not so: the one grace
\* timer may fire while the repository is still being cloned.
StopEscalates == (mode = "collapsed" /\ Halted) ~> (step = "exited")
=============================================================================
