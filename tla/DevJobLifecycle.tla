-------------------------- MODULE DevJobLifecycle --------------------------
(***************************************************************************)
(* What the dev platform promises of a job, whatever runners, people,      *)
(* replicas and crashes do: the stages it goes through and that at most    *)
(* one pull request comes of it, not before its diff was handed over.      *)
(***************************************************************************)
EXTENDS Naturals

CONSTANT Jobs
VARIABLES stage,     \* where each job is
          published  \* how many pull requests each job has

Stage == {"none", "queued", "working", "parked", "applying", "failed", "ended", "gone"}
Live == {"queued", "working", "parked", "applying"}

Init ==
  /\ stage = [j \in Jobs |-> "none"]
  /\ published = [j \in Jobs |-> 0]

Move(j, from, to) ==
  /\ stage[j] \in from
  /\ stage' = [stage EXCEPT ![j] = to]
  /\ UNCHANGED published

\* A job is submitted to the queue, or held at a gate from the start.
Submit(j) == Move(j, {"none"}, "queued") \/ Move(j, {"none"}, "parked")
\* A worker claims it; the claim is undone when nothing could be started.
Start(j) == Move(j, {"queued"}, "working")
Rewind(j) == Move(j, {"working"}, "queued")
\* It waits for a human: for the plan, or for its diff, which an operator may
\* also hand in again after the job failed.
Park(j) == Move(j, {"working", "applying", "failed"}, "parked")
\* The human says yes: the job is provisioned again, or its diff applied.
Approve(j) == Move(j, {"parked"}, "queued") \/ Move(j, {"parked"}, "applying")
\* The runner hands its diff over and is done.
HandOver(j) == Move(j, {"working"}, "applying")
Finish(j) == Move(j, Live, "failed") \/ Move(j, Live, "ended")
Forget(j) == Move(j, {"failed", "ended"}, "gone")

\* The one pull request; the job may have ended meanwhile.
Publish(j) ==
  /\ stage[j] \in {"applying", "parked", "failed", "ended", "gone"}
  /\ published[j] = 0
  /\ published' = [published EXCEPT ![j] = 1]
  /\ UNCHANGED stage

Next ==
  \E j \in Jobs :
    \/ Submit(j) \/ Start(j) \/ Rewind(j) \/ Park(j) \/ Approve(j)
    \/ HandOver(j) \/ Finish(j) \/ Forget(j) \/ Publish(j)

Spec == Init /\ [][Next]_<<stage, published>>
=============================================================================
