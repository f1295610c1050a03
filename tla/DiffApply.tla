----------------------------- MODULE DiffApply -----------------------------
(***************************************************************************)
(* The host-side apply: DevJobWorker.applyJobInner with DiffApplyService   *)
(* and the forge below it, entered by the worker's sweep, by the apply     *)
(* route and by the resume of an approved diff-policy gate.  Whoever       *)
(* enters has put the job into its replica's in-flight set.                *)
(***************************************************************************)
EXTENDS DevJobState

InFlight(p, j) == j \in applying[Home(p)]

\* Take the in-flight guard and start: the job is read next.
EnterApply(p, j, rep, approved, todo, back) ==
  /\ applying' = [applying EXCEPT ![rep] = @ \cup {j}]
  /\ procs' = [procs EXCEPT ![p].pc = "apply_load", ![p].job = j, ![p].at = rep,
                            ![p].approved = approved, ![p].todo = todo, ![p].back = back]

ApplyFails(p) == CallFinalize(p, "failed", FALSE, "apply_exit")

\* getJob: only an applying job, or one that failed after its diff, is applied.
ApplyLoad(p) ==
  /\ At(p, "apply_load")
  /\ Goto(p, IF JobOf(p).status = "applying" \/ FailedAfterDiff(JobOf(p))
             THEN "apply_judge" ELSE "apply_exit")
  /\ UNCHANGED <<jobs, gates, claims, runners, forge, applying, crashes>>

\* The policy engine: deny beats everything, an approval demotes gate findings.
PolicyVerdict(policy, approved) ==
  IF policy = "gate" /\ approved THEN "allow" ELSE policy

\* Mutant of ApplyJudge: only the approval in hand counts.
JudgeInMemory(p) ==
  /\ At(p, "apply_judge")
  /\ LET verdict == PolicyVerdict(JobOf(p).policy, procs[p].approved)
     IN Goto(p, CASE verdict = "allow" -> "apply_branch"
                  [] verdict = "gate" -> "apply_gate"
                  [] verdict = "deny" -> "apply_exit")
  /\ UNCHANGED <<jobs, gates, claims, runners, forge, applying, crashes>>

\* Read the durable approval, evaluate the diff policy before any forge write.
\* A read that throws, or finds the row gone, fails the job like any other
\* apply error; a deny whose audit write throws leaves the row as it is.
ApplyJudge(p) ==
  /\ At(p, "apply_judge")
  /\ LET approved == procs[p].approved \/ ApprovedGate(procs[p].job, "diff_policy")
         verdict == PolicyVerdict(JobOf(p).policy, approved)
     IN \/ /\ Exists(JobOf(p))
           /\ Goto(p, CASE verdict = "allow" -> "apply_branch"
                        [] verdict = "gate" -> "apply_gate"
                        [] verdict = "deny" -> "apply_exit")
        \/ ApplyFails(p)
  /\ UNCHANGED <<jobs, gates, claims, runners, forge, applying, crashes>>

(***************************************************************************)
(* forge.applyDiff ends in POST /git/refs, which creates the job's branch  *)
(* and refuses one that exists; forge.createPR follows.  Either call may   *)
(* fail, or succeed and lose its answer.                                   *)
(***************************************************************************)
\* Mutant of ApplyBranch: an existing branch is updated.
ForceBranch(p) ==
  /\ At(p, "apply_branch")
  /\ forge' = [forge EXCEPT ![procs[p].job].branch = TRUE]
  /\ Goto(p, "apply_pr") \/ ApplyFails(p)
  /\ UNCHANGED <<jobs, gates, claims, runners, applying, crashes>>

ApplyBranch(p) ==
  /\ At(p, "apply_branch")
  /\ \/ /\ ~forge[procs[p].job].branch
        /\ forge' = [forge EXCEPT ![procs[p].job].branch = TRUE]
        /\ Goto(p, "apply_pr") \/ ApplyFails(p)
     \/ /\ ApplyFails(p)
        /\ UNCHANGED forge
  /\ UNCHANGED <<jobs, gates, claims, runners, applying, crashes>>

ApplyPr(p) ==
  /\ At(p, "apply_pr")
  /\ \/ /\ forge' = [forge EXCEPT ![procs[p].job].prs = @ + 1]
        /\ CallFinalize(p, "done", TRUE, "apply_exit") \/ ApplyFails(p)
     \/ /\ ApplyFails(p)
        /\ UNCHANGED forge
  /\ UNCHANGED <<jobs, gates, claims, runners, applying, crashes>>

\* Mutant of ApplyGate: the row is parked whether or not the gate was opened.
ApplyGateUnheeded(p) ==
  /\ At(p, "apply_gate")
  /\ CanOpen(procs[p].job)
  /\ OpenGate(procs[p].job, "diff_policy") \/ UNCHANGED gates
  /\ Goto(p, "apply_park")
  /\ UNCHANGED <<jobs, claims, runners, forge, applying, crashes>>

\* policyGate.onGate: open the gate, then park the row, in two statements.  An
\* error in either leaves the row as it is: the catch block does not finalize.
ApplyGate(p) ==
  /\ At(p, "apply_gate")
  /\ CanOpen(procs[p].job)
  /\ \/ OpenGate(procs[p].job, "diff_policy") /\ Goto(p, "apply_park")
     \/ UNCHANGED gates /\ Goto(p, "apply_exit")
  /\ UNCHANGED <<jobs, claims, runners, forge, applying, crashes>>

ApplyPark(p) ==
  /\ At(p, "apply_park")
  /\ Write(procs[p].job, CanParkForApply(JobOf(p)), ParkedForApply(JobOf(p)))
  /\ Goto(p, "apply_exit")
  /\ UNCHANGED <<gates, claims, runners, forge, applying, crashes>>

\* The finally block: leave the in-flight set and return to the caller.
ApplyExit(p) ==
  /\ At(p, "apply_exit")
  /\ applying' = [applying EXCEPT ![Home(p)] = @ \ {procs[p].job}]
  /\ IF procs[p].back = "idle" THEN Leave(p)
     ELSE procs' = [procs EXCEPT ![p] = [Idle EXCEPT !.pc = procs[p].back,
                                                     !.todo = procs[p].todo]]
  /\ UNCHANGED <<jobs, gates, claims, runners, forge, crashes>>

ApplyStep(p) ==
  \/ ApplyLoad(p) \/ ApplyJudge(p) \/ ApplyBranch(p) \/ ApplyPr(p)
  \/ ApplyGate(p) \/ ApplyPark(p) \/ ApplyExit(p)
=============================================================================
