----------------------------- MODULE GateRoutes -----------------------------
(***************************************************************************)
(* The human gates: POST /gates/:id/resolve, what an approval or rejection *)
(* drives for each gate kind, the recovery of a job whose gate is resolved *)
(* already, and the deadline tick that expires overdue gates.              *)
(***************************************************************************)
EXTENDS DiffApply

GateOf(h) == gates[procs[h].gate]

\* A gate flip is a compare-and-swap on `waiting'.
FlipGate(g, status) ==
  gates' = [gates EXCEPT ![g].status = IF @ = "waiting" THEN status ELSE @]

\* Mutant of DrivePc: any decision on a diff resumes its apply.
DriveAnyDecision(status, kind) == IF kind = "diff_policy" THEN "resume_guard" ELSE "brief"
\* driveSideEffect, from the gate's stored status and kind.
DrivePc(status, kind) ==
  IF status = "resolved" /\ kind = "diff_policy" THEN "resume_guard" ELSE "brief"

\* A holder decides gate g, which the route has read; approved is the goal.
Resolve(h, g, at) ==
  /\ At(h, "idle")
  /\ gates[g].status \in {"waiting"} \cup GateDecision
  /\ \E decision \in GateDecision :
       procs' = [procs EXCEPT ![h] = [Idle EXCEPT !.pc = "resolve", !.at = at,
                   !.gate = g, !.job = gates[g].job, !.goal = decision]]
  /\ UNCHANGED <<jobs, gates, claims, runners, forge, applying, crashes>>

\* Mutant of ResolveFlip: the loser goes on with its own decision.
ResolveOwnDecision(h) ==
  /\ At(h, "resolve")
  /\ FlipGate(procs[h].gate, procs[h].goal)
  /\ CASE GateOf(h).status = "waiting" -> Goto(h, DrivePc(procs[h].goal, GateOf(h).kind))
       [] GateOf(h).status \in GateDecision -> Goto(h, "resolve_stuck")
       [] OTHER -> Leave(h)
  /\ UNCHANGED <<jobs, claims, runners, forge, applying, crashes>>

\* The winner drives its decision; the loser reads the stored one and checks
\* whether the job is stuck.
ResolveFlip(h) ==
  /\ At(h, "resolve")
  /\ FlipGate(procs[h].gate, procs[h].goal)
  /\ CASE GateOf(h).status = "waiting" -> Goto(h, DrivePc(procs[h].goal, GateOf(h).kind))
       [] GateOf(h).status \in GateDecision ->
            procs' = [procs EXCEPT ![h].pc = "resolve_stuck", ![h].goal = GateOf(h).status]
       [] OTHER -> Leave(h)
  /\ UNCHANGED <<jobs, claims, runners, forge, applying, crashes>>

\* isJobStuckAtGate: a row still `waiting' means the transition never landed.
ResolveStuck(h) ==
  /\ At(h, "resolve_stuck")
  /\ IF JobOf(h).status = "waiting"
     THEN Goto(h, DrivePc(procs[h].goal, GateOf(h).kind))
     ELSE Leave(h)
  /\ UNCHANGED <<jobs, gates, claims, runners, forge, applying, crashes>>

\* Mutant of DriveBrief: the gate's decision is taken for the job's status.
BriefThenDecision(h) ==
  /\ At(h, "brief")
  /\ CallFinalize(h, procs[h].goal, FALSE, "leave")
  /\ UNCHANGED <<jobs, gates, claims, runners, forge, applying, crashes>>

\* appendToBrief, once per gate; then the requeue or the cancellation.
DriveBrief(h) ==
  /\ At(h, "brief")
  /\ Write(procs[h].job, CanAppendBrief(JobOf(h), procs[h].gate),
           BriefAppended(JobOf(h), procs[h].gate))
  /\ IF procs[h].goal = "resolved" THEN Goto(h, "requeue")
     ELSE CallFinalize(h, "cancelled", FALSE, "leave")
  /\ UNCHANGED <<gates, claims, runners, forge, applying, crashes>>

DriveRequeue(h) ==
  /\ At(h, "requeue")
  /\ Write(procs[h].job, CanRequeue(JobOf(h)), RequeuedAt(JobOf(h), "implement"))
  /\ Leave(h)
  /\ UNCHANGED <<gates, claims, runners, forge, applying, crashes>>

\* worker.resumeGatedApply: the in-flight guard first, then waiting -> applying.
ResumeGuard(h) ==
  /\ At(h, "resume_guard")
  /\ IF InFlight(h, procs[h].job) THEN Leave(h) /\ UNCHANGED applying
     ELSE /\ applying' = [applying EXCEPT ![Home(h)] = @ \cup {procs[h].job}]
          /\ Goto(h, "resume")
  /\ UNCHANGED <<jobs, gates, claims, runners, forge, crashes>>

ResumeFlip(h) ==
  /\ At(h, "resume")
  /\ Write(procs[h].job, CanResumeApply(JobOf(h)), ResumedApply(JobOf(h)))
  /\ IF CanResumeApply(JobOf(h))
     THEN procs' = [procs EXCEPT ![h].pc = "apply_load", ![h].approved = TRUE]
     ELSE Goto(h, "apply_exit")
  /\ UNCHANGED <<gates, claims, runners, forge, applying, crashes>>

\* A deadline is a duration of days: it outlasts the one statement between
\* opening a gate and parking its job.
Parking(j) == \E p \in Procs : procs[p].job = j /\ procs[p].pc \in {"apply_park", "park_row"}

\* Mutant of GateExpires: the overdue gate expires, its job is left alone.
ExpireOnly(h, g, at) ==
  /\ At(h, "idle")
  /\ gates[g].status = "waiting" /\ ~Parking(gates[g].job)
  /\ FlipGate(g, "expired")
  /\ UNCHANGED <<jobs, claims, runners, forge, procs, applying, crashes>>

\* The deadline tick on one overdue gate; only the winner of the CAS cancels.
GateExpires(h, g, at) ==
  /\ At(h, "idle")
  /\ gates[g].status = "waiting" /\ ~Parking(gates[g].job)
  /\ FlipGate(g, "expired")
  /\ procs' = [procs EXCEPT ![h] = [Idle EXCEPT !.pc = "fin_read", !.at = at, !.gate = g,
                 !.job = gates[g].job, !.to = "cancelled", !.next = "leave"]]
  /\ UNCHANGED <<jobs, claims, runners, forge, applying, crashes>>

\* A handler that finalized a job answers.
HandlerEnd(h) ==
  /\ At(h, "leave")
  /\ Leave(h)
  /\ UNCHANGED <<jobs, gates, claims, runners, forge, applying, crashes>>

GateArrival(h, g, at) == Resolve(h, g, at) \/ GateExpires(h, g, at)

GateStep(h) ==
  \/ ResolveFlip(h) \/ ResolveStuck(h) \/ DriveBrief(h) \/ DriveRequeue(h)
  \/ ResumeGuard(h) \/ ResumeFlip(h) \/ HandlerEnd(h)
=============================================================================
