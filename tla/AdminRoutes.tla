---------------------------- MODULE AdminRoutes ----------------------------
(***************************************************************************)
(* The operator's routes on jobs: create, cancel, delete, apply and retry, *)
(* and the trigger routes that create a job, held at a first-source gate   *)
(* or not.  Authorization is taken as granted.                             *)
(***************************************************************************)
EXTENDS DiffApply

Unborn == {j \in Jobs : jobs[j].status = "unborn"}

Insert(j, row) == jobs' = [jobs EXCEPT ![j] = row]

Begin(h, at, pc, j) ==
  procs' = [procs EXCEPT ![h] = [Idle EXCEPT !.pc = pc, !.at = at, !.job = j]]

\* POST /jobs, and a trigger whose source needs no gate.
Create(j) ==
  /\ j \in Unborn
  /\ \E kind \in Kinds, backend \in Backends, policy \in Policies :
       Insert(j, CreateJob("queued", "analyze", kind, backend, policy, FALSE))
  /\ UNCHANGED <<gates, claims, runners, forge, procs, applying, crashes>>

\* createTriggerJob with a first-source gate: the row is born parked, then the
\* gate is opened over it.  A trigger refuses the local backend.
CreateHeld(h, j, at) ==
  /\ At(h, "idle")
  /\ j \in Unborn
  /\ \E kind \in Kinds, backend \in Backends \ {"local"}, policy \in Policies :
       Insert(j, CreateJob("waiting", "await_human", kind, backend, policy, FALSE))
  /\ Begin(h, at, "held_open", j)
  /\ UNCHANGED <<gates, claims, runners, forge, applying, crashes>>

HeldOpen(h) ==
  /\ At(h, "held_open")
  /\ CanOpen(procs[h].job)
  /\ OpenGate(procs[h].job, "review")
  /\ Leave(h)
  /\ UNCHANGED <<jobs, claims, runners, forge, applying, crashes>>

\* Any job, live or not, goes through finalizeDevJob.
Cancel(h, j, at) ==
  /\ At(h, "idle")
  /\ Live(jobs[j])
  /\ procs' = [procs EXCEPT ![h] = [Idle EXCEPT !.pc = "fin_read", !.at = at, !.job = j,
                 !.to = "cancelled", !.next = "leave"]]
  /\ UNCHANGED <<jobs, gates, claims, runners, forge, applying, crashes>>

\* Events, artifacts and gates go with the row (ON DELETE CASCADE).
Delete(j) ==
  /\ CanDelete(jobs[j])
  /\ Write(j, TRUE, Deleted(jobs[j]))
  /\ gates' = [g \in GateIds |-> IF gates[g].job = j THEN [NoGate EXCEPT !.status = "deleted"]
                                                 ELSE gates[g]]
  /\ UNCHANGED <<claims, runners, forge, procs, applying, crashes>>

\* POST /jobs/:id/apply: the status is read, then the in-flight guard is taken;
\* a job in flight on this replica is refused.
Apply(h, j, at) ==
  /\ At(h, "idle")
  /\ jobs[j].status = "applying" \/ FailedAfterDiff(jobs[j])
  /\ j \notin applying[at]
  /\ EnterApply(h, j, at, FALSE, {}, "idle")
  /\ UNCHANGED <<jobs, gates, claims, runners, forge, crashes>>

\* POST /jobs/:id/retry: a terminal job is cloned, at its phase or at analyze.
Retry(j, clone) ==
  /\ Ended(jobs[j])
  /\ clone \in Unborn
  /\ \E resume \in BOOLEAN, policy \in Policies :
       Insert(clone, CreateJob("queued", IF resume THEN jobs[j].phase ELSE "analyze",
                               jobs[j].kind, jobs[j].backend, policy, resume))
  /\ UNCHANGED <<gates, claims, runners, forge, procs, applying, crashes>>

AdminArrival(h, j, at) == CreateHeld(h, j, at) \/ Cancel(h, j, at) \/ Apply(h, j, at)
=============================================================================
