---------------------------- MODULE FlyMachines ----------------------------
(***************************************************************************)
(* One job on the Fly backend (flyMachinesBackend.ts).  There is no daemon: *)
(* the backend creates the machine, proves a doubtful create, waits for the *)
(* start, stops, destroys and reaps, over an API that may commit a call and *)
(* then answer with an error, or not at all.                               *)
(***************************************************************************)
EXTENDS Naturals, FiniteSets

CONSTANTS Vms,           \* the machines the runner app can give out
          MaxFlyFaults,  \* answers that are errors, in a behaviour
          MaxReaps       \* passes of the reap, in a behaviour

ASSUME FlyAssumption == IsFiniteSet(Vms) /\ MaxFlyFaults \in Nat /\ MaxReaps \in Nat

VARIABLES
  flyJob,      \* the row, as the worker and isJobActive read it
  handleOf,    \* the set of at most one machine its runner_handle names
  vms,         \* each machine of the runner app, with this job's metadata
  provision,   \* the call of provision under way
  teardown,    \* the machine terminate is tearing down, and the step it is at
  mirror,      \* live, the machine tracked for the job
  reaping,     \* the machines of the list a reap pass has still to visit
  undoFailed,  \* history: the undo of a failed start did not destroy its machine
  flyFaults, reaps

fly == <<flyJob, handleOf, vms, provision, teardown, mirror, reaping, undoFailed, flyFaults, reaps>>

NoProvision == [pc |-> "none", vm |-> {}, again |-> FALSE]
NoTeardown == [pc |-> "none", vm |-> {}]
Up == {v \in Vms : vms[v] = "up"}

\* 0 is a call that was never answered: a transport failure, a timeout, a body
\* over its cap.  2xx of a create without a machine id counts as that, too.
Statuses == {0, 401, 404, 422, 429, 500, 503}
Retryable(status) == status \in {429, 503}

FlyInit ==
  /\ flyJob = "queued" /\ handleOf = {} /\ vms = [v \in Vms |-> "absent"]
  /\ provision = NoProvision /\ teardown = NoTeardown /\ mirror = {} /\ reaping = {}
  /\ undoFailed = FALSE /\ flyFaults = 0 /\ reaps = 0

Failing == flyFaults < MaxFlyFaults /\ flyFaults' = flyFaults + 1
FlyActive == flyJob # "over"
VmGone(vm) == vms' = [v \in Vms |-> IF v \in vm THEN "gone" ELSE vms[v]]

\* How a failed provision leaves the row: queued again, or failed without a handle.
\* A row that is no longer the worker's is left alone.
RowAfter(again) ==
  flyJob' = IF flyJob # "claimed" THEN flyJob ELSE IF again THEN "queued" ELSE "over"

\* The claim, and the create it sends: a machine that carries the job's id, is
\* never restarted, and is destroyed by Fly once its shim exits.
CreateSent ==
  /\ flyJob = "queued" /\ provision = NoProvision
  /\ flyJob' = "claimed" /\ provision' = [NoProvision EXCEPT !.pc = "create"]
  /\ UNCHANGED <<handleOf, vms, teardown, mirror, reaping, undoFailed, flyFaults, reaps>>

Committed(v) == vms[v] = "absent" /\ vms' = [vms EXCEPT ![v] = "up"]

Created ==
  /\ provision.pc = "create"
  /\ \E v \in Vms : Committed(v) /\ provision' = [provision EXCEPT !.pc = "wait", !.vm = {v}]
  /\ UNCHANGED <<flyJob, handleOf, teardown, mirror, reaping, undoFailed, flyFaults, reaps>>

\* An error, of a create that may have been committed all the same.  A retryable
\* one is proved first; any other fails the job.
CreateFails ==
  /\ provision.pc = "create" /\ Failing
  /\ \/ UNCHANGED vms
     \/ \E v \in Vms : Committed(v)
  /\ \E status \in Statuses :
       IF Retryable(status)
       THEN provision' = [provision EXCEPT !.pc = "prove"] /\ UNCHANGED flyJob
       ELSE provision' = NoProvision /\ RowAfter(FALSE)
  /\ UNCHANGED <<handleOf, teardown, mirror, reaping, undoFailed, reaps>>

\* Mutant of UnprovenAgain: a list that failed is read as an empty one.
UnprovenIsAbsent == TRUE

\* confirmAbsentOrAdopt, when the list fails: fails closed, never queued again.
UnprovenAgain == FALSE

\* The list decides: the job's machine is adopted, or its absence is proved.
CreateProved ==
  /\ provision.pc = "prove"
  /\ \/ \E v \in Up : provision' = [provision EXCEPT !.pc = "wait", !.vm = {v}] /\ UNCHANGED flyJob
     \/ Up = {} /\ provision' = NoProvision /\ RowAfter(TRUE)
  /\ UNCHANGED <<handleOf, vms, teardown, mirror, reaping, undoFailed, flyFaults, reaps>>

ProofFails ==
  /\ provision.pc = "prove" /\ Failing
  /\ provision' = NoProvision /\ RowAfter(UnprovenAgain)
  /\ UNCHANGED <<handleOf, vms, teardown, mirror, reaping, undoFailed, reaps>>

\* The machine reports started: it is tracked, and the worker attaches its handle.
Started ==
  /\ provision.pc = "wait" /\ provision.vm \subseteq Up
  /\ mirror' = provision.vm /\ provision' = [provision EXCEPT !.pc = "attach"]
  /\ UNCHANGED <<flyJob, handleOf, vms, teardown, reaping, undoFailed, flyFaults, reaps>>

\* It does not: the machine is destroyed first, then the error is thrown.  A wait
\* that was not answered throws at once, and destroys nothing.
StartFails ==
  /\ provision.pc = "wait" /\ Failing
  /\ \E status \in Statuses :
       IF status = 0
       THEN provision' = NoProvision /\ RowAfter(FALSE)
       ELSE /\ provision' = [provision EXCEPT !.pc = "undo", !.again = Retryable(status)]
            /\ UNCHANGED flyJob
  /\ UNCHANGED <<handleOf, vms, teardown, mirror, reaping, undoFailed, reaps>>

\* The undo is best effort: the wait's error decides whether the job is queued again.
Undone ==
  /\ provision.pc = "undo"
  /\ \/ VmGone(provision.vm) /\ UNCHANGED <<undoFailed, flyFaults>>
     \/ Failing /\ undoFailed' = TRUE /\ UNCHANGED vms
  /\ provision' = NoProvision /\ RowAfter(provision.again)
  /\ UNCHANGED <<handleOf, teardown, mirror, reaping, reaps>>

\* The worker attaches the handle, or tears the machine down when the row is lost.
HandleAttached ==
  /\ provision.pc = "attach" /\ provision' = NoProvision
  /\ \/ /\ flyJob = "claimed" /\ flyJob' = "running" /\ handleOf' = provision.vm
        /\ UNCHANGED teardown
     \/ /\ flyJob = "over" /\ teardown = NoTeardown
        /\ teardown' = [pc |-> "owner", vm |-> provision.vm] /\ UNCHANGED <<flyJob, handleOf>>
  /\ UNCHANGED <<vms, mirror, reaping, undoFailed, flyFaults, reaps>>

\* A result, a cancel or a sweep ends the job, and tears its handle down.
FlyJobEnds ==
  /\ flyJob \in {"claimed", "running"} /\ flyJob' = "over"
  /\ teardown' = IF handleOf = {} THEN teardown ELSE [pc |-> "owner", vm |-> handleOf]
  /\ UNCHANGED <<handleOf, vms, provision, mirror, reaping, undoFailed, flyFaults, reaps>>

-----------------------------------------------------------------------------
\* terminate first reads whose machine it is: gone is done, this job's is torn down.
\* So is one whose owner could not be read.
OwnerRead ==
  /\ teardown.pc = "owner"
  /\ IF teardown.vm \subseteq Up
     THEN teardown' = [teardown EXCEPT !.pc = "stop"] /\ UNCHANGED <<mirror, flyFaults>>
     ELSE \/ teardown' = NoTeardown /\ mirror' = {} /\ UNCHANGED flyFaults
          \/ Failing /\ teardown' = [teardown EXCEPT !.pc = "stop"] /\ UNCHANGED mirror
  /\ UNCHANGED <<flyJob, handleOf, vms, provision, reaping, undoFailed, reaps>>

\* SIGTERM and its grace are a courtesy: whatever the answer, the destroy follows.
MachineStopped ==
  /\ teardown.pc = "stop" /\ teardown' = [teardown EXCEPT !.pc = "destroy"]
  /\ \/ UNCHANGED vms
     \/ VmGone(teardown.vm)
  /\ UNCHANGED <<flyJob, handleOf, provision, mirror, reaping, undoFailed, flyFaults, reaps>>

\* Destroyed, or gone already (404): forgotten.  Not proved gone: kept for the reap.
MachineDeleted ==
  /\ teardown.pc = "destroy" /\ teardown' = NoTeardown
  /\ \/ VmGone(teardown.vm) /\ mirror' = {} /\ UNCHANGED flyFaults
     \/ Failing /\ UNCHANGED <<vms, mirror>>
  /\ UNCHANGED <<flyJob, handleOf, provision, reaping, undoFailed, reaps>>

\* The shim exits, and Fly destroys the machine by itself.
VmExits ==
  /\ \E v \in Up : VmGone({v})
  /\ UNCHANGED <<flyJob, handleOf, provision, teardown, mirror, reaping, undoFailed, flyFaults, reaps>>

-----------------------------------------------------------------------------
\* A reap pass lists the machines; a list that fails reaps nothing.
ReapListed ==
  /\ reaping = {} /\ reaps < MaxReaps /\ reaps' = reaps + 1
  /\ \/ reaping' = Up /\ UNCHANGED flyFaults
     \/ Failing /\ UNCHANGED reaping
  /\ UNCHANGED <<flyJob, handleOf, vms, provision, teardown, mirror, undoFailed>>

\* Each in turn: an active job's machine stays, whatever its lease; any other is
\* destroyed.  Its row is terminal, so settling it changes nothing.
ReapVisited ==
  /\ \E v \in reaping :
       /\ reaping' = reaping \ {v}
       /\ \/ FlyActive /\ UNCHANGED <<vms, mirror, flyFaults>>
          \/ ~FlyActive /\ VmGone({v}) /\ mirror' = {} /\ UNCHANGED flyFaults
          \/ ~FlyActive /\ Failing /\ UNCHANGED <<vms, mirror>>
  /\ UNCHANGED <<flyJob, handleOf, provision, teardown, undoFailed, reaps>>

\* The middleware dies: every call under way and the mirror are lost.
FlyRestarts ==
  /\ Failing
  /\ provision' = NoProvision /\ teardown' = NoTeardown /\ mirror' = {} /\ reaping' = {}
  /\ UNCHANGED <<flyJob, handleOf, vms, undoFailed, reaps>>

FlyNext ==
  \/ CreateSent \/ Created \/ CreateFails \/ CreateProved \/ ProofFails \/ Started
  \/ StartFails \/ Undone \/ HandleAttached \/ FlyJobEnds \/ OwnerRead \/ MachineStopped
  \/ MachineDeleted \/ VmExits \/ ReapListed \/ ReapVisited \/ FlyRestarts

FlySpec == FlyInit /\ [][FlyNext]_fly

-----------------------------------------------------------------------------
\* A job has one machine at most, so its code never runs on two: a create that
\* may have been committed is adopted, proved absent or never retried.  The undo of
\* a failed start is the exception: its failure is swallowed, and a retryable wait
\* error queues the job while the machine is still up.
OneMachineOfAJob == undoFailed \/ Cardinality(Up) <= 1
=============================================================================
