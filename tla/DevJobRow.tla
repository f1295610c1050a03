----------------------------- MODULE DevJobRow -----------------------------
(***************************************************************************)
(* One dev_jobs row and the guarded UPDATE statements of DevJobStore.      *)
(* A statement is a pair: the guard of its WHERE clause and the row it     *)
(* writes.  Zero matched rows leave the row as it was (see Update).        *)
(*                                                                         *)
(* The number of a claim stands for the lease, the token and the runner    *)
(* that come with it, 0 for NULL.  A handle is the number it was attached  *)
(* under: on the local backend it names that claim's workspace, on fly     *)
(* that claim's machine, on docker only the job, whichever container the   *)
(* daemon holds for it.  Timestamps are kept only as the ages the sweeps   *)
(* compare them with, the brief as the gates whose answers were appended   *)
(* to it.                                                                  *)
(***************************************************************************)
EXTENDS PhasePipeline

Terminal == {"done", "failed", "cancelled", "stalled", "budget_exceeded"}
Active == {"provisioning", "running", "applying"}
Status == Active \cup Terminal \cup {"queued", "waiting"}

\* Not a status: the row was not inserted yet, or it was deleted.
NoRow == {"unborn", "deleted"}

\* last_heartbeat_at against the heartbeat timeout.
Beat == {"null", "fresh", "stale"}
\* started_at: young, past the heartbeat timeout, past the wall-clock budget.
Age == {"null", "new", "quiet", "over"}
\* What the diff policy says of the job's diff; it is a function of the diff.
Policy == {"allow", "gate", "deny"}

\* Where a job's runner runs.
Backend == {"docker", "fly", "local"}

Row == [status : Status \cup NoRow, phase : Phase, kind : Kind, mode : Mode,
        backend : Backend,
        lease : Nat, handle : Nat, token : Nat, provision : Nat,
        diff : BOOLEAN, pr : BOOLEAN, briefed : SUBSET Nat,
        attempt : Nat, fp : Fingerprint, beat : Beat, age : Age,
        policy : Policy, resumed : BOOLEAN]

EmptyRow == [status |-> "unborn", phase |-> "analyze", kind |-> "fix_issue",
             mode |-> "gated", backend |-> "local",
             lease |-> 0, handle |-> 0, token |-> 0,
             provision |-> 1, diff |-> FALSE, pr |-> FALSE, briefed |-> {},
             attempt |-> 0, fp |-> "none", beat |-> "null", age |-> "null",
             policy |-> "allow", resumed |-> FALSE]

Exists(r) == r.status \notin NoRow
Ended(r) == r.status \in Terminal
Live(r) == Exists(r) /\ ~Ended(r)

Update(guard, new, old) == IF guard THEN new ELSE old

\* createJob: the status and phase a caller gives, else queued at analyze; the
\* pipeline mode is the column's default, gated.
CreateJob(status, phase, kind, backend, policy, resumed) ==
  [EmptyRow EXCEPT !.status = status, !.phase = phase, !.kind = kind,
                   !.backend = backend, !.policy = policy, !.resumed = resumed]

\* Mutant of Claimed: the claim already counts as running.
ClaimedRunning(r, c) == [r EXCEPT !.status = "running", !.lease = c, !.age = "new"]
\* claimNextQueued: the heartbeat of an earlier provision is left as it is.
CanClaim(r) == r.status = "queued"
Claimed(r, c) == [r EXCEPT !.status = "provisioning", !.lease = c, !.age = "new"]

\* prepareProvision: mint the runner token under the lease.
CanPrepare(r, c) == r.lease = c /\ Live(r)
Prepared(r, c) == [r EXCEPT !.token = c]

\* reissueRunnerToken: the daemon fetches the job's policy; no lease, no status.
CanReissue(r) == Exists(r)
Reissued(r, c) == [r EXCEPT !.token = c]

\* releaseClaim: only the lease holder, and only before a handle is attached.
CanRelease(r, c) == r.lease = c /\ r.status = "provisioning" /\ r.handle = 0
Released(r) == [r EXCEPT !.status = "queued", !.lease = 0, !.age = "null"]

\* setRunnerHandle; failing the guard is DevJobLeaseLostError.
CanAttach(r, c) == r.lease = c /\ Live(r)
Attached(r, c) == [r EXCEPT !.handle = c, !.beat = "fresh"]

CanTouch(r) == r.status \in Active
Touched(r) == [r EXCEPT !.beat = "fresh"]

CanMarkRunning(r) == r.status = "provisioning"
MarkedRunning(r) == [r EXCEPT !.status = "running"]

CanAdvance(r, from) == r.phase = from /\ Live(r)
Advanced(r, to) == [r EXCEPT !.phase = to]

CanSetReview(r) == Live(r)
ReviewSet(r, attempt, fp) == [r EXCEPT !.attempt = attempt, !.fp = fp]

\* Mutants of CanPark and Parked: no phase in the WHERE clause; the lease is kept.
CanParkAnywhere(r) == Live(r)
ParkedWithLease(r) == [r EXCEPT !.status = "waiting", !.handle = 0]
CanPark(r) == r.phase = "await_human" /\ Live(r)
Parked(r) == [r EXCEPT !.status = "waiting", !.lease = 0, !.handle = 0]

\* Mutant of CanRequeue: no phase in the WHERE clause.
CanRequeueAnywhere(r) == Live(r)
CanRequeue(r) == r.phase = "await_human" /\ Live(r)
RequeuedAt(r, phase) ==
  [r EXCEPT !.phase = phase, !.status = "queued", !.lease = 0, !.handle = 0,
            !.provision = r.provision + 1]

\* Mutant of CanParkForApply: no status in the WHERE clause.
CanParkForApplyAnyway(r) == Exists(r)
\* parkForApplyGate admits a failed row too, the one way out of a terminal status.
CanParkForApply(r) == r.status \in {"applying", "failed"}
ParkedForApply(r) == [r EXCEPT !.status = "waiting", !.lease = 0, !.handle = 0]

CanResumeApply(r) == r.status = "waiting" /\ r.phase # "await_human"
ResumedApply(r) == [r EXCEPT !.status = "applying"]

\* appendToBrief: one section per gate, recognised by its marker.
CanAppendBrief(r, g) == g \notin r.briefed /\ Live(r)
BriefAppended(r, g) == [r EXCEPT !.briefed = @ \cup {g}]

\* recordResult: diff_ready moves the row to applying, the rest only persist.
CanRecordResult(r) == Live(r)
ResultRecorded(r, outcome) ==
  IF outcome = "diff_ready" THEN [r EXCEPT !.status = "applying", !.diff = TRUE]
                            ELSE [r EXCEPT !.diff = FALSE]

\* Mutant of CanFinish: no status in the WHERE clause.
CanFinishAgain(r) == Exists(r)
\* finishTerminal: the status-guarded flip, pr_url kept once set.
CanFinish(r) == Live(r)
Finished(r, to, pr) == [r EXCEPT !.status = to, !.pr = r.pr \/ pr]

\* deleteJob and the retention purge: terminal rows only.  The backend outlives
\* the row here, for the runners and the flows that still know the job.
CanDelete(r) == Ended(r)
Deleted(r) == [EmptyRow EXCEPT !.status = "deleted", !.backend = r.backend]

\* The sweeps' reads.
Stalled(r) ==
  /\ r.status \in Active
  /\ r.beat = "stale" \/ (r.beat = "null" /\ r.age \in {"quiet", "over"})
\* Mutant of OverWallClock: only jobs whose runner is silent.
OverWallClockInSilence(r) == r.status \in Active /\ r.age = "over" /\ r.beat # "fresh"
OverWallClock(r) == r.status \in Active /\ r.age = "over"

\* applying has no runner: runner-liveness enforcement skips it.
HostSideApply(r) == r.status = "applying"

\* A job the apply route accepts a retry for.
FailedAfterDiff(r) == r.status = "failed" /\ r.diff

\* Time passes for a row: its heartbeat or its start grows older.
Clock == {"heartbeat", "wall_clock"}
Older(r, clock) ==
  IF clock = "heartbeat"
  THEN [r EXCEPT !.beat = IF r.beat = "fresh" THEN "stale" ELSE r.beat]
  ELSE [r EXCEPT !.age = CASE r.age = "new" -> "quiet"
                           [] r.age = "quiet" -> "over"
                           [] OTHER -> r.age]
=============================================================================
