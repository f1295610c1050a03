---------------------------- MODULE DevJobWorker ----------------------------
(***************************************************************************)
(* DevJobWorker: one control loop per replica.  A tick applies the jobs    *)
(* runners left in `applying', enforces the timeouts, reaps dead runners   *)
(* and then claims and provisions queued jobs up to the concurrency cap.   *)
(* Ticks of one replica never overlap; those of two replicas may.          *)
(***************************************************************************)
EXTENDS DiffApply

\* Mutant of ActiveJobs: a job counts once its runner has started.
RunningJobs == {j \in Jobs : jobs[j].status = "running"}
ActiveJobs == {j \in Jobs : jobs[j].status \in Active}

\* Walk a list at `pc', if it is not empty, and go on at `after'.
Walk(w, pc, after, js) ==
  procs' = [procs EXCEPT ![w] = [Idle EXCEPT !.pc = IF js = {} THEN after ELSE pc,
                                             !.todo = js]]

Unmoved == UNCHANGED <<jobs, gates, claims, runners, forge, applying, crashes>>

\* applyReady: list the applying jobs.
TickStart(w) ==
  /\ At(w, "idle")
  /\ Walk(w, "apply_next", "wall_list", {j \in Jobs : jobs[j].status = "applying"})
  /\ Unmoved

\* One listed job: skipped when an apply of it is in flight on this replica.
ApplyNext(w) ==
  /\ At(w, "apply_next")
  /\ IF procs[w].todo = {}
     THEN Goto(w, "wall_list") /\ UNCHANGED applying
     ELSE \E j \in procs[w].todo :
            LET rest == procs[w].todo \ {j} IN
            IF j \in applying[w]
            THEN Walk(w, "apply_next", "wall_list", rest) /\ UNCHANGED applying
            ELSE EnterApply(w, j, w, FALSE, rest, "apply_next")
  /\ UNCHANGED <<jobs, gates, claims, runners, forge, crashes>>

\* enforceTimeouts: each list is read once and then finalized job by job.
WallClockList(w) ==
  /\ At(w, "wall_list")
  /\ Walk(w, "wall_next", "stall_list",
          {j \in Jobs : OverWallClock(jobs[j]) /\ ~HostSideApply(jobs[j])})
  /\ Unmoved

StallList(w) ==
  /\ At(w, "stall_list")
  /\ Walk(w, "stall_next", "reap_list",
          {j \in Jobs : Stalled(jobs[j]) /\ ~HostSideApply(jobs[j])})
  /\ Unmoved

SweepNext(w, pc, to, after) ==
  /\ At(w, pc)
  /\ IF procs[w].todo = {}
     THEN Goto(w, after)
     ELSE \E j \in procs[w].todo :
            procs' = [procs EXCEPT ![w].pc = "fin_read", ![w].job = j, ![w].to = to,
                        ![w].pr = FALSE, ![w].next = pc, ![w].todo = @ \ {j}]
  /\ Unmoved

WallClockNext(w) == SweepNext(w, "wall_next", "budget_exceeded", "stall_list")
StallNext(w) == SweepNext(w, "stall_next", "stalled", "reap_list")

\* What a backend's reap takes for lost: docker, a job the daemon holds nothing
\* for; fly, a machine of a job that is not live; local, a dead workspace (one of
\* an earlier process of the replica is killed first, which is a RunnerDies).
Reapable(c) ==
  LET j == runners[c].job IN
  /\ runners[c].stage # "none"
  /\ CASE jobs[j].backend = "docker" -> Held(j) = {}
       [] jobs[j].backend = "fly" -> runners[c].stage # "removed" /\ ~Live(jobs[j])
       [] jobs[j].backend = "local" -> runners[c].stage = "gone"

\* reapBackends: each backend removes what it takes for lost and answers with
\* the handles; it may know only some of them, or fail to answer.
ReapList(w) ==
  /\ At(w, "reap_list")
  /\ \E lost \in SUBSET {c \in Claims : Reapable(c)} :
       /\ procs' = [procs EXCEPT ![w] = [Idle EXCEPT !.dead = lost,
                                   !.pc = IF lost = {} THEN "count" ELSE "reap_next"]]
       /\ runners' = [c \in Claims |-> IF c \in lost THEN Torn(runners[c]) ELSE runners[c]]
  /\ UNCHANGED <<jobs, gates, claims, forge, applying, crashes>>

\* findActiveByHandleId: the provisioning or running job that carries the id of
\* the handle, which on docker and fly is the id of the job.
HandleOwners(c) ==
  {j \in Jobs : /\ jobs[j].status \in {"provisioning", "running"} /\ jobs[j].handle # 0
                /\ IF jobs[j].backend = "local" THEN jobs[j].handle = c ELSE runners[c].job = j}

ReapNext(w) ==
  /\ At(w, "reap_next")
  /\ IF procs[w].dead = {}
     THEN Goto(w, "count")
     ELSE \E c \in procs[w].dead :
            IF HandleOwners(c) = {}
            THEN procs' = [procs EXCEPT ![w].dead = @ \ {c}]
            ELSE \E j \in HandleOwners(c) :
                   procs' = [procs EXCEPT ![w].pc = "fin_read", ![w].job = j,
                               ![w].to = "stalled", ![w].pr = FALSE,
                               ![w].next = "reap_next", ![w].dead = @ \ {c}]
  /\ Unmoved

\* claimAndProvision: the free slots are counted once per tick.
CountSlots(w) ==
  /\ At(w, "count")
  /\ procs' = [procs EXCEPT ![w] = [Idle EXCEPT !.pc = "claim",
                              !.slots = MaxConcurrent - Cardinality(ActiveJobs)]]
  /\ Unmoved

Claim(w) ==
  /\ At(w, "claim")
  /\ procs[w].slots > 0 /\ claims < MaxClaims
  /\ \E j \in Jobs :
       /\ CanClaim(jobs[j])
       /\ Write(j, CanClaim(jobs[j]), Claimed(jobs[j], claims + 1))
       /\ procs' = [procs EXCEPT ![w].pc = "prepare", ![w].job = j,
                      ![w].claim = claims + 1, ![w].slots = @ - 1]
  /\ claims' = claims + 1
  /\ UNCHANGED <<gates, runners, forge, applying, crashes>>

\* No slot, no queued job or a failed claim ends the tick.
TickEnd(w) == At(w, "claim") /\ Leave(w) /\ Unmoved

(***************************************************************************)
(* provisionOne; a job that is provisioned, or not, lets the next be claimed. *)
(***************************************************************************)
NextClaim(w) ==
  procs' = [procs EXCEPT ![w] = [Idle EXCEPT !.pc = "claim", !.slots = procs[w].slots]]

\* Admission, the base pin and the token.  A refusal finalizes the job failed;
\* so does DevJobLeaseLostError, caught by the same outer handler.
Prepare(w) ==
  /\ At(w, "prepare")
  /\ \/ /\ CanPrepare(JobOf(w), procs[w].claim)
        /\ Write(procs[w].job, TRUE, Prepared(JobOf(w), procs[w].claim))
        /\ Goto(w, "provision")
     \/ UNCHANGED jobs /\ CallFinalize(w, "failed", FALSE, "claim")
  /\ UNCHANGED <<gates, claims, runners, forge, applying, crashes>>

\* The shim runs the phase loop when its environment says so: the docker daemon
\* passes the pipeline mode on, the fly and local backends build an environment
\* without it and get the single-shot shim.
Shim(r) == IF r.backend = "docker" /\ r.mode = "gated" THEN "phased" ELSE "single"

OnDocker(w) == JobOf(w).backend = "docker"
Answered(w) == Goto(w, "attach") \/ CallFinalize(w, "failed", FALSE, "claim")

\* The daemon that is about to start a container fetches the job's policy, and
\* with it a token minted anew; a job it has a container for is left as it is.
FetchPolicy(w) ==
  Write(procs[w].job,
        OnDocker(w) /\ Held(procs[w].job) = {} /\ CanReissue(JobOf(w)),
        Reissued(JobOf(w), procs[w].claim))

Start(w) ==
  /\ OnDocker(w) => Exists(JobOf(w)) /\ Held(procs[w].job) = {}
  /\ FetchPolicy(w)
  /\ runners' = [runners EXCEPT ![procs[w].claim] =
                   [NoRunner EXCEPT !.stage = "boot", !.shim = Shim(JobOf(w)),
                                    !.job = procs[w].job]]
  /\ Answered(w)

\* JobManager.create: the existing record is the answer, even if its container
\* has exited.
Adopt(w) ==
  /\ OnDocker(w) /\ Held(procs[w].job) # {}
  /\ Answered(w)
  /\ UNCHANGED <<jobs, runners>>

AtCapacity(w) ==
  /\ Held(procs[w].job) = {}
  /\ Goto(w, "release")
  /\ UNCHANGED <<jobs, runners>>

Refused(w) ==
  /\ FetchPolicy(w) \/ UNCHANGED jobs
  /\ CallFinalize(w, "failed", FALSE, "claim")
  /\ UNCHANGED runners

\* backend.provision: a runner starts, or is found (the answer may be lost), or
\* the backend is at capacity, or it refuses.
Provision(w) ==
  /\ At(w, "provision")
  /\ Start(w) \/ Adopt(w) \/ AtCapacity(w) \/ Refused(w)
  /\ UNCHANGED <<gates, claims, forge, applying, crashes>>

\* At capacity: rewind the claim, unless the lease was lost.
Release(w) ==
  /\ At(w, "release")
  /\ Write(procs[w].job, CanRelease(JobOf(w), procs[w].claim), Released(JobOf(w)))
  /\ NextClaim(w)
  /\ UNCHANGED <<gates, claims, runners, forge, applying, crashes>>

\* setRunnerHandle; when it throws (a lost lease, or any error) the runner is
\* torn down instead.
Attach(w) ==
  /\ At(w, "attach")
  /\ \/ /\ CanAttach(JobOf(w), procs[w].claim)
        /\ Write(procs[w].job, TRUE, Attached(JobOf(w), procs[w].claim))
        /\ NextClaim(w)
     \/ UNCHANGED jobs /\ Goto(w, "orphan")
  /\ UNCHANGED <<gates, claims, runners, forge, applying, crashes>>

\* A teardown that fails is left to the backend's reaper.
Orphan(w) ==
  /\ At(w, "orphan")
  /\ TearDown(procs[w].job, procs[w].claim) \/ UNCHANGED runners
  /\ NextClaim(w)
  /\ UNCHANGED <<jobs, gates, claims, forge, applying, crashes>>

Enforce(w) == WallClockList(w) \/ WallClockNext(w) \/ StallList(w) \/ StallNext(w)
Reap(w) == ReapList(w) \/ ReapNext(w)
ClaimAndProvision(w) ==
  \/ CountSlots(w) \/ Claim(w) \/ TickEnd(w)
  \/ Prepare(w) \/ Provision(w) \/ Release(w) \/ Attach(w) \/ Orphan(w)

WorkerStep(w) ==
  TickStart(w) \/ ApplyNext(w) \/ Enforce(w) \/ Reap(w) \/ ClaimAndProvision(w)
=============================================================================
