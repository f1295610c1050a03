-------------------------- MODULE DevJobProperties --------------------------
(***************************************************************************)
(* What the dev-job lifecycle promises.                                    *)
(***************************************************************************)
EXTENDS DevJobSystem

\* Every variable has its type: the rows of dev_jobs and dev_job_gates, the
\* runners, the forge and the local variables of the control flows.
TypeOK ==
  /\ jobs \in [Jobs -> Row]
  /\ gates \in [GateIds -> Gate]
  /\ claims \in 0..MaxClaims
  /\ runners \in [Claims -> Runner]
  /\ forge \in [Jobs -> [branch : BOOLEAN, prs : Nat]]
  /\ procs \in [Procs -> Proc]
  /\ applying \in [Replicas -> SUBSET Jobs]
  /\ crashes \in 0..MaxCrashes

(***************************************************************************)
(* The row and its runner.                                                 *)
(***************************************************************************)
\* A parked or queued row holds neither lease nor runner handle, and a row in
\* the hands of a runner carries the handle of its current lease only
\* (claimNextQueued, setRunnerHandle, parkForGate, requeueAtPhase), whatever an
\* older claim's worker still has in flight.
LeaseDiscipline ==
  \A j \in Jobs :
    /\ jobs[j].status \in {"queued", "waiting"} => jobs[j].lease = 0 /\ jobs[j].handle = 0
    /\ jobs[j].status \in {"provisioning", "running"} =>
         jobs[j].lease \in 1..claims /\ jobs[j].handle \in {0, jobs[j].lease}

\* The runner a job runs on is that of its lease: only GET /spec with the token
\* minted under the current lease (prepareProvision) makes a job running.
RunsUnderItsLease ==
  \A j \in Jobs : jobs[j].status = "running" => jobs[j].token = jobs[j].lease

\* A handler that serves a runner changes the job's row only while that
\* runner's token is still the row's: what a runner of an earlier provision has
\* in flight when the job is requeued and claimed again changes nothing.
FencedStep(h) ==
  (procs[h].pc \in ReplyPc /\ procs'[h] # procs[h]
     /\ jobs'[procs[h].job] # jobs[procs[h].job])
  => jobs[procs[h].job].token = procs[h].claim
RunnerFenced == [][\A h \in Handlers : FencedStep(h)]_vars

\* No tick starts more runners than the configured cap leaves: a provisioning job
\* counts before its runner exists (countActiveJobs).  Replicas may count at the
\* same time, so each has the cap to itself.
WithinConcurrencyCap ==
  Cardinality({j \in Jobs : jobs[j].status \in {"provisioning", "running"}})
    <= Cardinality(Replicas) * MaxConcurrent

(***************************************************************************)
(* Ending a job.                                                           *)
(***************************************************************************)
\* A terminal row only changes by being deleted, by the token a provision still
\* under way mints for it, or by the diff-policy park of an operator's re-apply,
\* which takes a failed job back to waiting; every other statement in flight
\* misses it (finishTerminal's guard and its likes).
TerminalStep(j) ==
  (Ended(jobs[j]) /\ jobs'[j] # jobs[j]) =>
    \/ jobs'[j] = Deleted(jobs[j])
    \/ jobs'[j] = Reissued(jobs[j], jobs'[j].token)
    \/ jobs[j].status = "failed" /\ jobs'[j] = ParkedForApply(jobs[j])
TerminalIsFinal == [][\A j \in Jobs : TerminalStep(j)]_vars

(***************************************************************************)
(* The gates.                                                              *)
(***************************************************************************)
\* The phased runner of a gated job implements only after a human resolved the
\* job's review gate and the answers were appended to the brief; a clone that
\* resumes a failed job at its phase inherits the decision.
ImplementAfterApproval ==
  \A j \in Jobs :
    (Exists(jobs[j]) /\ jobs[j].phase \in {"implement", "review", "pr"} /\ ~jobs[j].resumed) =>
      \E g \in GatesOf(j, "review") : gates[g].status = "resolved" /\ g \in jobs[j].briefed

\* One approval requeues its job once, however often the resolve route re-drives
\* it: provisions after the first are counted by resolved review gates.
Approvals(j) == {g \in GatesOf(j, "review") : gates[g].status = "resolved"}
ApprovalRequeuesOnce ==
  \A j \in Jobs : Exists(jobs[j]) => jobs[j].provision <= 1 + Cardinality(Approvals(j))

\* Flows that still act for a waiting job: opening its gate, or driving or
\* expiring the gate it waits at.
Tending(p, j) ==
  /\ procs[p].job = j
  /\ procs[p].pc \in {"held_open", "resolve", "resolve_stuck", "brief", "requeue",
                      "resume_guard", "resume", "fin_read", "fin_flip"}

\* No claim of j got as far as a runner.
NeverRan(j) == \A c \in Claims : runners[c].stage # "none" => runners[c].job # j
Expired(j) == \E g \in GateIds : gates[g].job = j /\ gates[g].status = "expired"

\* A waiting job waits for somebody: a gate of it is open, or was decided (the
\* resolve route then re-drives the decision), or a flow is about to act.  Only a
\* crash leaves a job waiting for nobody, and only where its gate has expired and
\* it was to be cancelled, or its first-source gate was still to be opened: between
\* the gate and the park, a phase and an apply may crash anywhere.
WaitingIsActionable ==
  \A j \in Jobs : jobs[j].status = "waiting" =>
    \/ \E g \in GateIds : gates[g].job = j /\ gates[g].status \in {"waiting", "resolved", "rejected"}
    \/ \E p \in Procs : Tending(p, j)
    \/ crashes > 0 /\ (Expired(j) \/ NeverRan(j))

\* Once a holder approved a job's diff, no apply that starts to judge it asks for
\* approval again, be it the resumed one, the sweep after a crash or an
\* operator's retry: the approval is read from the gate table.
JudgedAgain(p) ==
  (At(p, "apply_judge") /\ ApprovedGate(procs[p].job, "diff_policy"))
    => procs'[p].pc # "apply_gate"
ApprovalSurvives == [][\A p \in Procs : JudgedAgain(p)]_vars

\* A job that waits for a human does not wait for ever: its gate is decided, or
\* the deadline tick expires it and cancels the job, unless a replica crashes.
WaitEnds ==
  \A j \in Jobs : jobs[j].status = "waiting" ~> (jobs[j].status # "waiting" \/ crashes > 0)

\* A claimed job never stays wedged, even if its runner dies without a word or
\* its replica crashes: it is reaped, swept, applied, parked or ended.
ClaimEnds == \A j \in Jobs : jobs[j].status \in Active ~> jobs[j].status \notin Active

(***************************************************************************)
(* The host-side apply.                                                    *)
(***************************************************************************)
\* However many applies, retries, sweeps and replicas race, a job has at most
\* one pull request.
OnePullRequestPerJob == \A j \in Jobs : forge[j].prs <= 1

\* The diff policy has the last word before the forge is written: a denied diff
\* never gets a branch, a gated one only after a holder resolved its gate.
PolicyRespected ==
  \A j \in Jobs : (Exists(jobs[j]) /\ forge[j].branch) =>
    \/ jobs[j].policy = "allow"
    \/ jobs[j].policy = "gate" /\ ApprovedGate(j, "diff_policy")

(***************************************************************************)
(* The detailed system keeps the promise of DevJobLifecycle: a row's       *)
(* status is the job's stage, the forge holds its pull requests.           *)
(***************************************************************************)
StageOf(r) ==
  CASE r.status = "unborn" -> "none"
    [] r.status = "deleted" -> "gone"
    [] r.status \in {"provisioning", "running"} -> "working"
    [] r.status = "waiting" -> "parked"
    [] r.status \in Terminal \ {"failed"} -> "ended"
    [] OTHER -> r.status

Lifecycle == INSTANCE DevJobLifecycle
  WITH stage <- [j \in Jobs |-> StageOf(jobs[j])],
       published <- [j \in Jobs |-> forge[j].prs]

\* Every step of the detailed system is a step of the lifecycle or none.
KeepsLifecycle == Lifecycle!Spec
=============================================================================
