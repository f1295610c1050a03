----------------------------- MODULE RunnerApi -----------------------------
(***************************************************************************)
(* The runners and the token-authenticated API they call home to.  A call  *)
(* is authenticated against the row's current token hash and works on the  *)
(* row read at that moment, awaits later.  A refused call ends the runner  *)
(* (every shim exits on a non-2xx answer).                                 *)
(***************************************************************************)
EXTENDS DevJobState

Working(c) == runners[c].stage \in {"boot", "work", "call"}
RunnerJob(c) == jobs[runners[c].job]

\* verifyRunnerToken: the token of an older claim is refused.
Authentic(c) == Exists(RunnerJob(c)) /\ RunnerJob(c).token = c
\* statusGate of every call but the heartbeat.
InRun(r) == r.status \in {"provisioning", "running"}

\* The call handler h serves is answered: the runner goes on, or exits.  A
\* runner that died meanwhile misses the answer.
Answer(h, phase) ==
  runners' = [runners EXCEPT ![procs[h].claim] =
    IF @.stage = "call" THEN [@ EXCEPT !.stage = "work", !.phase = phase] ELSE @]
Dismiss(h) ==
  runners' = [runners EXCEPT ![procs[h].claim] = IF @.stage = "call" THEN Over(@) ELSE @]

\* Runner c calls; a free handler of a replica authenticates the call and keeps
\* the row it read, or answers 401, 409 or 410 at once.
Serve(c, h, at, pc, goal) ==
  procs' = [procs EXCEPT ![h] = [Idle EXCEPT !.pc = pc, !.at = at, !.claim = c,
              !.job = runners[c].job, !.row = RunnerJob(c), !.goal = goal]]

Call(c, h, at, stage, pc, goal) ==
  /\ runners[c].stage = stage
  /\ At(h, "idle")
  /\ IF Authentic(c) /\ InRun(RunnerJob(c))
     THEN /\ runners' = [runners EXCEPT ![c].stage = "call"]
          /\ Serve(c, h, at, pc, goal)
     ELSE runners' = [runners EXCEPT ![c] = Over(@)] /\ UNCHANGED procs
  /\ UNCHANGED <<jobs, gates, claims, forge, applying, crashes>>

(***************************************************************************)
(* GET /spec: flips provisioning to running; the answer carries the phase  *)
(* of the row as it was authenticated.                                     *)
(***************************************************************************)
SpecCall(c, h, at) == Call(c, h, at, "boot", "spec", "none")

SpecReply(h) ==
  /\ At(h, "spec")
  /\ Write(procs[h].job, procs[h].row.status = "provisioning" /\ CanMarkRunning(JobOf(h)),
           MarkedRunning(JobOf(h)))
  /\ Answer(h, procs[h].row.phase)
  /\ Leave(h)
  /\ UNCHANGED <<gates, claims, forge, applying, crashes>>

\* POST /heartbeat and /events: liveness only.
Heartbeat(c) ==
  /\ runners[c].stage \in {"work", "call"}
  /\ Authentic(c)
  /\ CanTouch(RunnerJob(c)) /\ RunnerJob(c).beat # "fresh"
  /\ Write(runners[c].job, TRUE, Touched(RunnerJob(c)))
  /\ UNCHANGED <<gates, claims, runners, forge, procs, applying, crashes>>

(***************************************************************************)
(* POST /result, the single-shot shim's last call: persist, then finalize  *)
(* unless a diff is ready.  diff_ready needs an artifact of this job.      *)
(***************************************************************************)
ResultCall(c, h, at) ==
  /\ runners[c].shim = "single"
  /\ \E outcome \in Outcome : Call(c, h, at, "work", "result", outcome)

ResultRecord(h) ==
  /\ At(h, "result")
  /\ Write(procs[h].job, CanRecordResult(JobOf(h)), ResultRecorded(JobOf(h), procs[h].goal))
  /\ IF procs[h].goal = "diff_ready"
     THEN Dismiss(h) /\ Leave(h)
     ELSE /\ CallFinalize(h, IF procs[h].goal = "failed" THEN "failed" ELSE "done",
                          FALSE, "reply_exit")
          /\ UNCHANGED runners
  /\ UNCHANGED <<gates, claims, forge, applying, crashes>>

\* The last answer of a runner: it exits when it hears it.
ReplyExit(h) ==
  /\ At(h, "reply_exit")
  /\ Dismiss(h)
  /\ Leave(h)
  /\ UNCHANGED <<jobs, gates, claims, forge, applying, crashes>>

(***************************************************************************)
(* POST /phase-result (PhaseEngine.handlePhaseResult), judged on the row   *)
(* as it was authenticated.  The phased shim refuses to run a host-only    *)
(* phase, so it reports such a phase as failed.                            *)
(***************************************************************************)
Verdicts(phase, ok) == IF phase = "review" /\ ok THEN Verdict \cup {Malformed} ELSE {NoVerdict}

\* The pc that starts carrying out a transition, and the flow's own copy of it;
\* fail and done finalize the job, and so does a requeue, which no runner causes.
PcOf(act) ==
  CASE act \in {"advance", "retry_implement"} -> "advance"
    [] act = "park" -> "park_advance"
    [] OTHER -> "fin_read"

Carry(h, t) ==
  /\ procs' = [procs EXCEPT ![h].pc = PcOf(t.act), ![h].goal = t.to,
                 ![h].to = IF t.act = "done" THEN "done" ELSE "failed",
                 ![h].next = IF PcOf(t.act) = "fin_read" THEN "reply_exit" ELSE "idle"]

PhaseCall(c, h, at) ==
  /\ runners[c].shim = "phased"
  /\ Call(c, h, at, "work", "phase", "none")

\* Stale phase: 409, the result is discarded.  Otherwise the review loop reads
\* attempt and fingerprint from the row and writes back before the transition.
PhaseJudge(h) ==
  /\ At(h, "phase")
  /\ LET row == procs[h].row
         phase == runners[procs[h].claim].phase
     IN IF phase # row.phase
        THEN Dismiss(h) /\ Leave(h) /\ UNCHANGED jobs
        ELSE /\ UNCHANGED runners
             /\ \E ok \in {FALSE} \cup (IF phase \in Runnable THEN {TRUE} ELSE {}) :
                \E v \in Verdicts(phase, ok) :
                  LET d == DecideReview(v, row.attempt, row.fp)
                      review == IF v.ask \in {"approve", "request_changes"}
                                THEN d.action ELSE "approve"
                  IN /\ Write(procs[h].job, review # "approve" /\ CanSetReview(JobOf(h)),
                              ReviewSet(JobOf(h), d.attempt, d.fp))
                     /\ Carry(h, IF v = Malformed THEN To("fail", phase)
                                 ELSE ComputeTransition(phase, ok, review, row.mode, row.kind))
  /\ UNCHANGED <<gates, claims, forge, applying, crashes>>

\* advance and retry_implement: the CAS on the phase, then `next'.
PhaseAdvance(h) ==
  /\ At(h, "advance")
  /\ LET moved == CanAdvance(JobOf(h), procs[h].row.phase) IN
     /\ Write(procs[h].job, moved, Advanced(JobOf(h), procs[h].goal))
     /\ IF moved THEN Answer(h, procs[h].goal) ELSE Dismiss(h)
  /\ Leave(h)
  /\ UNCHANGED <<gates, claims, forge, applying, crashes>>

\* park: the phase pointer, the gate, the row, three statements and then `park'.
ParkAdvance(h) ==
  /\ At(h, "park_advance")
  /\ LET moved == CanAdvance(JobOf(h), "clarify") IN
     /\ Write(procs[h].job, moved, Advanced(JobOf(h), "await_human"))
     /\ IF moved THEN Goto(h, "park_open") /\ UNCHANGED runners
                 ELSE Leave(h) /\ Dismiss(h)
  /\ UNCHANGED <<gates, claims, forge, applying, crashes>>

ParkOpen(h) ==
  /\ At(h, "park_open")
  /\ CanOpen(procs[h].job)
  /\ OpenGate(procs[h].job, "review")
  /\ Goto(h, "park_row")
  /\ UNCHANGED <<jobs, claims, runners, forge, applying, crashes>>

ParkRow(h) ==
  /\ At(h, "park_row")
  /\ Write(procs[h].job, CanPark(JobOf(h)), Parked(JobOf(h)))
  /\ Goto(h, "reply_exit")
  /\ UNCHANGED <<gates, claims, runners, forge, applying, crashes>>

RunnerApiStep(c, h, at) ==
  SpecCall(c, h, at) \/ ResultCall(c, h, at) \/ PhaseCall(c, h, at)

ReplyStep(h) ==
  \/ SpecReply(h) \/ ResultRecord(h) \/ ReplyExit(h) \/ PhaseJudge(h)
  \/ PhaseAdvance(h) \/ ParkAdvance(h) \/ ParkOpen(h) \/ ParkRow(h)
=============================================================================
