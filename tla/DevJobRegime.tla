----------------------------- MODULE DevJobRegime -----------------------------
(***************************************************************************)
(* The regime holds: what a runner of an older claim has in flight changes *)
(* nothing, a job runs under its lease, the runner of a gated job          *)
(* implements only what was approved, each job goes through the stages of  *)
(* DevJobLifecycle, and a waiting job waits for somebody.                  *)
(***************************************************************************)
EXTENDS DevJobFencing

FenceInv ==
  /\ Numbered /\ Serving /\ Gated
  /\ \A j \in Jobs : Regime(j)
  /\ \A p \in Procs : HasDiff(p)

(***************************************************************************)
(* The regime over the steps of one flow that are quiet.                   *)
(***************************************************************************)
LEMMA MinorKeeps ==
  ASSUME TypeInv, Serving', NEW j \in Jobs, Regime(j), Quiet(j),
         jobs'[j] = jobs[j] \/ Minor(jobs[j], jobs'[j])
  PROVE  (Regime(j))'
<1>1. jobs[j] \in Row
  BY DEF TypeInv
<1>2. Minor(jobs[j], jobs'[j])
  BY <1>1, MinorStatements
<1> QED BY <1>2, UndisturbedKeeps

LEMMA ProvisionRegime ==
  ASSUME TypeInv, FenceInv, Serving', NEW w \in Replicas, NEW j \in Jobs, Quiet(j),
         Prepare(w) \/ (Provision(w) /\ UNCHANGED runners) \/ Release(w)
  PROVE  (Regime(j))'
<1> DEFINE k == procs[w].job
<1>0. /\ jobs \in [Jobs -> Row] /\ w \in Procs /\ Numbered /\ Serving /\ Regime(j)
      /\ procs \in [Procs -> Proc]
  BY DEF TypeInv, GoodProc, Procs, FenceInv
<1>1. Early(w) /\ procs[w].pc \notin LoopPc
  BY DEF Prepare, Provision, Release, At, Early, EarlyPc, LoopPc
<1>2. k \in Jobs /\ JobOf(w) = jobs[k]
  BY <1>0, <1>1, JobTyped DEF JobOf
<1>3. ASSUME NEW guard, NEW new, Write(k, guard, new)
      PROVE  jobs'[j] = jobs[j] \/ (j = k /\ guard /\ jobs'[j] = new)
  BY <1>0, <1>2, <1>3 DEF Write, Update
<1>4. CASE Prepare(w) \/ (Provision(w) /\ UNCHANGED runners)
  <2>1. jobs'[j] = jobs[j] \/ (j = k /\ jobs'[j] = [jobs[j] EXCEPT !.token = procs[w].claim])
    <3>1. CASE Prepare(w)
      BY <1>2, <1>3, <3>1 DEF Prepare, Prepared
    <3>2. CASE Provision(w)
      BY <1>2, <1>3, <3>2 DEF Provision, Start, Adopt, AtCapacity, Refused, FetchPolicy, Reissued
    <3> QED BY <1>4, <3>1, <3>2
  <2> QED BY <1>0, <1>1, <2>1, MinorKeeps, TokenKeeps
<1>5. CASE Release(w)
  <2>1. jobs'[j] = jobs[j] \/ (j = k /\ jobs[j].status = "provisioning" /\ jobs'[j] = Released(jobs[j]))
    BY <1>2, <1>3, <1>5 DEF Release, CanRelease
  <2>2. ~(Early(w))'
    <3>1. [Idle EXCEPT !.pc = "claim", !.slots = procs[w].slots].pc = "claim"
      BY DEF Idle
    <3>2. procs'[w].pc = "claim"
      BY <1>0, <1>5, <3>1 DEF Release, NextClaim
    <3> QED BY <3>2 DEF Early, EarlyPc
  <2> QED BY <1>0, <1>1, <2>1, <2>2, MinorKeeps, ReleaseKeeps
<1> QED BY <1>4, <1>5

LEMMA ReplyRegime ==
  ASSUME TypeInv, FenceInv, Serving', NEW h \in Handlers, NEW j \in Jobs, Quiet(j),
         ResultRecord(h) \/ PhaseJudge(h) \/ ParkOpen(h) \/ ParkRow(h)
  PROVE  (Regime(j))'
<1> DEFINE k == procs[h].job
<1>0. /\ jobs \in [Jobs -> Row] /\ h \in Procs /\ Numbered /\ Serving /\ Regime(j)
      /\ procs \in [Procs -> Proc]
  BY DEF TypeInv, GoodProc, Procs, FenceInv
<1>1. Replying(h) /\ procs[h].pc \notin LoopPc
  BY DEF ResultRecord, PhaseJudge, ParkOpen, ParkRow, At, Replying, ReplyPc, LoopPc
<1>2. k \in Jobs /\ JobOf(h) = jobs[k]
  BY <1>0, <1>1, JobTyped DEF JobOf
<1>3. ASSUME NEW guard, NEW new, Write(k, guard, new)
      PROVE  jobs'[j] = jobs[j] \/ (j = k /\ guard /\ jobs'[j] = new)
  BY <1>0, <1>2, <1>3 DEF Write, Update
<1>4. CASE ResultRecord(h)
  <2>1. jobs'[j] = jobs[j] \/ (j = k /\ Live(jobs[j]) /\ jobs'[j] = ResultRecorded(jobs[j], procs[h].goal))
    BY <1>2, <1>3, <1>4 DEF ResultRecord, CanRecordResult
  <2>2. ~AtPark(h) /\ ~(Replying(h))'
    BY <1>0, <1>4, ReplyingMoves DEF Replies, ResultRecord, At, AtPark, Replying, ReplyPc
  <2>3. CASE j = k /\ Live(jobs[j]) /\ jobs'[j] = ResultRecorded(jobs[j], procs[h].goal)
    <3>1. CASE procs[h].goal = "diff_ready"
      <4>1. jobs'[j] = [jobs[j] EXCEPT !.status = "applying", !.diff = TRUE]
        BY <2>3, <3>1 DEF ResultRecorded
      <4> QED BY <1>0, <1>1, <2>2, <2>3, <4>1, ResultKeeps
    <3>2. CASE procs[h].goal # "diff_ready"
      <4>1. jobs'[j] = [jobs[j] EXCEPT !.diff = FALSE]
        BY <2>3, <3>2 DEF ResultRecorded
      <4>2. ~jobs[j].diff
        BY <1>0, <1>1, <2>2, <2>3, ServedEarlier DEF Live
      <4>3. Minor(jobs[j], jobs'[j])
        BY <1>0, <4>1, <4>2 DEF Minor, Row
      <4> QED BY <1>0, <4>3, MinorKeeps
    <3> QED BY <3>1, <3>2
  <2> QED BY <1>0, <2>1, <2>3, MinorKeeps
<1>5. CASE PhaseJudge(h)
  <2>1. UNCHANGED jobs \/ Minor(jobs[j], jobs'[j])
    <3>1. ASSUME NEW ok \in BOOLEAN, NEW review \in ReviewAction, NEW n \in Nat, NEW f \in Fingerprint,
                 Judging(h, ok, review, n, f)
          PROVE  Minor(jobs[j], jobs'[j])
      <4>1. PICK guard : Write(k, guard /\ CanSetReview(JobOf(h)), ReviewSet(JobOf(h), n, f))
        BY <3>1 DEF Judging
      <4>2. Minor(jobs[k], ReviewSet(jobs[k], n, f))
        BY <1>0, <1>2, MinorStatements
      <4> QED BY <1>0, <1>2, <4>1, <4>2, MinorWrite
    <3> QED BY <1>0, <1>5, <3>1, JudgeMoves
  <2> QED BY <1>0, <2>1, MinorKeeps
<1>6. CASE ParkOpen(h)
  BY <1>0, <1>6, MinorKeeps DEF ParkOpen
<1>7. CASE ParkRow(h)
  <2>1. jobs'[j] = jobs[j] \/ (j = k /\ CanPark(jobs[j]) /\ jobs'[j] = Parked(jobs[j]))
    BY <1>2, <1>3, <1>7 DEF ParkRow
  <2>2. ~(Replying(h))'
    BY <1>0, <1>7, ReplyingMoves DEF Replies, Replying, ReplyPc
  <2> QED BY <1>0, <1>1, <2>1, <2>2, MinorKeeps, ParkKeeps
<1> QED BY <1>4, <1>5, <1>6, <1>7

LEMMA DecideRegime ==
  ASSUME TypeInv, GateInv, FenceInv, Serving', NEW h \in Handlers, NEW j \in Jobs, Quiet(j), Decides(h)
  PROVE  (Regime(j))'
<1> DEFINE k == procs[h].job
<1>0. /\ jobs \in [Jobs -> Row] /\ h \in Procs /\ Numbered /\ Serving /\ Regime(j)
      /\ procs \in [Procs -> Proc]
  BY DEF TypeInv, GoodProc, Procs, FenceInv
<1>1. procs[h].pc \notin LoopPc
  BY DEF Decides, ResolveFlip, ResolveStuck, DriveBrief, DriveRequeue, ResumeGuard, ResumeFlip, At, LoopPc
<1>2. k \in Jobs /\ JobOf(h) = jobs[k]
  BY <1>0, <1>1, JobTyped DEF JobOf
<1>3. ASSUME NEW guard, NEW new, Write(k, guard, new)
      PROVE  jobs'[j] = jobs[j] \/ (j = k /\ guard /\ jobs'[j] = new)
  BY <1>0, <1>2, <1>3 DEF Write, Update
<1>4. CASE UNCHANGED jobs
  BY <1>0, <1>4, MinorKeeps
<1>5. CASE DriveBrief(h)
  <2>1. procs[h].gate \in Nat
    BY <1>0 DEF Proc
  <2>2. jobs'[j] = jobs[j] \/ jobs'[j] = BriefAppended(jobs[j], procs[h].gate)
    BY <1>2, <1>3, <1>5 DEF DriveBrief
  <2>3. Minor(jobs[j], BriefAppended(jobs[j], procs[h].gate))
    BY <1>0, <2>1, MinorStatements
  <2> QED BY <1>0, <2>2, <2>3, MinorKeeps
<1>6. CASE DriveRequeue(h)
  <2>1. jobs'[j] = jobs[j] \/ (j = k /\ CanRequeue(jobs[j]) /\ jobs'[j] = RequeuedAt(jobs[j], "implement"))
    BY <1>2, <1>3, <1>6 DEF DriveRequeue
  <2>2. ASSUME j = k, CanRequeue(jobs[j])
        PROVE  PlanGate(j)
    <3>1. procs[h].pc = "requeue" /\ Exists(JobOf(h)) /\ GateFlow(h)
      BY <1>0, <1>2, <1>6, <2>2 DEF DriveRequeue, At, CanRequeue, Live, GateInv
    <3>2. LET g == procs[h].gate
          IN g \in GateIds /\ Opened(g) /\ gates[g].job = j /\ gates[g].kind = "review"
      BY <2>2, <3>1 DEF GateFlow, GateFlowPc
    <3> QED BY <3>2 DEF PlanGate, GatesOf
  <2> QED BY <1>0, <2>1, <2>2, MinorKeeps, RequeueKeeps
<1>7. CASE ResumeFlip(h)
  <2>1. jobs'[j] = jobs[j] \/ (j = k /\ CanResumeApply(jobs[j]) /\ jobs'[j] = ResumedApply(jobs[j]))
    BY <1>2, <1>3, <1>7 DEF ResumeFlip
  <2>2. ASSUME CanResumeApply(jobs[j]), jobs'[j] = ResumedApply(jobs[j])
        PROVE  /\ jobs[j].diff /\ jobs'[j].status = "applying" /\ jobs'[j].diff
               /\ jobs'[j].phase = jobs[j].phase
    <3>1. jobs[j].diff
      BY <1>0, <2>2 DEF CanResumeApply, Regime, Handed
    <3> QED BY <1>0, <2>2, <3>1 DEF ResumedApply, Row
  <2> QED BY <1>0, <2>1, <2>2, MinorKeeps, ApplyWaitKeeps
<1> QED BY <1>4, <1>5, <1>6, <1>7 DEF Decides, ResolveFlip, ResolveStuck, ResumeGuard

LEMMA ApplyRegime ==
  ASSUME TypeInv, FenceInv, Serving', NEW p \in Procs, NEW j \in Jobs, Quiet(j), Applies(p)
  PROVE  (Regime(j))'
<1> DEFINE k == procs[p].job
<1>0. jobs \in [Jobs -> Row] /\ Regime(j) /\ HasDiff(p)
  BY DEF TypeInv, FenceInv
<1>1. CASE UNCHANGED jobs
  BY <1>0, <1>1, MinorKeeps
<1>2. CASE ApplyPark(p)
  <2>1. procs[p].pc = "apply_park" /\ procs[p].pc \notin LoopPc
    BY <1>2 DEF ApplyPark, At, LoopPc
  <2>2. k \in Jobs /\ JobOf(p) = jobs[k]
    BY <2>1, JobTyped DEF JobOf
  <2>3. jobs'[j] = jobs[j] \/ (j = k /\ CanParkForApply(jobs[j]) /\ jobs'[j] = ParkedForApply(jobs[j]))
    BY <1>0, <1>2, <2>2 DEF ApplyPark, Write, Update
  <2>4. ASSUME j = k, CanParkForApply(jobs[j]), jobs'[j] = ParkedForApply(jobs[j])
        PROVE  /\ jobs[j].diff /\ jobs'[j].status = "waiting" /\ jobs'[j].diff
               /\ jobs'[j].phase = jobs[j].phase
    <3>1. jobs[j].diff
      BY <1>0, <2>1, <2>2, <2>4 DEF HasDiff, ApplyingPc, CanParkForApply
    <3> QED BY <1>0, <2>4, <3>1 DEF ParkedForApply, Row
  <2> QED BY <1>0, <2>3, <2>4, MinorKeeps, ApplyWaitKeeps
<1> QED BY <1>1, <1>2 DEF Applies, ApplyLoad, ApplyJudge, ApplyBranch, ApplyGate

LEMMA QuietKeeps ==
  ASSUME TypeInv, GateInv, FenceInv, Serving', NEW a \in Procs,
         \A q \in Procs \ {a} : procs'[q] = procs[q], QuietAct(a), NEW j \in Jobs
  PROVE  (Regime(j))'
<1>1. Quiet(j)
  BY QuietActs
<1>2. CASE HeldOpen(a) \/ \E at \in Replicas, g \in GateIds : GateArrival(a, g, at)
  <2>1. UNCHANGED jobs
    BY <1>2 DEF HeldOpen, GateArrival, Resolve, GateExpires
  <2> QED BY <1>1, <2>1, MinorKeeps DEF FenceInv
<1> QED BY <1>1, <1>2, ProvisionRegime, ReplyRegime, DecideRegime, ApplyRegime DEF QuietAct

(***************************************************************************)
(* The regime over the other steps.                                        *)
(***************************************************************************)
LEMMA TableRegime ==
  ASSUME TypeInv, BornInv, Serving', NEW j \in Jobs, Regime(j), NEW k \in Jobs, TableOnly(k)
  PROVE  (Regime(j))'
<1>0. jobs \in [Jobs -> Row]
  BY DEF TypeInv
<1>1. Quiet(j) /\ (j # k => jobs'[j] = jobs[j])
  BY TableQuiet
<1>2. CASE j # k
  BY <1>1, <1>2, MinorKeeps
<1>3. CASE j = k /\ Delete(k)
  <2>1. jobs'[j] = Deleted(jobs[j])
    BY <1>0, <1>3 DEF Delete, Write, Update
  <2>2. jobs'[j].status = "deleted" /\ ~jobs'[j].diff
    BY <2>1 DEF Deleted, EmptyRow
  <2> QED BY <2>2, VacantRegime DEF NoRow, Exists
<1>4. CASE j = k /\ (Create(k) \/ \E i \in Jobs : Retry(i, k))
  <2>1. /\ jobs[j].status = "unborn"
        /\ \E phase, kind, backend, policy, resumed :
             jobs'[j] = CreateJob("queued", phase, kind, backend, policy, resumed)
    <3>1. CASE Create(k)
      <4>1. PICK kind \in Kinds, backend \in Backends, policy \in Policies :
              Insert(k, CreateJob("queued", "analyze", kind, backend, policy, FALSE))
        BY <3>1 DEF Create
      <4>2. jobs'[j] = CreateJob("queued", "analyze", kind, backend, policy, FALSE)
        BY <1>0, <1>4, <4>1 DEF Insert
      <4> QED BY <1>4, <3>1, <4>2 DEF Create, Unborn
    <3>2. ASSUME NEW i \in Jobs, Retry(i, k)
          PROVE  /\ jobs[j].status = "unborn"
                 /\ \E phase, kind, backend, policy, resumed :
                      jobs'[j] = CreateJob("queued", phase, kind, backend, policy, resumed)
      <4>1. PICK resume \in BOOLEAN, policy \in Policies :
              Insert(k, CreateJob("queued", IF resume THEN jobs[i].phase ELSE "analyze",
                                  jobs[i].kind, jobs[i].backend, policy, resume))
        BY <3>2 DEF Retry
      <4> DEFINE phase == IF resume THEN jobs[i].phase ELSE "analyze"
      <4>2. jobs'[j] = CreateJob("queued", phase, jobs[i].kind, jobs[i].backend, policy, resume)
        BY <1>0, <1>4, <4>1 DEF Insert
      <4> HIDE DEF phase
      <4> QED BY <1>4, <3>2, <4>2 DEF Retry, Unborn
    <3> QED BY <1>4, <3>1, <3>2
  <2>2. jobs'[j].status = "queued" /\ ~jobs'[j].diff
    BY <2>1 DEF CreateJob, EmptyRow
  <2> QED BY <1>1, <2>1, <2>2, NewRegime
<1> QED BY <1>2, <1>3, <1>4 DEF TableOnly

LEMMA CallRegime ==
  ASSUME TypeInv, FenceInv, Serving', NEW j \in Jobs, NEW c \in Claims, NEW h \in Handlers, Calls(c, h)
  PROVE  (Regime(j))'
<1>0. /\ Numbered /\ Serving /\ Regime(j) /\ procs \in [Procs -> Proc] /\ h \in Procs
      /\ runners \in [Claims -> GoodRunner] /\ \A d \in Claims : runners[d] \in Runner
  BY DEF FenceInv, TypeInv, GoodProc, GoodRunner, Procs
<1>1. PICK at \in Replicas, stage \in {"boot", "work"}, pc \in {"spec", "result", "phase"}, goal \in Goal :
        Call(c, h, at, stage, pc, goal)
  BY DEF Calls, RunnerApiStep, SpecCall, ResultCall, PhaseCall, Goal
<1>2. procs[h].pc = "idle" /\ runners[c].stage = stage /\ UNCHANGED <<jobs, gates>>
  BY <1>1 DEF Call, At
<1>3. CASE Authentic(c) /\ InRun(RunnerJob(c))
  <2> DEFINE x == [Idle EXCEPT !.pc = pc, !.at = at, !.claim = c,
                       !.job = runners[c].job, !.row = RunnerJob(c), !.goal = goal]
  <2>1. x.pc = pc /\ x.claim = c /\ x.job = runners[c].job
    BY DEF Idle
  <2>2. runners' = [runners EXCEPT ![c].stage = "call"] /\ procs' = [procs EXCEPT ![h] = x]
    BY <1>1, <1>3 DEF Call, Serve
  <2> HIDE DEF x
  <2>3. procs'[h] = x /\ \A q \in Procs \ {h} : procs'[q] = procs[q]
    BY <1>0, <2>2
  <2>4. runners'[c].stage = "call" /\ runners'[c].job = runners[c].job
        /\ \A d \in Claims \ {c} : runners'[d] = runners[d]
    BY <1>0, <2>2 DEF Runner
  <2>5. /\ procs'[h].claim = c /\ procs'[h].job = runners[c].job
        /\ procs'[h].pc \in {"spec", "result", "phase"}
    BY <2>1, <2>3
  <2> QED BY <1>0, <1>2, <1>3, <2>3, <2>4, <2>5, CallKeeps
<1>4. CASE ~(Authentic(c) /\ InRun(RunnerJob(c)))
  <2>1. runners' = [runners EXCEPT ![c] = Over(@)] /\ UNCHANGED procs
    BY <1>1, <1>4 DEF Call
  <2>2. /\ Over(runners[c]).stage = "gone" /\ Over(runners[c]).job = runners[c].job
        /\ Over(runners[c]).shim = runners[c].shim
    BY <1>0 DEF Over, Runner
  <2>3. \A d \in Claims : CalmRunner(d)
    BY <1>0, <1>2, <2>1, <2>2 DEF CalmRunner, Started
  <2>4. RunnersQuiet(j)
    BY <2>3, QuietRunners
  <2>5. Quiet(j)
    BY <1>2, <2>1, <2>4 DEF Quiet, EarlyQuiet, Early, ReplyQuiet, Replying, AtPark, PlanQuiet,
       PlanGate, GatesOf, Opened
  <2> QED BY <1>0, <1>2, <2>5, MinorKeeps
<1> QED BY <1>3, <1>4

LEMMA AnswerRegime ==
  ASSUME TypeInv, FenceInv, Serving', NEW j \in Jobs, NEW h \in Handlers, SpecReply(h) \/ PhaseAdvance(h)
  PROVE  (Regime(j))'
<1> DEFINE k == procs[h].job
           c == procs[h].claim
<1>0. /\ jobs \in [Jobs -> Row] /\ Numbered /\ Serving /\ Regime(j) /\ h \in Procs
      /\ procs \in [Procs -> Proc]
  BY DEF TypeInv, FenceInv, Procs, GoodProc
<1>1. Replying(h) /\ ~AtPark(h) /\ procs[h].pc \notin LoopPc
  BY DEF SpecReply, PhaseAdvance, At, Replying, ReplyPc, AtPark, LoopPc
<1>2. k \in Jobs /\ JobOf(h) = jobs[k] /\ c \in Claims
  BY <1>0, <1>1, JobTyped DEF JobOf, Serving
<1>3. procs'[h].pc = "idle" /\ \A q \in Procs \ {h} : procs'[q] = procs[q]
  BY <1>0, ReplyingMoves, NamedOnward DEF Replies, Onward
<1>4. /\ \A d \in Claims \ {c} : runners'[d] = runners[d]
      /\ runners'[c].job = runners[c].job
  <2>1. Dismiss(h) \/ \E phase : Answer(h, phase)
    BY DEF SpecReply, PhaseAdvance
  <2> QED BY <1>0, <1>2, <2>1, ReplyMoves
<1>5. UNCHANGED gates
  BY DEF SpecReply, PhaseAdvance
<1>6. \A i \in Jobs \ {k} : jobs'[i] = jobs[i]
  BY <1>0, <1>2 DEF SpecReply, PhaseAdvance, Write
<1>7. \/ jobs'[k] = jobs[k]
      \/ SpecReply(h) /\ CanMarkRunning(jobs[k]) /\ jobs'[k] = MarkedRunning(jobs[k])
      \/ /\ PhaseAdvance(h) /\ CanAdvance(jobs[k], procs[h].row.phase)
         /\ jobs'[k] = Advanced(jobs[k], procs[h].goal)
  BY <1>0, <1>2 DEF SpecReply, PhaseAdvance, Write, Update
<1>8. /\ jobs'[k].lease = jobs[k].lease /\ jobs'[k].token = jobs[k].token
      /\ jobs'[k].diff = jobs[k].diff
      /\ ~Live(jobs[k]) => jobs'[k] = jobs[k]
      /\ jobs'[k].status = jobs[k].status \/ (InRun(jobs[k]) /\ InRun(jobs'[k]))
      /\ jobs[k].phase \in Approved => jobs'[k].phase \in Approved
  <2>1. CASE jobs'[k] = jobs[k]
    BY <2>1
  <2>2. CASE CanMarkRunning(jobs[k]) /\ jobs'[k] = MarkedRunning(jobs[k])
    BY <1>0, <1>2, <2>2 DEF CanMarkRunning, MarkedRunning, Row, Live, Exists, Ended, NoRow, Terminal, InRun
  <2>3. CASE PhaseAdvance(h) /\ CanAdvance(jobs[k], procs[h].row.phase)
             /\ jobs'[k] = Advanced(jobs[k], procs[h].goal)
    <3>1. jobs[k].phase \in Approved => procs[h].goal \in Approved
      BY <2>3 DEF PhaseAdvance, At, CanAdvance, FenceInv, Gated
    <3> QED BY <1>0, <1>2, <2>3, <3>1 DEF CanAdvance, Advanced, Row
  <2> QED BY <1>7, <2>1, <2>2, <2>3
<1> QED BY <1>0, <1>1, <1>2, <1>3, <1>4, <1>5, <1>6, <1>8, AnswerKeeps

LEMMA RegimeKeeps ==
  ASSUME TypeInv, BornInv, GateInv, LeaseDiscipline, FenceInv, Serving', [Next]_vars, NEW j \in Jobs
  PROVE  (Regime(j))'
<1>0. Numbered /\ Serving /\ Regime(j)
  BY DEF FenceInv
<1>1. CASE Calm
  <2>1. Quiet(j)
    BY <1>1, CalmQuiet
  <2> QED BY <1>0, <1>1, <2>1, MinorKeeps DEF Calm
<1>2. ASSUME NEW a \in Procs, Acts(a), \A q \in Procs \ {a} : procs'[q] = procs[q]
      PROVE  (Regime(j))'
  <2>1. CASE QuietAct(a)
    BY <1>2, <2>1, QuietKeeps
  <2>2. CASE a \in Replicas /\ Provisions(a) /\ ~QuietAct(a)
    <3>1. Claim(a) \/ (Provision(a) /\ Start(a))
      BY <2>2 DEF Provisions, QuietAct, Provision, Adopt, AtCapacity, Refused
    <3> QED BY <1>0, <2>2, <3>1, ClaimKeeps, StartKeeps
  <2>3. ASSUME a \in Handlers, NEW c \in Claims, Calls(c, a)
        PROVE  (Regime(j))'
    BY <2>3, CallRegime
  <2>4. CASE a \in Handlers /\ Replies(a) /\ ~QuietAct(a)
    <3>1. SpecReply(a) \/ PhaseAdvance(a) \/ ParkAdvance(a)
      BY <2>4 DEF Replies, QuietAct
    <3> QED BY <1>0, <2>4, <3>1, AnswerRegime, ParkAdvanceKeeps
  <2>5. ASSUME a \in Handlers, NEW k \in Jobs, NEW at \in Replicas, CreateHeld(a, k, at)
        PROVE  (Regime(j))'
    BY <1>0, <2>5, HeldKeeps
  <2>6. \/ QuietAct(a)
        \/ a \in Replicas /\ Provisions(a)
        \/ a \in Handlers /\ \E c \in Claims : Calls(c, a)
        \/ a \in Handlers /\ Replies(a)
        \/ a \in Handlers /\ \E k \in Jobs, at \in Replicas : CreateHeld(a, k, at)
    BY <1>2 DEF Acts, QuietAct
  <2> QED BY <2>1, <2>2, <2>3, <2>4, <2>5, <2>6
<1>3. ASSUME NEW k \in Jobs, TableOnly(k)
      PROVE  (Regime(j))'
  BY <1>0, <1>3, TableRegime
<1> QED BY <1>1, <1>2, <1>3, StepsSorted, ActorsSorted

(***************************************************************************)
(* An apply past its first read has a diff.                                *)
(***************************************************************************)
LEMMA DiffMoves ==
  ASSUME TypeInv, NEW a \in Procs, Acts(a), ~ResultRecord(a), NEW j \in Jobs,
         jobs[j].status # "unborn"
  PROVE  jobs'[j].diff = jobs[j].diff
<1>0. jobs \in [Jobs -> Row] /\ procs \in [Procs -> Proc] /\ claims + 1 \in Nat
  BY BoundsAssumption DEF TypeInv, GoodProc
<1>1. CASE UNCHANGED jobs
  BY <1>1
<1>2. ASSUME NEW k, NEW guard, NEW new, Write(k, guard, new), k \in Jobs => new.diff = jobs[k].diff
      PROVE  jobs'[j].diff = jobs[j].diff
  BY <1>0, <1>2 DEF Write, Update
<1>3. \A r \in Row, c \in Nat :
        /\ Claimed(r, c).diff = r.diff /\ Prepared(r, c).diff = r.diff
        /\ Reissued(r, c).diff = r.diff /\ Released(r).diff = r.diff
  BY DEF Claimed, Prepared, Reissued, Released, Row
<1>4. \A r \in Row : \A x, y :
        /\ MarkedRunning(r).diff = r.diff /\ Advanced(r, x).diff = r.diff
        /\ ReviewSet(r, x, y).diff = r.diff /\ Parked(r).diff = r.diff
  BY DEF MarkedRunning, Advanced, ReviewSet, Parked, Row
<1>5. \A r \in Row : \A x :
        /\ BriefAppended(r, x).diff = r.diff /\ RequeuedAt(r, x).diff = r.diff
        /\ ResumedApply(r).diff = r.diff /\ ParkedForApply(r).diff = r.diff
  BY DEF BriefAppended, RequeuedAt, ResumedApply, ParkedForApply, Row
<1>6. CASE Provisions(a)
  <2>1. CASE Claim(a)
    <3>1. PICK k \in Jobs : Write(k, CanClaim(jobs[k]), Claimed(jobs[k], claims + 1))
      BY <2>1 DEF Claim
    <3> QED BY <1>0, <1>2, <1>3, <3>1
  <2>2. CASE Prepare(a) \/ Provision(a) \/ Release(a)
    <3>1. procs[a].claim \in Nat
      BY <1>0 DEF Proc
    <3> QED BY <1>0, <1>1, <1>2, <1>3, <2>2, <3>1 DEF Prepare, Provision, Start, Adopt, AtCapacity,
              Refused, FetchPolicy, Release, JobOf
  <2> QED BY <1>6, <2>1, <2>2 DEF Provisions
<1>7. CASE Replies(a)
  <2>1. CASE PhaseJudge(a)
    <3>1. ASSUME NEW ok \in BOOLEAN, NEW review \in ReviewAction, NEW n \in Nat, NEW f \in Fingerprint,
                 Judging(a, ok, review, n, f)
          PROVE  jobs'[j].diff = jobs[j].diff
      <4>1. PICK guard : Write(procs[a].job, guard /\ CanSetReview(JobOf(a)), ReviewSet(JobOf(a), n, f))
        BY <3>1 DEF Judging
      <4> QED BY <1>0, <1>2, <1>4, <4>1 DEF JobOf
    <3> QED BY <1>1, <2>1, <3>1, JudgeMoves
  <2>2. CASE SpecReply(a) \/ PhaseAdvance(a) \/ ParkAdvance(a) \/ ParkOpen(a) \/ ParkRow(a)
    BY <1>0, <1>1, <1>2, <1>4, <2>2 DEF SpecReply, PhaseAdvance, ParkAdvance, ParkOpen, ParkRow, JobOf
  <2> QED BY <1>7, <2>1, <2>2 DEF Replies
<1>8. CASE Decides(a) \/ Applies(a)
  <2>1. CASE DriveBrief(a)
    BY <1>0, <1>2, <1>5, <2>1 DEF DriveBrief, JobOf
  <2>2. CASE DriveRequeue(a)
    BY <1>0, <1>2, <1>5, <2>2 DEF DriveRequeue, JobOf
  <2>3. CASE ResumeFlip(a)
    BY <1>0, <1>2, <1>5, <2>3 DEF ResumeFlip, JobOf
  <2>4. CASE ApplyPark(a)
    BY <1>0, <1>2, <1>5, <2>4 DEF ApplyPark, JobOf
  <2>5. \/ UNCHANGED jobs \/ DriveBrief(a) \/ DriveRequeue(a) \/ ResumeFlip(a) \/ ApplyPark(a)
    BY <1>8 DEF Decides, ResolveFlip, ResolveStuck, ResumeGuard, Applies, ApplyLoad, ApplyJudge,
       ApplyBranch, ApplyGate
  <2> QED BY <1>1, <2>1, <2>2, <2>3, <2>4, <2>5
<1>9. ASSUME NEW k \in Jobs, NEW at \in Replicas, CreateHeld(a, k, at)
      PROVE  jobs'[j].diff = jobs[j].diff
  BY <1>0, <1>9 DEF CreateHeld, Insert, Unborn
<1>10. (\E c \in Claims : Calls(c, a)) \/ HeldOpen(a) \/ (\E at \in Replicas, g \in GateIds : GateArrival(a, g, at))
         => UNCHANGED jobs
  BY DEF Calls, RunnerApiStep, SpecCall, ResultCall, PhaseCall, Call, HeldOpen, GateArrival, Resolve,
     GateExpires
<1> QED BY <1>1, <1>6, <1>7, <1>8, <1>9, <1>10 DEF Acts

LEMMA DiffStays ==
  ASSUME TypeInv, BornInv, FenceInv, [Next]_vars, NEW j \in Jobs, Born(j),
         jobs[j].diff \/ jobs[j].status = "deleted"
  PROVE  (jobs[j].diff \/ jobs[j].status = "deleted")'
<1>0. jobs \in [Jobs -> Row] /\ Lasting(jobs[j], jobs'[j]) /\ jobs[j].status # "unborn"
  BY RowsLast DEF TypeInv, Born
<1>1. jobs[j].status = "deleted" => jobs'[j].status = "deleted"
  BY <1>0 DEF Lasting, Exists, NoRow
<1>2. jobs'[j].diff = jobs[j].diff \/ jobs'[j].status = "deleted" \/ \E h \in Handlers : ResultRecord(h)
  <2>1. CASE Calm
    BY <2>1 DEF Calm, Minor
  <2>2. ASSUME NEW a \in Procs, Acts(a)
        PROVE  jobs'[j].diff = jobs[j].diff \/ \E h \in Handlers : ResultRecord(h)
    <3>1. ResultRecord(a) => a \in Handlers
      BY <2>2 DEF Acts, ResultRecord, At, Provisions, Claim, Prepare, Provision, Release, Applies,
         ApplyLoad, ApplyJudge, ApplyBranch, ApplyGate, ApplyPark
    <3> QED BY <1>0, <2>2, <3>1, DiffMoves
  <2>3. ASSUME NEW k \in Jobs, TableOnly(k)
        PROVE  jobs'[j].diff = jobs[j].diff \/ jobs'[j].status = "deleted"
    <3>1. j # k => jobs'[j] = jobs[j]
      BY <2>3, TableQuiet
    <3>2. j = k => Delete(j)
      BY <1>0, <2>3 DEF TableOnly, Create, Retry, Unborn
    <3> QED BY <3>1, <3>2, DeletedRow
  <2> QED BY <2>1, <2>2, <2>3, StepsSorted, ActorsSorted
<1>3. ASSUME NEW h \in Handlers, ResultRecord(h), jobs[j].diff
      PROVE  jobs'[j] = jobs[j] \/ jobs'[j].diff
  <2>1. Replying(h) /\ ~AtPark(h) /\ procs[h].pc \notin LoopPc /\ h \in Procs
    BY <1>3 DEF ResultRecord, At, Replying, ReplyPc, AtPark, LoopPc, Procs
  <2>2. procs[h].job \in Jobs /\ JobOf(h) = jobs[procs[h].job]
    BY <2>1, JobTyped DEF JobOf
  <2>3. CASE j = procs[h].job /\ Live(jobs[j])
    BY <1>3, <2>1, <2>3, ServedEarlier DEF FenceInv, Live
  <2>4. CASE j # procs[h].job \/ ~Live(jobs[j])
    BY <1>0, <1>3, <2>2, <2>4 DEF ResultRecord, CanRecordResult, Write, Update
  <2> QED BY <2>3, <2>4
<1> QED BY <1>1, <1>2, <1>3

\* Where a flow goes that neither applies nor decides.
PlainPc == (CalmPc \ {"apply_load"}) \cup EarlyPc \cup ReplyPc \cup {"held_open", "resolve"}

LEMMA ActMoves ==
  ASSUME TypeInv, NEW a \in Procs, Acts(a)
  PROVE  \/ Applies(a) \/ (a \in Handlers /\ Decides(a))
         \/ procs'[a] = procs[a]
         \/ procs'[a].pc \in PlainPc
<1>0. /\ procs \in [Procs -> Proc]
      /\ EarlyPc \cup ReplyPc \cup {"idle", "claim", "attach", "fin_read", "reply_exit", "held_open", "resolve"}
           \subseteq PlainPc
      /\ {"prepare", "provision", "release"} \subseteq EarlyPc
      /\ {"spec", "result", "phase", "advance", "park_advance", "park_open", "park_row"} \subseteq ReplyPc
  BY DEF TypeInv, GoodProc, PlainPc, CalmPc, LoopPc, FinalizePc, EarlyPc, ReplyPc
<1>1. /\ \A pc : Goto(a, pc) => procs'[a].pc = pc
      /\ \A to, pr, next : CallFinalize(a, to, pr, next) => procs'[a].pc = "fin_read"
      /\ Leave(a) => procs'[a].pc = "idle"
  <2>1. \A pc : Goto(a, pc) => procs'[a].pc = pc
    BY <1>0 DEF Goto, Proc
  <2>2. \A to, pr, next : CallFinalize(a, to, pr, next) => procs'[a].pc = "fin_read"
    BY <1>0 DEF CallFinalize, Proc
  <2>3. Leave(a) => procs'[a].pc = "idle"
    BY <1>0, IdleTyped DEF Leave
  <2> QED BY <2>1, <2>2, <2>3
<1>2. ASSUME NEW x, procs' = [procs EXCEPT ![a] = x], x.pc \in PlainPc
      PROVE  procs'[a].pc \in PlainPc
  BY <1>0, <1>2
<1>3. ASSUME Provisions(a)
      PROVE  procs'[a].pc \in PlainPc
  <2>1. CASE Claim(a)
    <3>1. ASSUME NEW k \in Jobs, procs' = [procs EXCEPT ![a].pc = "prepare", ![a].job = k,
                                             ![a].claim = claims + 1, ![a].slots = @ - 1]
          PROVE  procs'[a].pc = "prepare"
      BY <1>0, <3>1 DEF Proc
    <3> QED BY <1>0, <2>1, <3>1 DEF Claim
  <2>2. CASE Release(a)
    <3> DEFINE x == [Idle EXCEPT !.pc = "claim", !.slots = procs[a].slots]
    <3>1. x.pc \in PlainPc
      BY <1>0 DEF Idle
    <3>2. procs' = [procs EXCEPT ![a] = x]
      BY <2>2 DEF Release, NextClaim
    <3> HIDE DEF x
    <3> QED BY <1>2, <3>1, <3>2
  <2>3. CASE Prepare(a) \/ Provision(a)
    BY <1>0, <1>1, <2>3 DEF Prepare, Provision, Start, Adopt, AtCapacity, Refused, Answered
  <2> QED BY <1>3, <2>1, <2>2, <2>3 DEF Provisions
<1>4. ASSUME Replies(a) \/ HeldOpen(a)
      PROVE  procs'[a].pc \in PlainPc
  <2>1. CASE HeldOpen(a)
    BY <1>0, <1>1, <2>1 DEF HeldOpen
  <2>2. CASE Replies(a)
    <3>1. procs'[a].pc \in {"idle", "fin_read", "advance", "park_advance", "park_open", "park_row", "reply_exit"}
      BY <2>2, ReplyingMoves DEF Replies
    <3> QED BY <1>0, <3>1
  <2> QED BY <1>4, <2>1, <2>2
<1>5. ASSUME NEW j \in Jobs, NEW at \in Replicas, CreateHeld(a, j, at)
      PROVE  procs'[a].pc \in PlainPc
  <2>1. [Idle EXCEPT !.pc = "held_open", !.at = at, !.job = j].pc \in PlainPc
    BY <1>0 DEF Idle
  <2> QED BY <1>2, <1>5, <2>1 DEF CreateHeld, Begin
<1>6. ASSUME NEW g \in GateIds, NEW at \in Replicas, GateArrival(a, g, at)
      PROVE  procs'[a].pc \in PlainPc
  <2>1. \A goal : [Idle EXCEPT !.pc = "resolve", !.at = at, !.gate = g, !.job = gates[g].job,
                               !.goal = goal].pc \in PlainPc
    BY <1>0 DEF Idle
  <2>2. [Idle EXCEPT !.pc = "fin_read", !.at = at, !.gate = g, !.job = gates[g].job,
                     !.to = "cancelled", !.next = "leave"].pc \in PlainPc
    BY <1>0 DEF Idle
  <2> QED BY <1>2, <1>6, <2>1, <2>2 DEF GateArrival, Resolve, GateExpires
<1>7. ASSUME NEW c \in Claims, Calls(c, a)
      PROVE  procs'[a] = procs[a] \/ procs'[a].pc \in PlainPc
  <2>1. PICK at \in Replicas, stage \in {"boot", "work"}, pc \in {"spec", "result", "phase"}, goal \in Goal :
          Call(c, a, at, stage, pc, goal)
    BY <1>7 DEF Calls, RunnerApiStep, SpecCall, ResultCall, PhaseCall, Goal
  <2> DEFINE x == [Idle EXCEPT !.pc = pc, !.at = at, !.claim = c,
                       !.job = runners[c].job, !.row = RunnerJob(c), !.goal = goal]
  <2>2. x.pc \in PlainPc
    BY <1>0 DEF Idle
  <2>3. procs' = [procs EXCEPT ![a] = x] \/ UNCHANGED procs
    BY <2>1 DEF Call, Serve
  <2> HIDE DEF x
  <2> QED BY <1>2, <2>2, <2>3
<1> QED BY <1>3, <1>4, <1>5, <1>6, <1>7 DEF Acts

\* Only an apply goes on inside an apply.
LEMMA ApplyingMoves ==
  ASSUME TypeInv, NEW a \in Procs, Acts(a), procs'[a].pc \in ApplyingPc
  PROVE  Applies(a) \/ procs'[a] = procs[a]
<1>1. ApplyingPc \cap PlainPc = {}
  BY DEF ApplyingPc, PlainPc, CalmPc, LoopPc, FinalizePc, EarlyPc, ReplyPc
<1>2. ~Decides(a)
  BY DecideMoves DEF ApplyingPc
<1> QED BY <1>1, <1>2, ActMoves

LEMMA HasDiffKeeps ==
  ASSUME TypeInv, BornInv, FenceInv, [Next]_vars, NEW p \in Procs
  PROVE  (HasDiff(p))'
<1>0. procs \in [Procs -> Proc] /\ HasDiff(p)
  BY DEF TypeInv, GoodProc, FenceInv
<1>1. ASSUME NEW j \in Jobs, j = procs[p].job, procs[p].pc \notin LoopPc, procs'[p].job = j,
             jobs[j].diff \/ jobs[j].status = "deleted"
      PROVE  (HasDiff(p))'
  <2>1. (jobs[j].diff \/ jobs[j].status = "deleted")'
    BY <1>1, DiffStays DEF BornInv
  <2> QED BY <1>1, <2>1 DEF HasDiff, JobOf
<1>2. CASE procs'[p] = procs[p]
  <2>1. CASE procs[p].pc \in ApplyingPc
    <3>1. procs[p].pc \notin LoopPc
      BY <2>1 DEF ApplyingPc, LoopPc
    <3>2. procs[p].job \in Jobs
      BY <3>1, JobTyped
    <3> QED BY <1>0, <1>1, <1>2, <2>1, <3>1, <3>2 DEF HasDiff, JobOf
  <2>2. CASE procs[p].pc \notin ApplyingPc
    BY <1>2, <2>2 DEF HasDiff
  <2> QED BY <2>1, <2>2
<1>3. CASE procs'[p].pc \notin ApplyingPc
  BY <1>3 DEF HasDiff
<1>4. CASE Applies(p) /\ procs'[p].pc \in ApplyingPc
  <2>1. procs[p].pc \notin LoopPc /\ procs[p].job \in Jobs
    <3>1. procs[p].pc \notin LoopPc
      BY <1>4 DEF Applies, ApplyLoad, ApplyJudge, ApplyBranch, ApplyGate, ApplyPark, At, LoopPc
    <3> QED BY <3>1, JobTyped
  <2>2. procs'[p].job = procs[p].job
    <3>1. procs'[p] # Idle
      BY <1>4 DEF Idle, ApplyingPc
    <3> QED BY <1>4, <3>1, NamedOnward DEF Onward
  <2>3. jobs[procs[p].job].diff \/ jobs[procs[p].job].status = "deleted"
    <3>1. CASE procs[p].pc \in ApplyingPc
      BY <1>0, <3>1 DEF HasDiff, JobOf
    <3>2. CASE ApplyLoad(p)
      <4>1. JobOf(p).status = "applying" \/ FailedAfterDiff(JobOf(p))
        <5>1. ~Goto(p, "apply_exit")
          BY <1>0, <1>4 DEF Goto, Proc, ApplyingPc
        <5> QED BY <3>2, <5>1 DEF ApplyLoad
      <4> QED BY <2>1, <4>1 DEF FenceInv, Regime, Handed, FailedAfterDiff, JobOf
    <3>3. procs[p].pc \in ApplyingPc \/ ApplyLoad(p)
      BY <1>4 DEF Applies, ApplyJudge, ApplyBranch, ApplyGate, ApplyPark, At, ApplyingPc
    <3> QED BY <3>1, <3>2, <3>3
  <2> QED BY <1>1, <2>1, <2>2, <2>3
<1>5. CASE Calm
  BY <1>2, <1>3, <1>5 DEF Calm, CalmFlow, CalmPc, LoopPc, FinalizePc, ApplyingPc
<1>6. ASSUME NEW j \in Jobs, TableOnly(j)
      PROVE  procs'[p] = procs[p]
  BY <1>6 DEF TableOnly, Create, Delete, Retry
<1> QED BY <1>2, <1>3, <1>4, <1>5, <1>6, ApplyingMoves, StepsSorted, ActorsSorted

(***************************************************************************)
(* The pipeline is the gated one.                                          *)
(***************************************************************************)
LEMMA ModeStatement ==
  ASSUME NEW r \in Row, NEW s, r.mode = "gated", Statement(r, s)
  PROVE  s.mode = "gated"
<1>1. CASE \E status \in {"queued", "waiting"}, phase \in Phase, kind \in Kind,
              backend \in Backend, policy \in Policy, resumed \in BOOLEAN :
             s = CreateJob(status, phase, kind, backend, policy, resumed)
  BY <1>1 DEF CreateJob, EmptyRow
<1>2. CASE s = Deleted(r)
  BY <1>2 DEF Deleted, EmptyRow
<1>3. CASE \E c \in Nat : \/ s = Prepared(r, c) \/ s = Reissued(r, c) \/ s = Attached(r, c)
                          \/ s = BriefAppended(r, c)
  BY <1>3 DEF Prepared, Reissued, Attached, BriefAppended, Row
<1>4. CASE \/ s = Claimed(r, claims + 1) \/ s = Released(r) \/ s = Touched(r) \/ s = MarkedRunning(r)
           \/ s = Parked(r) \/ s = ParkedForApply(r) \/ s = ResumedApply(r)
           \/ s = RequeuedAt(r, "implement")
  BY <1>4 DEF Claimed, Released, Touched, MarkedRunning, Parked, ParkedForApply, ResumedApply,
     RequeuedAt, Row
<1>5. CASE \/ \E to \in Phase : s = Advanced(r, to)
           \/ \E n \in Nat, f \in Fingerprint : s = ReviewSet(r, n, f)
           \/ \E outcome \in Goal : s = ResultRecorded(r, outcome)
           \/ \E to \in Terminal, pr \in BOOLEAN : s = Finished(r, to, pr)
           \/ \E clock \in Clock : s = Older(r, clock)
  BY <1>5 DEF Advanced, ReviewSet, ResultRecorded, Finished, Older, Row
<1> QED BY <1>1, <1>2, <1>3, <1>4, <1>5 DEF Statement

\* A phase of the gated pipeline is followed by one after the approval exactly
\* when it is one itself.
LEMMA GatedTransition ==
  ASSUME NEW phase \in Phase, NEW ok \in BOOLEAN, NEW review \in ReviewAction, NEW kind \in Kind,
         NEW t, t = ComputeTransition(phase, ok, review, "gated", kind), PcOf(t.act) = "advance"
  PROVE  t.to \in Approved <=> phase \in Approved
<1>1. \A act \in {"fail", "done", "requeue", "park"} : PcOf(act) # "advance"
  BY DEF PcOf
<1>2. ok /\ kind # "analyze"
  BY <1>1 DEF ComputeTransition, To
<1>3. CASE phase \in {"analyze", "bootstrap", "plan"}
  BY <1>2, <1>3 DEF ComputeTransition, To, Approved
<1>4. CASE phase \in {"clarify", "await_human", "pr"}
  BY <1>1, <1>2, <1>4 DEF ComputeTransition, To
<1>5. CASE phase = "implement"
  BY <1>2, <1>5 DEF ComputeTransition, To, Approved
<1>6. CASE phase = "review"
  <2>1. t = AfterReview(review)
    BY <1>2, <1>6 DEF ComputeTransition
  <2>2. t.to \in {"implement", "pr"}
    BY <2>1 DEF AfterReview, To, ReviewAction
  <2> QED BY <1>6, <2>2 DEF Approved
<1> QED BY <1>3, <1>4, <1>5, <1>6 DEF Phase

LEMMA GatedKeeps ==
  ASSUME TypeInv, BornInv, Gated, [Next]_vars
  PROVE  Gated'
<1>0. procs \in [Procs -> Proc] /\ jobs \in [Jobs -> Row] /\ Handlers \subseteq Procs
  BY DEF TypeInv, GoodProc, Procs
<1>1. ASSUME NEW j \in Jobs
      PROVE  jobs'[j].mode = "gated"
  BY <1>0, NextIsOneStatement, ModeStatement DEF Gated, OneStatement
<1>2. ASSUME NEW h \in Handlers, (Replying(h))'
      PROVE  procs'[h].row.mode = "gated"
  <2>1. procs'[h].row = procs[h].row /\ Replying(h) => procs'[h].row.mode = "gated"
    BY DEF Gated
  <2>2. ASSUME NEW c \in Claims, runners[c].stage \in {"boot", "work"}, procs'[h].row = RunnerJob(c)
        PROVE  procs'[h].row.mode = "gated"
    <3>1. runners[c].job \in Jobs
      BY <2>2 DEF BornInv, Started, Born
    <3> QED BY <2>2, <3>1 DEF Gated, RunnerJob
  <2> QED BY <1>2, <2>1, <2>2, ReplySteps DEF Replying
<1>3. ASSUME NEW h \in Handlers, procs'[h].pc = "advance"
      PROVE  procs'[h].goal \in Approved <=> procs'[h].row.phase \in Approved
  <2>1. CASE procs'[h] = procs[h]
    BY <1>3, <2>1 DEF Gated
  <2>2. (Replying(h))'
    BY <1>3 DEF Replying, ReplyPc
  <2>3. procs'[h] = procs[h] \/ (PhaseJudge(h) /\ procs'[h].row = procs[h].row)
    BY <1>0, <1>3, <2>2, ReplySteps, ReplyingMoves DEF Replies
  <2>4. CASE PhaseJudge(h) /\ procs'[h].row = procs[h].row
    <3>1. procs[h].row \in Row /\ procs[h].row.mode = "gated"
      <4>1. Replying(h)
        BY <2>4 DEF PhaseJudge, At, Replying, ReplyPc
      <4> QED BY <1>0, <4>1 DEF Gated, Proc
    <3>2. ~Leave(h)
      BY <1>0, <1>3, IdleTyped DEF Leave
    <3>3. PICK ok \in BOOLEAN, review \in ReviewAction, n \in Nat, f \in Fingerprint :
            Judging(h, ok, review, n, f)
      BY <1>0, <2>4, <3>2, JudgeMoves
    <3>4. PICK t \in {To("fail", procs[h].row.phase),
                      ComputeTransition(procs[h].row.phase, ok, review, "gated", procs[h].row.kind)} :
            Carry(h, t)
      BY <3>1, <3>3 DEF Judging
    <3>5. procs'[h].pc = PcOf(t.act) /\ procs'[h].goal = t.to
      BY <1>0, <3>4 DEF Carry, Proc
    <3>6. t # To("fail", procs[h].row.phase)
      BY <1>3, <3>5 DEF To, PcOf
    <3>7. procs[h].row.phase \in Phase /\ procs[h].row.kind \in Kind
      BY <3>1 DEF Row
    <3> QED BY <1>3, <2>4, <3>4, <3>5, <3>6, <3>7, GatedTransition
  <2> QED BY <2>1, <2>3, <2>4
<1> QED BY <1>1, <1>2, <1>3 DEF Gated

(***************************************************************************)
(* Who may act for a job, at any time: the claims are numbered, each call  *)
(* is served alone, each job has its regime, and no apply is without a     *)
(* diff (claimNextQueued, verifyRunnerToken, recordResult, parkForGate).   *)
(***************************************************************************)
THEOREM OneActsForAJob == Spec => []FenceInv
<1>1. Init => FenceInv
  <2> SUFFICES ASSUME Init
               PROVE  FenceInv
    OBVIOUS
  <2>0. Replicas \subseteq Procs /\ Handlers \subseteq Procs
    BY DEF Procs
  <2>1. Idle.pc \notin EarlyPc \cup ReplyPc \cup ApplyingPc \cup {"held_open", "park_open", "advance"}
    BY DEF Idle, EarlyPc, ReplyPc, ApplyingPc
  <2>2. EmptyRow.status = "unborn" /\ EmptyRow.mode = "gated" /\ ~EmptyRow.diff /\ NoRunner.stage = "none"
    BY DEF EmptyRow, NoRunner
  <2>3. /\ \A p \in Procs : procs[p].pc \notin EarlyPc \cup ReplyPc \cup ApplyingPc
                              \cup {"held_open", "park_open", "advance"}
        /\ \A j \in Jobs : jobs[j].status = "unborn" /\ jobs[j].mode = "gated" /\ ~jobs[j].diff
        /\ \A c \in Claims : ~Started(c)
    BY <2>1, <2>2 DEF Init, Started
  <2>4. Numbered /\ Serving /\ Gated
    BY <2>0, <2>3 DEF Numbered, Early, Serving, Replying, Gated
  <2>5. \A j \in Jobs : Regime(j)
    <3>1. \A j \in Jobs : ~InHand(jobs[j]) /\ ~Live(jobs[j]) /\ ~Exists(jobs[j])
      BY <2>3 DEF InHand, Live, Exists, NoRow
    <3> QED BY <2>3, <3>1 DEF Regime, Provisioned, Fenced, Served, Planned, Handed
  <2>6. \A p \in Procs : HasDiff(p)
    BY <2>3 DEF HasDiff
  <2> QED BY <2>4, <2>5, <2>6 DEF FenceInv
<1>2. TypeInv /\ BornInv /\ GateInv /\ LeaseDiscipline /\ FenceInv /\ [Next]_vars => FenceInv'
  <2> SUFFICES ASSUME TypeInv, BornInv, GateInv, LeaseDiscipline, FenceInv, [Next]_vars
               PROVE  FenceInv'
    OBVIOUS
  <2>1. Numbered' /\ Serving' /\ Gated'
    BY NumbersKeep, ServingKeeps, GatedKeeps DEF FenceInv
  <2>2. \A j \in Jobs : (Regime(j))'
    BY <2>1, RegimeKeeps
  <2>3. \A p \in Procs : (HasDiff(p))'
    BY HasDiffKeeps
  <2> QED BY <2>1, <2>2, <2>3 DEF FenceInv
<1> QED BY <1>1, <1>2, TypesHold, NothingUnborn, DecisionsHold, LeasesAreDisciplined, PTL DEF Spec

(***************************************************************************)
(* Who writes what to a row.                                               *)
(***************************************************************************)
Inserted(r, s) ==
  /\ r.status = "unborn"
  /\ \E status \in {"queued", "waiting"}, phase \in Phase, kind \in Kind, backend \in Backend,
        policy \in Policy, resumed \in BOOLEAN :
       /\ s = CreateJob(status, phase, kind, backend, policy, resumed)
       /\ phase \in Approved => resumed
WorkerWrites(w, r, s) ==
  \/ Claim(w) /\ CanClaim(r) /\ s = Claimed(r, claims + 1)
  \/ /\ procs[w].job \in Jobs /\ r = jobs[procs[w].job]
     /\ \/ Prepare(w) /\ CanPrepare(r, procs[w].claim) /\ s = Prepared(r, procs[w].claim)
        \/ Provision(w) /\ CanReissue(r) /\ s = Reissued(r, procs[w].claim)
        \/ Release(w) /\ CanRelease(r, procs[w].claim) /\ s = Released(r)
ReplyWrites(h, r, s) ==
  \/ SpecReply(h) /\ CanMarkRunning(r) /\ s = MarkedRunning(r)
  \/ ResultRecord(h) /\ CanRecordResult(r) /\ s = ResultRecorded(r, procs[h].goal)
  \/ PhaseAdvance(h) /\ CanAdvance(r, procs[h].row.phase) /\ s = Advanced(r, procs[h].goal)
  \/ ParkAdvance(h) /\ CanAdvance(r, "clarify") /\ s = Advanced(r, "await_human")
  \/ ParkRow(h) /\ CanPark(r) /\ s = Parked(r)
DecisionWrites(h, r, s) ==
  \/ DriveRequeue(h) /\ CanRequeue(r) /\ s = RequeuedAt(r, "implement")
  \/ ResumeFlip(h) /\ CanResumeApply(r) /\ s = ResumedApply(r)

Written(j) ==
  LET r == jobs[j]
      s == jobs'[j]
  IN \/ Minor(r, s)
     \/ Inserted(r, s)
     \/ Delete(j) /\ CanDelete(r) /\ s = Deleted(r)
     \/ \E w \in Replicas : (Claim(w) \/ procs[w].job = j) /\ WorkerWrites(w, r, s)
     \/ \E h \in Handlers : procs[h].job = j /\ (ReplyWrites(h, r, s) \/ DecisionWrites(h, r, s))
     \/ \E p \in Procs : procs[p].job = j /\ ApplyPark(p) /\ CanParkForApply(r) /\ s = ParkedForApply(r)

LEMMA RowsWritten ==
  ASSUME TypeInv, BornInv, [Next]_vars, NEW j \in Jobs
  PROVE  Written(j)
<1>0. jobs \in [Jobs -> Row] /\ procs \in [Procs -> Proc] /\ Handlers \subseteq Procs /\ Replicas \subseteq Procs
  BY DEF TypeInv, GoodProc, Procs
<1>1. jobs'[j] = jobs[j] => Written(j)
  BY <1>0, MinorStatements DEF Written
<1>2. CASE Calm
  BY <1>2 DEF Calm, Written
<1>3. ASSUME NEW a \in Procs, procs[a].pc \notin LoopPc
      PROVE  /\ procs[a].job \in Jobs /\ JobOf(a) = jobs[procs[a].job]
             /\ \A guard, new : Write(procs[a].job, guard, new) =>
                  jobs'[j] = jobs[j] \/ (j = procs[a].job /\ JobOf(a) = jobs[j] /\ guard /\ jobs'[j] = new)
  BY <1>0, <1>3, JobTyped DEF JobOf, Write, Update
<1>h. /\ \A h \in Handlers : procs[h].job = j /\ ReplyWrites(h, jobs[j], jobs'[j]) => Written(j)
      /\ \A h \in Handlers : procs[h].job = j /\ DecisionWrites(h, jobs[j], jobs'[j]) => Written(j)
      /\ \A w \in Replicas : procs[w].job = j /\ WorkerWrites(w, jobs[j], jobs'[j]) => Written(j)
      /\ \A p \in Procs : procs[p].job = j /\ ApplyPark(p) /\ CanParkForApply(jobs[j])
                            /\ jobs'[j] = ParkedForApply(jobs[j]) => Written(j)
  BY DEF Written
<1>4. ASSUME NEW w \in Replicas, Provisions(w)
      PROVE  Written(j)
  <2>1. CASE Claim(w)
    <3>1. PICK k \in Jobs : Write(k, CanClaim(jobs[k]), Claimed(jobs[k], claims + 1))
      BY <2>1 DEF Claim
    <3>2. jobs'[j] = jobs[j] \/ (CanClaim(jobs[j]) /\ jobs'[j] = Claimed(jobs[j], claims + 1))
      BY <1>0, <3>1 DEF Write, Update
    <3> QED BY <1>1, <2>1, <3>2 DEF Written, WorkerWrites
  <2>2. CASE Prepare(w) \/ Provision(w) \/ Release(w)
    <3>1. procs[w].pc \notin LoopPc
      BY <2>2 DEF Prepare, Provision, Release, At, LoopPc
    <3>2. \/ jobs'[j] = jobs[j]
          \/ j = procs[w].job /\ Prepare(w) /\ CanPrepare(jobs[j], procs[w].claim)
               /\ jobs'[j] = Prepared(jobs[j], procs[w].claim)
          \/ j = procs[w].job /\ Provision(w) /\ CanReissue(jobs[j])
               /\ jobs'[j] = Reissued(jobs[j], procs[w].claim)
          \/ j = procs[w].job /\ Release(w) /\ CanRelease(jobs[j], procs[w].claim)
               /\ jobs'[j] = Released(jobs[j])
      <4>1. CASE Prepare(w)
        BY <1>0, <1>3, <3>1, <4>1 DEF Prepare
      <4>2. CASE Provision(w)
        BY <1>0, <1>3, <3>1, <4>2 DEF Provision, Start, Adopt, AtCapacity, Refused, FetchPolicy
      <4>3. CASE Release(w)
        <5>1. Write(procs[w].job, CanRelease(JobOf(w), procs[w].claim), Released(JobOf(w)))
          BY <4>3 DEF Release
        <5> QED BY <1>0, <1>3, <3>1, <4>3, <5>1 DEF Write, Update
      <4> QED BY <2>2, <4>1, <4>2, <4>3
    <3> QED BY <1>1, <1>h, <3>2 DEF WorkerWrites
  <2> QED BY <1>4, <2>1, <2>2 DEF Provisions
<1>5. ASSUME NEW h \in Handlers, Replies(h)
      PROVE  Written(j)
  <2>1. procs[h].pc \notin LoopPc /\ h \in Procs
    BY <1>0, <1>5 DEF Replies, SpecReply, ResultRecord, PhaseJudge, PhaseAdvance, ParkAdvance, ParkOpen,
       ParkRow, At, LoopPc
  <2>2. CASE PhaseJudge(h)
    <3>1. ASSUME NEW ok \in BOOLEAN, NEW review \in ReviewAction, NEW n \in Nat, NEW f \in Fingerprint,
                 Judging(h, ok, review, n, f)
          PROVE  Minor(jobs[j], jobs'[j])
      <4>1. PICK guard : Write(procs[h].job, guard /\ CanSetReview(JobOf(h)), ReviewSet(JobOf(h), n, f))
        BY <3>1 DEF Judging
      <4>2. Minor(JobOf(h), ReviewSet(JobOf(h), n, f))
        BY <1>0, <1>3, <2>1, MinorStatements
      <4> QED BY <1>0, <1>3, <2>1, <4>1, <4>2, MinorWrite
    <3> QED BY <1>1, <2>1, <2>2, <3>1, JudgeMoves DEF Written
  <2>3. CASE SpecReply(h)
    <3>1. jobs'[j] = jobs[j] \/ (j = procs[h].job /\ CanMarkRunning(jobs[j]) /\ jobs'[j] = MarkedRunning(jobs[j]))
      <4>1. Write(procs[h].job, procs[h].row.status = "provisioning" /\ CanMarkRunning(JobOf(h)), MarkedRunning(JobOf(h)))
        BY <2>3 DEF SpecReply
      <4> QED BY <1>0, <1>3, <2>1, <4>1 DEF Write, Update
    <3> QED BY <1>1, <1>h, <2>3, <3>1 DEF ReplyWrites
  <2>4. CASE ResultRecord(h)
    <3>1. jobs'[j] = jobs[j] \/ (j = procs[h].job /\ CanRecordResult(jobs[j]) /\ jobs'[j] = ResultRecorded(jobs[j], procs[h].goal))
      <4>1. Write(procs[h].job, CanRecordResult(JobOf(h)), ResultRecorded(JobOf(h), procs[h].goal))
        BY <2>4 DEF ResultRecord
      <4> QED BY <1>0, <1>3, <2>1, <4>1 DEF Write, Update
    <3> QED BY <1>1, <1>h, <2>4, <3>1 DEF ReplyWrites
  <2>5. CASE PhaseAdvance(h)
    <3>1. jobs'[j] = jobs[j] \/ (j = procs[h].job /\ CanAdvance(jobs[j], procs[h].row.phase) /\ jobs'[j] = Advanced(jobs[j], procs[h].goal))
      <4>1. Write(procs[h].job, CanAdvance(JobOf(h), procs[h].row.phase), Advanced(JobOf(h), procs[h].goal))
        BY <2>5 DEF PhaseAdvance
      <4> QED BY <1>0, <1>3, <2>1, <4>1 DEF Write, Update
    <3> QED BY <1>1, <1>h, <2>5, <3>1 DEF ReplyWrites
  <2>6. CASE ParkAdvance(h)
    <3>1. jobs'[j] = jobs[j] \/ (j = procs[h].job /\ CanAdvance(jobs[j], "clarify") /\ jobs'[j] = Advanced(jobs[j], "await_human"))
      <4>1. Write(procs[h].job, CanAdvance(JobOf(h), "clarify"), Advanced(JobOf(h), "await_human"))
        BY <2>6 DEF ParkAdvance
      <4> QED BY <1>0, <1>3, <2>1, <4>1 DEF Write, Update
    <3> QED BY <1>1, <1>h, <2>6, <3>1 DEF ReplyWrites
  <2>7. CASE ParkOpen(h)
    BY <1>1, <2>7 DEF ParkOpen
  <2>8. CASE ParkRow(h)
    <3>1. jobs'[j] = jobs[j] \/ (j = procs[h].job /\ CanPark(jobs[j]) /\ jobs'[j] = Parked(jobs[j]))
      <4>1. Write(procs[h].job, CanPark(JobOf(h)), Parked(JobOf(h)))
        BY <2>8 DEF ParkRow
      <4> QED BY <1>0, <1>3, <2>1, <4>1 DEF Write, Update
    <3> QED BY <1>1, <1>h, <2>8, <3>1 DEF ReplyWrites
  <2> QED BY <1>5, <2>2, <2>3, <2>4, <2>5, <2>6, <2>7, <2>8 DEF Replies
<1>6. ASSUME NEW h \in Handlers, Decides(h)
      PROVE  Written(j)
  <2>1. procs[h].pc \notin LoopPc /\ h \in Procs
    BY <1>0, <1>6 DEF Decides, ResolveFlip, ResolveStuck, DriveBrief, DriveRequeue, ResumeGuard, ResumeFlip,
       At, LoopPc
  <2>2. CASE DriveBrief(h)
    <3>1. procs[h].gate \in Nat
      BY <1>0, <2>1 DEF Proc
    <3>2. jobs'[j] = jobs[j] \/ jobs'[j] = BriefAppended(jobs[j], procs[h].gate)
      BY <1>3, <2>1, <2>2 DEF DriveBrief
    <3> QED BY <1>0, <1>1, <3>1, <3>2, MinorStatements DEF Written
  <2>3. CASE DriveRequeue(h)
    <3>1. jobs'[j] = jobs[j] \/ (j = procs[h].job /\ CanRequeue(jobs[j]) /\ jobs'[j] = RequeuedAt(jobs[j], "implement"))
      <4>1. Write(procs[h].job, CanRequeue(JobOf(h)), RequeuedAt(JobOf(h), "implement"))
        BY <2>3 DEF DriveRequeue
      <4> QED BY <1>0, <1>3, <2>1, <4>1 DEF Write, Update
    <3> QED BY <1>1, <1>h, <2>3, <3>1 DEF DecisionWrites
  <2>4. CASE ResumeFlip(h)
    <3>1. jobs'[j] = jobs[j] \/ (j = procs[h].job /\ CanResumeApply(jobs[j]) /\ jobs'[j] = ResumedApply(jobs[j]))
      <4>1. Write(procs[h].job, CanResumeApply(JobOf(h)), ResumedApply(JobOf(h)))
        BY <2>4 DEF ResumeFlip
      <4> QED BY <1>0, <1>3, <2>1, <4>1 DEF Write, Update
    <3> QED BY <1>1, <1>h, <2>4, <3>1 DEF DecisionWrites
  <2> QED BY <1>1, <1>6, <2>2, <2>3, <2>4 DEF Decides, ResolveFlip, ResolveStuck, ResumeGuard
<1>7. ASSUME NEW p \in Procs, Applies(p)
      PROVE  Written(j)
  <2>1. CASE ApplyPark(p)
    <3>1. procs[p].pc \notin LoopPc
      BY <2>1 DEF ApplyPark, At, LoopPc
    <3>2. jobs'[j] = jobs[j] \/ (j = procs[p].job /\ CanParkForApply(jobs[j]) /\ jobs'[j] = ParkedForApply(jobs[j]))
      <4>1. Write(procs[p].job, CanParkForApply(JobOf(p)), ParkedForApply(JobOf(p)))
        BY <2>1 DEF ApplyPark
      <4> QED BY <1>0, <1>3, <3>1, <4>1 DEF Write, Update
    <3> QED BY <1>1, <1>h, <2>1, <3>2
  <2> QED BY <1>1, <1>7, <2>1 DEF Applies, ApplyLoad, ApplyJudge, ApplyBranch, ApplyGate
<1>8. ASSUME NEW k \in Jobs, Inserts(k)
      PROVE  Written(j)
  <2>1. jobs[k].status = "unborn" /\ "analyze" \notin Approved /\ "await_human" \notin Approved
    BY <1>8 DEF Inserts, Create, Retry, CreateHeld, Unborn, Approved
  <2>2. \A i \in Jobs \ {k} : jobs'[i] = jobs[i]
    BY <1>0, <1>8 DEF Inserts, Create, Retry, CreateHeld, Insert
  <2>3. \E status \in {"queued", "waiting"}, phase \in Phase, kind \in Kind, backend \in Backend,
           policy \in Policy, resumed \in BOOLEAN :
          /\ jobs'[k] = CreateJob(status, phase, kind, backend, policy, resumed)
          /\ phase \in Approved => resumed
    <3>0. /\ Kinds \subseteq Kind /\ Policies \subseteq Policy /\ Backends \subseteq Backend
          /\ {"analyze", "await_human"} \subseteq Phase
      BY SortsAssumption DEF Phase
    <3>1. CASE Create(k)
      <4>1. PICK kind \in Kinds, backend \in Backends, policy \in Policies :
              jobs'[k] = CreateJob("queued", "analyze", kind, backend, policy, FALSE)
        BY <1>0, <3>1 DEF Create, Insert
      <4> QED BY <2>1, <3>0, <4>1
    <3>2. ASSUME NEW h \in Handlers, NEW at \in Replicas, CreateHeld(h, k, at)
          PROVE  \E status \in {"queued", "waiting"}, phase \in Phase, kind \in Kind, backend \in Backend,
                    policy \in Policy, resumed \in BOOLEAN :
                   /\ jobs'[k] = CreateJob(status, phase, kind, backend, policy, resumed)
                   /\ phase \in Approved => resumed
      <4>1. PICK kind \in Kinds, backend \in Backends, policy \in Policies :
              jobs'[k] = CreateJob("waiting", "await_human", kind, backend, policy, FALSE)
        BY <1>0, <3>2 DEF CreateHeld, Insert
      <4> QED BY <2>1, <3>0, <4>1
    <3>3. ASSUME NEW i \in Jobs, Retry(i, k)
          PROVE  \E status \in {"queued", "waiting"}, phase \in Phase, kind \in Kind, backend \in Backend,
                    policy \in Policy, resumed \in BOOLEAN :
                   /\ jobs'[k] = CreateJob(status, phase, kind, backend, policy, resumed)
                   /\ phase \in Approved => resumed
      <4>1. PICK resume \in BOOLEAN, policy \in Policies :
              jobs'[k] = CreateJob("queued", IF resume THEN jobs[i].phase ELSE "analyze",
                                   jobs[i].kind, jobs[i].backend, policy, resume)
        BY <1>0, <3>3 DEF Retry, Insert
      <4> DEFINE phase == IF resume THEN jobs[i].phase ELSE "analyze"
      <4>2. /\ phase \in Phase /\ (phase \in Approved => resume)
            /\ jobs[i].kind \in Kind /\ jobs[i].backend \in Backend
        BY <1>0, <2>1, <3>0 DEF Row
      <4>3. jobs'[k] = CreateJob("queued", phase, jobs[i].kind, jobs[i].backend, policy, resume)
        BY <4>1
      <4> HIDE DEF phase
      <4> QED BY <3>0, <4>2, <4>3
    <3> QED BY <1>8, <3>1, <3>2, <3>3 DEF Inserts
  <2> QED BY <1>1, <2>1, <2>2, <2>3 DEF Written, Inserted
<1>9. ASSUME NEW k \in Jobs, Delete(k)
      PROVE  Written(j)
  <2>1. j # k => jobs'[j] = jobs[j]
    BY <1>9, DeletedRow
  <2>2. jobs'[k] = Deleted(jobs[k]) /\ CanDelete(jobs[k])
    BY <1>0, <1>9 DEF Delete, Write, Update
  <2> QED BY <1>1, <1>9, <2>1, <2>2 DEF Written
<1>10. /\ \A c \in Claims : RunnerCalls(c) => UNCHANGED jobs
       /\ \A h \in Handlers : HeldOpen(h) => UNCHANGED jobs
       /\ \A h \in Handlers, at \in Replicas, g \in GateIds : GateArrival(h, g, at) => UNCHANGED jobs
  <2>1. ASSUME NEW c \in Claims, RunnerCalls(c)
        PROVE  UNCHANGED jobs
    <3>1. PICK h \in Handlers, at \in Replicas : RunnerApiStep(c, h, at)
      BY <2>1 DEF RunnerCalls
    <3>2. ASSUME NEW stage, NEW pc, NEW goal, Call(c, h, at, stage, pc, goal) PROVE UNCHANGED jobs
      BY <3>2 DEF Call
    <3> QED BY <3>1, <3>2 DEF RunnerApiStep, SpecCall, ResultCall, PhaseCall
  <2>2. ASSUME NEW h \in Handlers, HeldOpen(h)
        PROVE  UNCHANGED jobs
    BY <2>2 DEF HeldOpen
  <2>3. ASSUME NEW h \in Handlers, NEW at \in Replicas, NEW g \in GateIds, GateArrival(h, g, at)
        PROVE  UNCHANGED jobs
    BY <2>3 DEF GateArrival, Resolve, GateExpires
  <2> QED BY <2>1, <2>2, <2>3
<1>11. CASE Named
  BY <1>1, <1>4, <1>5, <1>6, <1>7, <1>8, <1>9, <1>10, <1>11 DEF Named
<1> QED BY <1>2, <1>11, StepsSorted

(***************************************************************************)
(* What the regime gives: the writers of a row, stage by stage, gate by gate. *)
(***************************************************************************)
\* The same, with what the regime says of the writer: nobody but the holder of
\* the lease touches a row in hand.
Moved(j) ==
  LET r == jobs[j]
      s == jobs'[j]
  IN \/ Minor(r, s)
     \/ Inserted(r, s)
     \/ CanDelete(r) /\ s = Deleted(r)
     \/ CanClaim(r) /\ s = Claimed(r, claims + 1)
     \/ Exists(r) /\ r.status # "running" /\ \E c \in Nat : s = Prepared(r, c)
     \/ r.status = "provisioning" /\ s = Released(r)
     \/ r.status = "provisioning" /\ r.token = r.lease /\ s = MarkedRunning(r)
     \/ InRun(r) /\ \E outcome \in Goal : s = ResultRecorded(r, outcome)
     \/ /\ InRun(r)
        /\ \E to \in Phase : s = Advanced(r, to) /\ (to \in Approved <=> r.phase \in Approved)
     \/ InRun(r) /\ s = Parked(r)
     \/ /\ r.status \in {"provisioning", "running", "waiting"} /\ CanRequeue(r) /\ ~r.diff
        /\ \E h \in Handlers : procs[h].job = j /\ DriveRequeue(h)
        /\ s = RequeuedAt(r, "implement")
     \/ CanResumeApply(r) /\ s = ResumedApply(r)
     \/ CanParkForApply(r) /\ r.diff /\ s = ParkedForApply(r)

LEMMA RowsMoved ==
  ASSUME TypeInv, BornInv, GateInv, FenceInv, [Next]_vars, NEW j \in Jobs
  PROVE  Moved(j)
<1>0. /\ jobs[j] \in Row /\ procs \in [Procs -> Proc] /\ Handlers \subseteq Procs /\ Replicas \subseteq Procs
      /\ Numbered /\ Serving /\ Gated /\ Regime(j)
  BY DEF TypeInv, GoodProc, Procs, FenceInv
<1>1. Written(j)
  BY RowsWritten
<1>2. ASSUME NEW w \in Replicas, Claim(w) \/ procs[w].job = j, WorkerWrites(w, jobs[j], jobs'[j])
      PROVE  Moved(j)
  <2>1. procs[w].claim \in Nat
    BY <1>0 DEF Proc
  <2>2. ASSUME Prepare(w) \/ Provision(w) \/ Release(w)
        PROVE  procs[w].job = j /\ Early(w) /\ ~Claim(w)
    BY <1>2, <2>2 DEF Prepare, Provision, Release, Claim, At, Early, EarlyPc
  <2>3. Early(w) /\ procs[w].job = j => jobs[j].status # "running"
    BY <1>0 DEF Regime, Provisioned, InHand
  <2>4. CASE Claim(w) /\ CanClaim(jobs[j]) /\ jobs'[j] = Claimed(jobs[j], claims + 1)
    BY <2>4 DEF Moved
  <2>5. CASE Prepare(w) /\ CanPrepare(jobs[j], procs[w].claim) /\ jobs'[j] = Prepared(jobs[j], procs[w].claim)
    <3>1. Exists(jobs[j])
      BY <2>5 DEF CanPrepare, Live
    <3> QED BY <2>1, <2>2, <2>3, <2>5, <3>1 DEF Moved
  <2>6. CASE Provision(w) /\ CanReissue(jobs[j]) /\ jobs'[j] = Reissued(jobs[j], procs[w].claim)
    <3>1. Exists(jobs[j]) /\ Reissued(jobs[j], procs[w].claim) = Prepared(jobs[j], procs[w].claim)
      BY <2>6 DEF CanReissue, Reissued, Prepared
    <3> QED BY <2>1, <2>2, <2>3, <2>6, <3>1 DEF Moved
  <2>7. CASE Release(w) /\ CanRelease(jobs[j], procs[w].claim) /\ jobs'[j] = Released(jobs[j])
    BY <2>7 DEF Moved, CanRelease
  <2> QED BY <1>2, <2>4, <2>5, <2>6, <2>7 DEF WorkerWrites
<1>3. ASSUME NEW h \in Handlers, procs[h].job = j, ReplyWrites(h, jobs[j], jobs'[j])
      PROVE  Moved(j)
  <2>1. ASSUME Replying(h), ~AtPark(h) \/ jobs[j].phase \notin Approved, Live(jobs[j])
        PROVE  InRun(jobs[j]) /\ jobs[j].lease = jobs[j].token
    BY <1>0, <1>3, <2>1, ServedAlone
  <2>2. CASE SpecReply(h) /\ CanMarkRunning(jobs[j]) /\ jobs'[j] = MarkedRunning(jobs[j])
    <3>1. Replying(h) /\ ~AtPark(h)
      BY <2>2 DEF SpecReply, At, Replying, ReplyPc, AtPark
    <3>2. jobs[j].status = "provisioning" /\ Live(jobs[j])
      BY <2>2 DEF CanMarkRunning, Live, Exists, NoRow, Ended, Terminal
    <3> QED BY <2>1, <2>2, <3>1, <3>2 DEF Moved
  <2>3. CASE ResultRecord(h) /\ CanRecordResult(jobs[j]) /\ jobs'[j] = ResultRecorded(jobs[j], procs[h].goal)
    <3>1. Replying(h) /\ ~AtPark(h) /\ procs[h].goal \in Goal
      BY <1>0, <2>3 DEF ResultRecord, At, Replying, ReplyPc, AtPark, Proc
    <3> QED BY <2>1, <2>3, <3>1 DEF Moved, CanRecordResult
  <2>4. CASE PhaseAdvance(h) /\ CanAdvance(jobs[j], procs[h].row.phase) /\ jobs'[j] = Advanced(jobs[j], procs[h].goal)
    <3>1. Replying(h) /\ ~AtPark(h) /\ procs[h].pc = "advance" /\ procs[h].goal \in Phase
      BY <1>0, <2>4 DEF PhaseAdvance, At, Replying, ReplyPc, AtPark, TypeInv, GoodProc
    <3>2. procs[h].goal \in Approved <=> jobs[j].phase \in Approved
      BY <1>0, <2>4, <3>1 DEF Gated, CanAdvance
    <3> QED BY <2>1, <2>4, <3>1, <3>2 DEF Moved, CanAdvance
  <2>5. CASE ParkAdvance(h) /\ CanAdvance(jobs[j], "clarify") /\ jobs'[j] = Advanced(jobs[j], "await_human")
    <3>1. Replying(h) /\ ~AtPark(h) /\ "await_human" \in Phase
      BY <2>5 DEF ParkAdvance, At, Replying, ReplyPc, AtPark, Phase
    <3>2. "await_human" \notin Approved /\ jobs[j].phase \notin Approved
      BY <2>5 DEF CanAdvance, Approved
    <3> QED BY <2>1, <2>5, <3>1, <3>2 DEF Moved, CanAdvance
  <2>6. CASE ParkRow(h) /\ CanPark(jobs[j]) /\ jobs'[j] = Parked(jobs[j])
    <3>1. Replying(h) /\ jobs[j].phase \notin Approved
      BY <2>6 DEF ParkRow, At, Replying, ReplyPc, CanPark, Approved
    <3> QED BY <2>1, <2>6, <3>1 DEF Moved, CanPark
  <2> QED BY <1>3, <2>2, <2>3, <2>4, <2>5, <2>6 DEF ReplyWrites
<1>4. ASSUME NEW h \in Handlers, procs[h].job = j, DecisionWrites(h, jobs[j], jobs'[j])
      PROVE  Moved(j)
  <2>1. CASE DriveRequeue(h) /\ CanRequeue(jobs[j]) /\ jobs'[j] = RequeuedAt(jobs[j], "implement")
    <3>1. Live(jobs[j]) /\ Exists(jobs[j]) /\ jobs[j].phase \notin Approved
      BY <2>1 DEF CanRequeue, Live, Approved
    <3>2. PlanGate(j)
      <4>1. /\ procs[h].gate \in GateIds /\ Opened(procs[h].gate)
            /\ gates[procs[h].gate].job = j /\ gates[procs[h].gate].kind = "review"
        BY <1>0, <1>4, <2>1, <3>1 DEF DriveRequeue, At, GateInv, GateFlow, GateFlowPc, JobOf
      <4> QED BY <4>1 DEF PlanGate, GatesOf
    <3>3. jobs[j].status # "queued" /\ ~jobs[j].diff
      BY <1>0, <3>1, <3>2 DEF Regime, Planned
    <3>4. jobs[j].status # "applying"
      BY <1>0, <3>3 DEF Regime, Handed
    <3>5. jobs[j].status \in {"provisioning", "running", "waiting"}
      BY <1>0, <3>1, <3>3, <3>4 DEF Live, Exists, Ended, Row, Status, Active
    <3> QED BY <1>4, <2>1, <3>3, <3>5 DEF Moved
  <2>2. CASE ResumeFlip(h) /\ CanResumeApply(jobs[j]) /\ jobs'[j] = ResumedApply(jobs[j])
    BY <2>2 DEF Moved
  <2> QED BY <1>4, <2>1, <2>2 DEF DecisionWrites
<1>5. CASE Minor(jobs[j], jobs'[j]) \/ Inserted(jobs[j], jobs'[j])
            \/ (Delete(j) /\ CanDelete(jobs[j]) /\ jobs'[j] = Deleted(jobs[j]))
  BY <1>5 DEF Moved
<1>6. CASE \E p \in Procs : /\ procs[p].job = j /\ ApplyPark(p) /\ CanParkForApply(jobs[j])
                            /\ jobs'[j] = ParkedForApply(jobs[j])
  <2>1. PICK p \in Procs : procs[p].job = j /\ ApplyPark(p)
    BY <1>6
  <2>2. jobs[j].diff \/ jobs[j].status = "deleted"
    BY <2>1 DEF ApplyPark, At, ApplyingPc, FenceInv, HasDiff, JobOf
  <2> QED BY <1>6, <2>2 DEF Moved, CanParkForApply
<1> QED BY <1>1, <1>2, <1>3, <1>4, <1>5, <1>6 DEF Written

(***************************************************************************)
(* The runner a job runs on is that of its lease, at any time              *)
(* (prepareProvision, reissueRunnerToken, markRunning).                    *)
(***************************************************************************)
THEOREM JobsRunUnderTheirLease == Spec => []RunsUnderItsLease
<1>1. Init => RunsUnderItsLease
  <2>1. EmptyRow.status = "unborn"
    BY DEF EmptyRow
  <2> QED BY <2>1 DEF Init, RunsUnderItsLease
<1>2. TypeInv /\ BornInv /\ GateInv /\ FenceInv /\ RunsUnderItsLease /\ [Next]_vars => RunsUnderItsLease'
  <2> SUFFICES ASSUME TypeInv, BornInv, GateInv, FenceInv, RunsUnderItsLease, [Next]_vars, NEW j \in Jobs
               PROVE  jobs'[j].status = "running" => jobs'[j].token = jobs'[j].lease
    BY DEF RunsUnderItsLease
  <2> DEFINE r == jobs[j]
             s == jobs'[j]
  <2>0. r \in Row /\ s \in Row /\ (r.status = "running" => r.token = r.lease)
    BY NextTyped DEF TypeInv, RunsUnderItsLease
  <2>1. Moved(j)
    BY RowsMoved
  <2>2. CASE Minor(r, s)
    <3>1. s.token = r.token /\ s.lease = r.lease /\ (s.status = r.status \/ s.status \in Terminal)
      BY <2>2 DEF Minor
    <3>2. "running" \notin Terminal
      BY DEF Terminal
    <3> QED BY <2>0, <3>1, <3>2
  <2>3. CASE Inserted(r, s) \/ s = Deleted(r)
    <3>1. CASE Inserted(r, s)
      <4>1. PICK status \in {"queued", "waiting"}, phase \in Phase, kind \in Kind, backend \in Backend,
                 policy \in Policy, resumed \in BOOLEAN :
              s = CreateJob(status, phase, kind, backend, policy, resumed)
        BY <3>1 DEF Inserted
      <4>2. s.status = status
        BY <4>1 DEF CreateJob, EmptyRow
      <4> QED BY <4>2
    <3>2. CASE s = Deleted(r)
      BY <3>2 DEF Deleted
    <3> QED BY <2>3, <3>1, <3>2
  <2>4. CASE s = Claimed(r, claims + 1) \/ s = Released(r) \/ s = Parked(r) \/ s = ParkedForApply(r)
               \/ s = ResumedApply(r) \/ s = RequeuedAt(r, "implement")
    BY <2>0, <2>4 DEF Claimed, Released, Parked, ParkedForApply, ResumedApply, RequeuedAt, Row
  <2>5. CASE r.status # "running" /\ \E c \in Nat : s = Prepared(r, c)
    BY <2>0, <2>5 DEF Prepared, Row
  <2>6. CASE r.token = r.lease /\ s = MarkedRunning(r)
    BY <2>0, <2>6 DEF MarkedRunning, Row
  <2>7. CASE \E outcome \in Goal : s = ResultRecorded(r, outcome)
    BY <2>0, <2>7 DEF ResultRecorded, Row
  <2>8. CASE \E to \in Phase : s = Advanced(r, to)
    BY <2>0, <2>8 DEF Advanced, Row
  <2> QED BY <2>1, <2>2, <2>3, <2>4, <2>5, <2>6, <2>7, <2>8 DEF Moved
<1> QED BY <1>1, <1>2, TypesHold, NothingUnborn, DecisionsHold, OneActsForAJob, PTL DEF Spec

(***************************************************************************)
(* The detailed system implements DevJobLifecycle.                         *)
(***************************************************************************)
\* The moves of DevJobLifecycle, from stage to stage.
StageMoves(a, b) ==
  \/ a = "none" /\ b \in {"queued", "parked"}
  \/ a = "queued" /\ b = "working"
  \/ a = "working" /\ b \in {"queued", "applying"}
  \/ a \in {"working", "applying", "failed"} /\ b = "parked"
  \/ a = "parked" /\ b \in {"queued", "applying"}
  \/ a \in {"queued", "working", "parked", "applying"} /\ b \in {"failed", "ended"}
  \/ a \in {"failed", "ended"} /\ b = "gone"

\* The stage of a row, status by status.
LEMMA Stages ==
  ASSUME NEW r
  PROVE  /\ r.status = "unborn" => StageOf(r) = "none"
         /\ r.status = "deleted" => StageOf(r) = "gone"
         /\ r.status \in {"provisioning", "running"} => StageOf(r) = "working"
         /\ r.status = "waiting" => StageOf(r) = "parked"
         /\ r.status \in Terminal \ {"failed"} => StageOf(r) = "ended"
         /\ r.status \in {"queued", "applying", "failed"} => StageOf(r) = r.status
<1>0. /\ \A t \in Terminal : t \notin {"unborn", "deleted", "provisioning", "running", "waiting", "queued", "applying"}
      /\ "failed" \in Terminal
  BY DEF Terminal
<1>1. CASE r.status = "unborn"
  BY <1>0, <1>1 DEF StageOf
<1>2. CASE r.status = "deleted"
  BY <1>0, <1>2 DEF StageOf
<1>3. CASE r.status \in {"provisioning", "running"}
  BY <1>0, <1>3 DEF StageOf
<1>4. CASE r.status = "waiting"
  BY <1>0, <1>4 DEF StageOf
<1>5. CASE r.status \in Terminal \ {"failed"}
  BY <1>0, <1>5 DEF StageOf
<1>6. CASE r.status \in {"queued", "applying", "failed"}
  BY <1>0, <1>6 DEF StageOf
<1> QED BY <1>1, <1>2, <1>3, <1>4, <1>5, <1>6

LEMMA RowsMoveStages ==
  ASSUME TypeInv, BornInv, GateInv, FenceInv, [Next]_vars, NEW j \in Jobs
  PROVE  \/ StageOf(jobs'[j]) = StageOf(jobs[j])
         \/ StageMoves(StageOf(jobs[j]), StageOf(jobs'[j]))
<1> DEFINE r == jobs[j]
           s == jobs'[j]
<1>0. r \in Row /\ s \in Row /\ Regime(j)
  BY NextTyped DEF TypeInv, FenceInv
<1>1. Moved(j)
  BY RowsMoved
<1>2. ASSUME NEW x, NEW y, x.status = y.status
      PROVE  StageOf(x) = StageOf(y)
  BY <1>2 DEF StageOf
<1>3. CASE s.status = r.status
  BY <1>2, <1>3
<1>4. CASE Live(r) /\ s.status \in Terminal
  <2>1. r.status \in {"queued", "provisioning", "running", "waiting", "applying"}
    BY <1>0, <1>4 DEF Live, Exists, Ended, Row, Status, Active
  <2>2. StageOf(r) \in {"queued", "working", "parked", "applying"}
    BY <2>1, Stages
  <2>3. StageOf(s) \in {"failed", "ended"}
    BY <1>4, Stages
  <2> QED BY <2>2, <2>3 DEF StageMoves
<1>5. CASE Inserted(r, s)
  <2>1. r.status = "unborn" /\ s.status \in {"queued", "waiting"}
    BY <1>5 DEF Inserted, CreateJob, EmptyRow
  <2>2. StageOf(r) = "none" /\ StageOf(s) \in {"queued", "parked"}
    BY <2>1, Stages
  <2> QED BY <2>2 DEF StageMoves
<1>6. CASE CanDelete(r) /\ s = Deleted(r)
  <2>1. s.status = "deleted" /\ r.status \in Terminal
    BY <1>6 DEF Deleted, EmptyRow, CanDelete, Ended
  <2>2. StageOf(s) = "gone" /\ StageOf(r) \in {"failed", "ended"}
    BY <2>1, Stages
  <2> QED BY <2>2 DEF StageMoves
<1>7. CASE CanClaim(r) /\ s = Claimed(r, claims + 1)
  <2>1. r.status = "queued" /\ s.status = "provisioning"
    BY <1>0, <1>7 DEF CanClaim, Claimed, Row
  <2>2. StageOf(r) = "queued" /\ StageOf(s) = "working"
    BY <2>1, Stages
  <2> QED BY <2>2 DEF StageMoves
<1>8. CASE r.status = "provisioning" /\ (s = Released(r) \/ s = MarkedRunning(r))
  <2>1. s.status \in {"queued", "running"}
    BY <1>0, <1>8 DEF Released, MarkedRunning, Row
  <2>2. StageOf(r) = "working" /\ StageOf(s) \in {"working", "queued"}
    BY <1>8, <2>1, Stages
  <2> QED BY <2>2 DEF StageMoves
<1>9. CASE InRun(r) /\ (s = Parked(r) \/ \E outcome \in Goal : s = ResultRecorded(r, outcome))
  <2>1. s.status \in {"waiting", "applying", r.status}
    BY <1>0, <1>9 DEF Parked, ResultRecorded, Row
  <2>2. StageOf(r) = "working" /\ StageOf(s) \in {"working", "parked", "applying"}
    BY <1>9, <2>1, Stages DEF InRun
  <2> QED BY <2>2 DEF StageMoves
<1>10. CASE r.status \in {"provisioning", "running", "waiting"} /\ s = RequeuedAt(r, "implement")
  <2>1. s.status = "queued"
    BY <1>0, <1>10 DEF RequeuedAt, Row
  <2>2. StageOf(r) \in {"working", "parked"} /\ StageOf(s) = "queued"
    BY <1>10, <2>1, Stages
  <2> QED BY <2>2 DEF StageMoves
<1>11. CASE CanResumeApply(r) /\ s = ResumedApply(r)
  <2>1. r.status = "waiting" /\ s.status = "applying"
    BY <1>0, <1>11 DEF CanResumeApply, ResumedApply, Row
  <2>2. StageOf(r) = "parked" /\ StageOf(s) = "applying"
    BY <2>1, Stages
  <2> QED BY <2>2 DEF StageMoves
<1>12. CASE CanParkForApply(r) /\ s = ParkedForApply(r)
  <2>1. r.status \in {"applying", "failed"} /\ s.status = "waiting"
    BY <1>0, <1>12 DEF CanParkForApply, ParkedForApply, Row
  <2>2. StageOf(r) \in {"applying", "failed"} /\ StageOf(s) = "parked"
    BY <2>1, Stages
  <2> QED BY <2>2 DEF StageMoves
<1>13. CASE (\E c \in Nat : s = Prepared(r, c)) \/ (\E to \in Phase : s = Advanced(r, to))
  <2>1. s.status = r.status
    BY <1>0, <1>13 DEF Prepared, Advanced, Row
  <2> QED BY <1>3, <2>1
<1>14. CASE Minor(r, s)
  BY <1>3, <1>4, <1>14 DEF Minor
<1> QED BY <1>1, <1>5, <1>6, <1>7, <1>8, <1>9, <1>10, <1>11, <1>12, <1>13, <1>14 DEF Moved

\* The one pull request of a job is opened after its diff was handed over.
LEMMA PrPublishes ==
  ASSUME TypeInv, FenceInv, ForgeInv, NEW p \in Procs, ApplyPr(p), ~UNCHANGED forge
  PROVE  /\ procs[p].job \in Jobs /\ forge[procs[p].job].prs = 0
         /\ forge' = [forge EXCEPT ![procs[p].job].prs = 1]
         /\ StageOf(JobOf(p)) \in {"applying", "parked", "failed", "ended", "gone"}
<1>1. procs[p].job \in Jobs /\ Opening(p, procs[p].job) /\ procs[p].pc \in ApplyingPc
  BY JobTyped DEF ApplyPr, At, LoopPc, Opening, ApplyingPc
<1>2. forge[procs[p].job].prs = 0
  BY <1>1 DEF ForgeInv
<1>3. forge' = [forge EXCEPT ![procs[p].job].prs = 1]
  <2>1. forge' = [forge EXCEPT ![procs[p].job].prs = @ + 1]
    BY DEF ApplyPr
  <2> QED BY <1>1, <1>2, <2>1 DEF TypeInv
<1>4. JobOf(p).diff \/ JobOf(p).status = "deleted"
  BY <1>1 DEF FenceInv, HasDiff
<1>5. JobOf(p).status \in {"applying", "waiting", "deleted"} \cup Terminal
  BY <1>1, <1>4 DEF FenceInv, Regime, Handed, JobOf
<1>6. StageOf(JobOf(p)) \in {"applying", "parked", "failed", "ended", "gone"}
  BY <1>5, Stages DEF Terminal
<1> QED BY <1>1, <1>2, <1>3, <1>6

\* Only an apply writes to the forge.
LEMMA ForgeWrites ==
  ASSUME TypeInv, [Next]_vars
  PROVE  UNCHANGED forge \/ \E p \in Procs : ApplyBranch(p) \/ ApplyPr(p)
<1>0. Replicas \subseteq Procs /\ Handlers \subseteq Procs
  BY DEF Procs
<1>1. ASSUME NEW p \in Procs, FlowStep(p)
      PROVE  UNCHANGED forge \/ ApplyBranch(p) \/ ApplyPr(p)
  BY <1>1, ApplyKeeps, FinalizeKeeps DEF FlowStep, NoPublication
<1>2. CASE \E w \in Replicas : WorkerFlow(w)
  BY <1>0, <1>1, <1>2, WorkerKeeps DEF WorkerFlow, NoPublication
<1>3. CASE \E h \in Handlers : HandlerStep(h)
  BY <1>0, <1>1, <1>3, ReplyKeeps, GateKeeps DEF HandlerStep, NoPublication
<1>4. CASE \E c \in Claims : RunnerCalls(c) \/ Heartbeat(c)
  BY <1>4, ArrivalKeeps DEF NoPublication
<1>5. CASE People \/ Environment
  BY <1>5, ArrivalKeeps DEF NoPublication
<1>6. CASE UNCHANGED vars
  BY <1>6 DEF vars
<1> QED BY <1>2, <1>3, <1>4, <1>5, <1>6 DEF Next

(***************************************************************************)
(* The detailed system keeps the promise of DevJobLifecycle, for every     *)
(* number of jobs, replicas, handlers, claims, gates and crashes: a step   *)
(* of it takes one job from a stage to one that may follow it, opens the   *)
(* job's one pull request, or is not seen (DevJobStore's statements,       *)
(* DevJobWorker.applyJobInner).                                            *)
(***************************************************************************)
THEOREM LifecycleIsKept == Spec => KeepsLifecycle
<1> DEFINE stage == [j \in Jobs |-> StageOf(jobs[j])]
           published == [j \in Jobs |-> forge[j].prs]
<1>1. Init => Lifecycle!Init
  <2> SUFFICES ASSUME Init
               PROVE  Lifecycle!Init
    OBVIOUS
  <2>1. EmptyRow.status = "unborn"
    BY DEF EmptyRow
  <2>2. \A j \in Jobs : StageOf(jobs[j]) = "none" /\ forge[j].prs = 0
    BY <2>1, Stages DEF Init
  <2> QED BY <2>2 DEF Lifecycle!Init
<1>2. ASSUME TypeInv, BornInv, GateInv, FenceInv, ForgeInv, [Next]_vars
      PROVE  [Lifecycle!Next]_<<stage, published>>
  <2>1. ASSUME NEW p \in Procs, ApplyPr(p), ~UNCHANGED forge
        PROVE  Lifecycle!Next
    <3>1. PICK k \in Jobs : /\ forge[k].prs = 0 /\ forge' = [forge EXCEPT ![k].prs = 1]
                           /\ StageOf(jobs[k]) \in {"applying", "parked", "failed", "ended", "gone"}
      BY <1>2, <2>1, PrPublishes DEF JobOf
    <3>2. UNCHANGED jobs
      BY <2>1 DEF ApplyPr
    <3>3. UNCHANGED stage
      BY <3>2
    <3>4. published' = [published EXCEPT ![k] = 1]
      BY <1>2, <3>1 DEF TypeInv
    <3>5. Lifecycle!Publish(k)
      BY <3>1, <3>3, <3>4 DEF Lifecycle!Publish
    <3> QED BY <3>1, <3>5 DEF Lifecycle!Next
  <2>2. ASSUME \A j \in Jobs : forge'[j].prs = forge[j].prs
        PROVE  [Lifecycle!Next]_<<stage, published>>
    <3>1. UNCHANGED published
      BY <2>2
    <3>2. CASE UNCHANGED jobs
      BY <3>1, <3>2
    <3>3. ASSUME NEW k \in Jobs, \A j \in Jobs \ {k} : jobs'[j] = jobs[j]
          PROVE  [Lifecycle!Next]_<<stage, published>>
      <4> DEFINE a == StageOf(jobs[k])
                 b == StageOf(jobs'[k])
      <4>1. stage' = [stage EXCEPT ![k] = b]
        BY <3>3
      <4>2. a = b \/ StageMoves(a, b)
        BY <1>2, RowsMoveStages
      <4>3. CASE a = b
        <5>1. UNCHANGED stage
          BY <4>1, <4>3
        <5> QED BY <3>1, <5>1
      <4>4. CASE StageMoves(a, b)
        <5>1. \A from : a \in from => Lifecycle!Move(k, from, b)
          BY <3>1, <4>1 DEF Lifecycle!Move
        <5> HIDE DEF a, b
        <5>2. \/ Lifecycle!Submit(k) \/ Lifecycle!Start(k) \/ Lifecycle!Rewind(k) \/ Lifecycle!Park(k)
              \/ Lifecycle!Approve(k) \/ Lifecycle!HandOver(k) \/ Lifecycle!Finish(k) \/ Lifecycle!Forget(k)
          BY <4>4, <5>1 DEF StageMoves, Lifecycle!Submit, Lifecycle!Start, Lifecycle!Rewind, Lifecycle!Park,
             Lifecycle!Approve, Lifecycle!HandOver, Lifecycle!Finish, Lifecycle!Forget, Lifecycle!Live
        <5> QED BY <5>2 DEF Lifecycle!Next
      <4> QED BY <4>2, <4>3, <4>4
    <3> QED BY <1>2, <3>2, <3>3, NextIsOneStatement DEF OneStatement
  <2>3. ASSUME NEW p \in Procs, ApplyBranch(p)
        PROVE  \A j \in Jobs : forge'[j].prs = forge[j].prs
    BY <1>2, <2>3 DEF ApplyBranch, TypeInv
  <2> QED BY <1>2, <2>1, <2>2, <2>3, ForgeWrites
<1> QED BY <1>1, <1>2, TypesHold, NothingUnborn, DecisionsHold, OneActsForAJob, ForgeHolds, PTL
        DEF Spec, KeepsLifecycle, Lifecycle!Spec

(***************************************************************************)
(* Plans, approved: the brief has the answers of the gate before the job   *)
(* is queued again, and it is queued again once.                           *)
(***************************************************************************)
\* A flow about to requeue a job has appended the answers of its gate to the
\* brief, or came too late to.
Briefed(p) ==
  procs[p].pc = "requeue" /\ Exists(JobOf(p)) =>
    procs[p].gate \in JobOf(p).briefed \/ ~Live(JobOf(p)) \/ JobOf(p).diff

Consented(j) ==
  (Exists(jobs[j]) /\ jobs[j].phase \in Approved /\ ~jobs[j].resumed) =>
    \E g \in GatesOf(j, "review") : gates[g].status = "resolved" /\ g \in jobs[j].briefed

Counted(j) ==
  Exists(jobs[j]) =>
    \/ jobs[j].provision <= 1
    \/ jobs[j].provision = 2 /\ jobs[j].phase \in Approved /\ ApprovedGate(j, "review")

PlanInv == (\A p \in Procs : Briefed(p)) /\ \A j \in Jobs : Consented(j) /\ Counted(j)

\* What holds a requeue back stays.
LEMMA BriefLasts ==
  ASSUME TypeInv, BornInv, GateInv, FenceInv, [Next]_vars, NEW j \in Jobs, Born(j), NEW g \in Nat,
         Exists(jobs[j]) => g \in jobs[j].briefed \/ ~Live(jobs[j]) \/ jobs[j].diff
  PROVE  Exists(jobs'[j]) => g \in jobs'[j].briefed \/ ~Live(jobs'[j]) \/ jobs'[j].diff
<1> SUFFICES ASSUME Exists(jobs'[j]), Live(jobs'[j])
             PROVE  g \in jobs'[j].briefed \/ jobs'[j].diff
  OBVIOUS
<1>0. /\ jobs[j] \in Row /\ jobs'[j] \in Row
      /\ Exists(jobs[j]) /\ jobs[j].briefed \subseteq jobs'[j].briefed
  BY RowsLast, NextTyped DEF TypeInv, Lasting
<1>1. CASE g \in jobs[j].briefed
  BY <1>0, <1>1
<1>2. CASE jobs[j].diff
  BY <1>2, DiffStays DEF Exists, NoRow
<1>3. CASE ~Live(jobs[j])
  <2>1. jobs[j].status \in Terminal /\ jobs'[j].status \notin Terminal
    BY <1>0, <1>3 DEF Live, Ended
  <2>2. jobs[j].status \notin {"queued", "provisioning", "running", "waiting", "applying", "unborn"}
    BY <2>1 DEF Terminal
  <2>3. ~Minor(jobs[j], jobs'[j])
    BY <1>3, <2>1 DEF Minor
  <2>4. /\ jobs'[j] # Deleted(jobs[j])
        /\ \A c \in Nat : jobs'[j] # Prepared(jobs[j], c)
    BY <1>0, <2>1 DEF Deleted, EmptyRow, Exists, NoRow, Prepared, Row
  <2>5. jobs[j].diff
    BY <1>3, <2>2, <2>3, <2>4, RowsMoved
    DEF Moved, Inserted, CanClaim, InRun, CanResumeApply
  <2> QED BY <2>5, DiffStays DEF Exists, NoRow
<1> QED BY <1>0, <1>1, <1>2, <1>3

LEMMA BriefedKeeps ==
  ASSUME TypeInv, BornInv, GateInv, FenceInv, [Next]_vars, NEW p \in Procs, Briefed(p)
  PROVE  (Briefed(p))'
<1>0. procs \in [Procs -> Proc] /\ procs[p].gate \in Nat
  BY DEF TypeInv, GoodProc, Proc
<1>1. CASE procs'[p].pc # "requeue"
  BY <1>1 DEF Briefed
<1>2. CASE procs[p].pc = "requeue" /\ procs'[p] = procs[p]
  <2>1. procs[p].pc \notin LoopPc
    BY <1>2 DEF LoopPc
  <2>2. PICK j \in Jobs : j = procs[p].job
    BY <2>1, JobTyped
  <2>3. Born(j)
    BY <2>1, <2>2 DEF BornInv
  <2>4. Exists(jobs'[j]) => procs[p].gate \in jobs'[j].briefed \/ ~Live(jobs'[j]) \/ jobs'[j].diff
    BY <1>0, <1>2, <2>2, <2>3, BriefLasts DEF Briefed, JobOf
  <2> QED BY <1>2, <2>2, <2>4 DEF Briefed, JobOf
<1>3. CASE DriveBrief(p) /\ procs'[p].pc = "requeue"
  <2>1. procs[p].pc \notin LoopPc
    BY <1>3 DEF DriveBrief, At, LoopPc
  <2>2. PICK j \in Jobs : j = procs[p].job
    BY <2>1, JobTyped
  <2>3. Goto(p, "requeue")
    BY <1>0, <1>3 DEF DriveBrief, CallFinalize, Proc
  <2>4. procs'[p].job = j /\ procs'[p].gate = procs[p].gate
    BY <1>0, <2>2, <2>3 DEF Goto, Proc
  <2>5. jobs'[j] = IF CanAppendBrief(jobs[j], procs[p].gate) THEN BriefAppended(jobs[j], procs[p].gate) ELSE jobs[j]
    BY <1>3, <2>2 DEF DriveBrief, Write, Update, JobOf, TypeInv
  <2>6. jobs[j] \in Row
    BY DEF TypeInv
  <2>7. Exists(jobs'[j]) => procs[p].gate \in jobs'[j].briefed \/ ~Live(jobs'[j]) \/ jobs'[j].diff
    BY <2>5, <2>6 DEF CanAppendBrief, BriefAppended, Row
  <2> QED BY <2>2, <2>4, <2>7 DEF Briefed, JobOf
<1>4. ASSUME Acts(p), procs'[p] # procs[p], procs'[p].pc = "requeue"
      PROVE  DriveBrief(p)
  <2>1. "requeue" \notin PlainPc /\ ~Applies(p)
    BY <1>4, ApplyMoves DEF PlainPc, CalmPc, LoopPc, FinalizePc, EarlyPc, ReplyPc
  <2>2. Decides(p)
    BY <1>4, <2>1, ActMoves
  <2>3. \A pc : Goto(p, pc) => procs'[p].pc = pc
    BY <1>0 DEF Goto, Proc
  <2>4. ~Leave(p)
    BY <1>0, <1>4, IdleTyped DEF Leave
  <2>5. DrivePc(procs[p].goal, GateOf(p).kind) # "requeue"
    BY DEF DrivePc
  <2>6. ~ResolveFlip(p)
    <3>1. procs' # [procs EXCEPT ![p].pc = "resolve_stuck", ![p].goal = GateOf(p).status]
      BY <1>0, <1>4 DEF Proc
    <3> QED BY <1>4, <2>3, <2>4, <2>5, <3>1 DEF ResolveFlip
  <2>7. ~ResolveStuck(p) /\ ~DriveRequeue(p) /\ ~ResumeGuard(p)
    BY <1>4, <2>3, <2>4, <2>5 DEF ResolveStuck, DriveRequeue, ResumeGuard
  <2>8. ~ResumeFlip(p)
    BY <1>0, <1>4, <2>3 DEF ResumeFlip, Proc
  <2> QED BY <2>2, <2>6, <2>7, <2>8 DEF Decides
<1>5. CASE Calm
  <2>1. "requeue" \notin CalmPc
    BY DEF CalmPc, LoopPc, FinalizePc
  <2> QED BY <1>1, <1>2, <1>5, <2>1 DEF Calm, CalmFlow
<1>6. ASSUME NEW k \in Jobs, TableOnly(k)
      PROVE  procs'[p] = procs[p]
  BY <1>6 DEF TableOnly, Create, Delete, Retry
<1> QED BY <1>1, <1>2, <1>3, <1>4, <1>5, <1>6, StepsSorted, ActorsSorted

\* A job gets past its plan when it is inserted there, or by a requeue.
LEMMA PlanStep ==
  ASSUME TypeInv, BornInv, GateInv, FenceInv, PlanInv, [Next]_vars, NEW j \in Jobs, Exists(jobs'[j])
  PROVE  \/ /\ jobs[j].status = "unborn" /\ jobs'[j].provision = 1
            /\ jobs'[j].phase \in Approved => jobs'[j].resumed
         \/ /\ Born(j) /\ Exists(jobs[j])
            /\ jobs'[j].provision = jobs[j].provision
            /\ jobs'[j].phase \in Approved <=> jobs[j].phase \in Approved
         \/ /\ Born(j) /\ Exists(jobs[j])
            /\ jobs'[j].provision = jobs[j].provision + 1
            /\ jobs'[j].phase \in Approved /\ jobs[j].phase \notin Approved
            /\ \E g \in GatesOf(j, "review") : gates[g].status = "resolved" /\ g \in jobs[j].briefed
<1> DEFINE r == jobs[j]
           s == jobs'[j]
<1>0. r \in Row /\ Moved(j)
  BY RowsMoved DEF TypeInv
<1>1. CASE r.status = "unborn"
  <2>1. ~Exists(r) /\ ~Live(r) /\ ~InRun(r)
    BY <1>1 DEF Exists, Live, NoRow, InRun
  <2>2. Inserted(r, s)
    BY <1>0, <1>1, <2>1
    DEF Moved, Minor, Exists, NoRow, Live, CanDelete, Ended, Terminal, CanClaim, CanRequeue,
        CanResumeApply, CanParkForApply
  <2> QED BY <1>1, <2>2 DEF Inserted, CreateJob, EmptyRow
<1>2. CASE r.status # "unborn"
  <2>1. Born(j) /\ Exists(r)
    BY <1>2, RowsLast DEF Born, Lasting
  <2>2. CASE Minor(r, s)
    BY <2>1, <2>2 DEF Minor
  <2>3. s # Deleted(r)
    BY DEF Deleted, EmptyRow, Exists, NoRow
  <2>4. CASE \/ s \in {Claimed(r, claims + 1), Released(r), MarkedRunning(r), Parked(r), ResumedApply(r), ParkedForApply(r)}
             \/ \E c \in Nat : s = Prepared(r, c)
             \/ \E outcome \in Goal : s = ResultRecorded(r, outcome)
    <3>1. s.phase = r.phase /\ s.provision = r.provision
      BY <1>0, <2>4
      DEF Claimed, Released, MarkedRunning, Parked, ResumedApply, ParkedForApply, Prepared, ResultRecorded, Row
    <3> QED BY <2>1, <3>1
  <2>5. CASE \E to \in Phase : s = Advanced(r, to) /\ (to \in Approved <=> r.phase \in Approved)
    BY <1>0, <2>1, <2>5 DEF Advanced, Row
  <2>6. ASSUME NEW h \in Handlers, procs[h].job = j, DriveRequeue(h), CanRequeue(r), ~r.diff,
               s = RequeuedAt(r, "implement")
        PROVE  /\ s.provision = r.provision + 1 /\ s.phase \in Approved /\ r.phase \notin Approved
               /\ \E g \in GatesOf(j, "review") : gates[g].status = "resolved" /\ g \in r.briefed
    <3>1. s.provision = r.provision + 1 /\ s.phase \in Approved /\ r.phase \notin Approved
      BY <1>0, <2>6 DEF RequeuedAt, CanRequeue, Approved, Row
    <3>2. h \in Procs /\ procs[h].pc = "requeue" /\ Live(JobOf(h)) /\ Exists(JobOf(h))
      BY <2>6 DEF Procs, DriveRequeue, At, CanRequeue, Live, JobOf
    <3>3. /\ procs[h].gate \in GateIds /\ gates[procs[h].gate].job = j
          /\ gates[procs[h].gate].status = "resolved" /\ gates[procs[h].gate].kind = "review"
      BY <2>6, <3>2 DEF GateInv, GateFlow, GateFlowPc
    <3>4. procs[h].gate \in r.briefed
      BY <2>6, <3>2 DEF PlanInv, Briefed, JobOf
    <3> QED BY <3>1, <3>3, <3>4 DEF GatesOf
  <2> QED BY <1>0, <1>2, <2>1, <2>2, <2>3, <2>4, <2>5, <2>6 DEF Moved, Inserted
<1> QED BY <1>1, <1>2

LEMMA PlanKeeps ==
  ASSUME TypeInv, BornInv, GateInv, FenceInv, PlanInv, [Next]_vars
  PROVE  PlanInv'
<1>1. \A p \in Procs : (Briefed(p))'
  BY BriefedKeeps DEF PlanInv
<1>2. ASSUME NEW j \in Jobs, NEW g \in GatesOf(j, "review"), gates[g].status = "resolved", Exists(jobs'[j])
      PROVE  gates'[g].status = "resolved" /\ g \in (GatesOf(j, "review"))'
  <2>1. g \in GateIds /\ gates[g].job = j /\ Opened(g)
    BY <1>2 DEF GatesOf, Opened
  <2>2. GateLasts(g)
    BY <2>1, GatesLast
  <2> QED BY <1>2, <2>1, <2>2 DEF GateLasts, GatesOf
<1>3. ASSUME NEW j \in Jobs
      PROVE  (Consented(j))'
  <2> SUFFICES ASSUME Exists(jobs'[j]), jobs'[j].phase \in Approved, ~jobs'[j].resumed
               PROVE  (\E g \in GatesOf(j, "review") : gates[g].status = "resolved" /\ g \in jobs[j].briefed)'
    BY DEF Consented
  <2>1. /\ Born(j) /\ Exists(jobs[j])
        /\ \/ jobs[j].phase \in Approved
           \/ \E g \in GatesOf(j, "review") : gates[g].status = "resolved" /\ g \in jobs[j].briefed
    BY PlanStep
  <2>2. jobs[j].briefed \subseteq jobs'[j].briefed /\ ~jobs[j].resumed
    BY <2>1, RowsLast DEF Lasting
  <2>3. PICK g \in GatesOf(j, "review") : gates[g].status = "resolved" /\ g \in jobs[j].briefed
    BY <2>1, <2>2 DEF PlanInv, Consented
  <2> QED BY <1>2, <2>2, <2>3
<1>4. ASSUME NEW j \in Jobs
      PROVE  (Counted(j))'
  <2> SUFFICES ASSUME Exists(jobs'[j])
               PROVE  \/ jobs'[j].provision <= 1
                      \/ /\ jobs'[j].provision = 2 /\ jobs'[j].phase \in Approved
                         /\ (ApprovedGate(j, "review"))'
    BY DEF Counted
  <2>0. jobs[j].provision \in Nat /\ Counted(j)
    BY DEF TypeInv, Row, PlanInv
  <2>1. ApprovedGate(j, "review") => (ApprovedGate(j, "review"))'
    BY <1>2 DEF ApprovedGate
  <2>2. (\E g \in GatesOf(j, "review") : gates[g].status = "resolved" /\ g \in jobs[j].briefed)
          => ApprovedGate(j, "review")
    BY DEF ApprovedGate
  <2>3. \/ jobs'[j].provision = 1
        \/ /\ Exists(jobs[j])
           /\ jobs'[j].provision = jobs[j].provision
           /\ jobs'[j].phase \in Approved <=> jobs[j].phase \in Approved
        \/ /\ Exists(jobs[j])
           /\ jobs'[j].provision = jobs[j].provision + 1
           /\ jobs'[j].phase \in Approved /\ jobs[j].phase \notin Approved
           /\ (ApprovedGate(j, "review"))'
    BY <2>1, <2>2, PlanStep
  <2> QED BY <2>0, <2>1, <2>3 DEF Counted
<1> QED BY <1>1, <1>3, <1>4 DEF PlanInv

\* PlanInv holds of every reachable state (phaseEngine, gateStore.resolve, requeueAtPhase).
LEMMA PlanHolds == Spec => []PlanInv
<1>1. Init => PlanInv
  <2>1. EmptyRow.status = "unborn" /\ Idle.pc = "idle"
    BY DEF EmptyRow, Idle
  <2> QED BY <2>1 DEF Init, PlanInv, Briefed, Consented, Counted, Exists, NoRow
<1>2. TypeInv /\ BornInv /\ GateInv /\ FenceInv /\ PlanInv /\ [Next]_vars => PlanInv'
  BY PlanKeeps
<1> QED BY <1>1, <1>2, TypesHold, NothingUnborn, DecisionsHold, OneActsForAJob, PTL DEF Spec

(***************************************************************************)
(* Nobody implements before the plan is approved and the answers are in    *)
(* the brief (GateService's drive, DevJobStore.requeueAtPhase), ...        *)
(***************************************************************************)
THEOREM PlansAreApproved == Spec => []ImplementAfterApproval
<1>1. PlanInv => ImplementAfterApproval
  BY DEF PlanInv, Consented, Approved, ImplementAfterApproval
<1> QED BY <1>1, PlanHolds, PTL

(***************************************************************************)
(* ... and one approval requeues the job once, however many resolves,      *)
(* re-drives and crashes there are.                                        *)
(***************************************************************************)
THEOREM OneRequeueAnApproval == Spec => []ApprovalRequeuesOnce
<1>1. TypeInv /\ PlanInv => ApprovalRequeuesOnce
  <2> SUFFICES ASSUME TypeInv, PlanInv, NEW j \in Jobs, Exists(jobs[j])
               PROVE  jobs[j].provision <= 1 + Cardinality(Approvals(j))
    BY DEF ApprovalRequeuesOnce
  <2>1. IsFiniteSet(GateIds)
    BY FS_Interval, BoundsAssumption DEF GateIds
  <2>2. IsFiniteSet(Approvals(j))
    BY <2>1, FS_Subset DEF Approvals, GatesOf
  <2>3. Cardinality(Approvals(j)) \in Nat
    BY <2>2, FS_CardinalityType
  <2>4. ApprovedGate(j, "review") => Cardinality(Approvals(j)) # 0
    BY <2>2, FS_EmptySet DEF ApprovedGate, Approvals
  <2>5. jobs[j].provision \in Nat /\ Counted(j)
    BY DEF TypeInv, Row, PlanInv
  <2> QED BY <2>3, <2>4, <2>5 DEF Counted
<1> QED BY <1>1, TypesHold, PlanHolds, PTL

(***************************************************************************)
(* The fence: what a handler does for a runner.                            *)
(***************************************************************************)
\* Who writes to a row is one of the named actors, finalizes or attaches, or is
\* no flow at all.
LEMMA RowWriters ==
  ASSUME TypeInv, [Next]_vars
  PROVE  \/ UNCHANGED jobs \/ UNCHANGED procs \/ Named
         \/ \E p \in Procs : FinalizeFlip(p) \/ Attach(p)
<1>0. Replicas \subseteq Procs /\ Handlers \subseteq Procs
  BY DEF Procs
<1>1. ASSUME NEW p \in Procs, FlowStep(p)
      PROVE  UNCHANGED jobs \/ Named \/ FinalizeFlip(p)
  BY <1>1 DEF FlowStep, FinalizeStep, FinalizeRead, FinalizeStop, ApplyStep, ApplyPr, ApplyExit, Applies, Named
<1>2. ASSUME NEW w \in Replicas, WorkerStep(w)
      PROVE  UNCHANGED jobs \/ Named \/ Attach(w)
  BY <1>2 DEF WorkerStep, TickStart, ApplyNext, Enforce, WallClockList, WallClockNext, StallList, StallNext,
     SweepNext, Reap, ReapList, ReapNext, ClaimAndProvision, CountSlots, TickEnd, Orphan, Unmoved,
     Provisions, Named
<1>3. ASSUME NEW h \in Handlers, ReplyStep(h) \/ GateStep(h) \/ HeldOpen(h)
      PROVE  UNCHANGED jobs \/ Named
  BY <1>3 DEF ReplyStep, ReplyExit, Replies, GateStep, HandlerEnd, Decides, Named
<1>4. CASE (\E w \in Replicas : WorkerFlow(w)) \/ \E h \in Handlers : HandlerStep(h)
  BY <1>0, <1>1, <1>2, <1>3, <1>4 DEF WorkerFlow, HandlerStep
<1>5. CASE \E c \in Claims : RunnerCalls(c) \/ Heartbeat(c)
  BY <1>5 DEF Heartbeat, Named
<1>6. CASE People
  <2>1. ASSUME NEW h \in Handlers, NEW j \in Jobs, NEW at \in Replicas, AdminArrival(h, j, at)
        PROVE  UNCHANGED jobs \/ Named
    BY <2>1 DEF AdminArrival, Cancel, Apply, Inserts, Named
  <2>2. ASSUME NEW h \in Handlers, NEW g \in GateIds, NEW at \in Replicas, GateArrival(h, g, at)
        PROVE  Named
    BY <2>2 DEF Named
  <2> QED BY <1>6, <2>1, <2>2 DEF People, Inserts, Named
<1>7. CASE Environment
  BY <1>7 DEF Environment, TimePasses, RunnerDies, Reclaimed, Crash
<1>8. CASE UNCHANGED vars
  BY <1>8 DEF vars
<1> QED BY <1>4, <1>5, <1>6, <1>7, <1>8 DEF Next

\* While a handler serves a runner, only its answers change a row as it goes on.
LEMMA OnlyItsReply ==
  ASSUME TypeInv, [Next]_vars, NEW h \in Handlers, Replying(h), procs'[h] # procs[h]
  PROVE  UNCHANGED jobs \/ Replies(h)
<1>0. /\ procs \in [Procs -> Proc] /\ h \in Procs /\ h \notin Replicas
      /\ procs[h].pc \notin GatePc \cup FinalizePc \cup ApplyPc \cup {"idle", "attach"}
  BY SortsAssumption
  DEF TypeInv, GoodProc, Procs, Replying, ReplyPc, GatePc, FinalizePc, ApplyPc
<1>1. ASSUME NEW p \in Procs, FinalizeFlip(p) \/ Attach(p)
      PROVE  FALSE
  <2>1. p # h
    BY <1>0, <1>1 DEF FinalizeFlip, Attach, At, FinalizePc
  <2>2. procs'[h] = procs[h]
    BY <1>0, <1>1, <2>1 DEF FinalizeFlip, Attach, Return, NextClaim, Goto
  <2> QED BY <2>2
<1>2. ASSUME NEW j \in Jobs, TableOnly(j)
      PROVE  FALSE
  BY <1>2 DEF TableOnly, Create, Delete, Retry
<1>3. CASE Acts(h)
  <2>1. ~Decides(h) /\ ~HeldOpen(h) /\ ~Applies(h)
    BY <1>0 DEF Decides, ResolveFlip, ResolveStuck, DriveBrief, DriveRequeue, ResumeGuard, ResumeFlip,
       HeldOpen, Applies, ApplyLoad, ApplyJudge, ApplyBranch, ApplyGate, ApplyPark, At, GatePc, ApplyPc
  <2>2. \A c \in Claims : ~Calls(c, h)
    BY <1>0 DEF Calls, RunnerApiStep, SpecCall, ResultCall, PhaseCall, Call, At
  <2>3. /\ \A j \in Jobs, at \in Replicas : ~CreateHeld(h, j, at)
        /\ \A g \in GateIds, at \in Replicas : ~GateArrival(h, g, at)
    BY <1>0 DEF CreateHeld, GateArrival, Resolve, GateExpires, At
  <2> QED BY <1>0, <1>3, <2>1, <2>2, <2>3 DEF Acts
<1> QED BY <1>0, <1>1, <1>2, <1>3, RowWriters, ActorsSorted

(***************************************************************************)
(* A handler that serves a runner changes the job's row only while the     *)
(* runner's token is still the row's (verifyRunnerToken, then the guarded  *)
(* statements of DevJobStore an await or more later).                      *)
(***************************************************************************)
THEOREM RepliesAreFenced == Spec => RunnerFenced
<1>1. ASSUME TypeInv, FenceInv, [Next]_vars, NEW h \in Handlers, Replying(h), procs'[h] # procs[h],
             NEW j \in Jobs, j = procs[h].job, jobs'[j] # jobs[j]
      PROVE  jobs[j].token = procs[h].claim
  <2>0. Numbered /\ Serving /\ Regime(j) /\ h \in Procs /\ jobs \in [Jobs -> Row]
    BY <1>1 DEF FenceInv, Procs, TypeInv
  <2>1. Replies(h)
    BY <1>1, OnlyItsReply
  <2>2. ASSUME NEW guard, NEW new, Write(j, guard, new)
        PROVE  guard
    BY <1>1, <2>0, <2>2 DEF Write, Update
  <2>3. CASE SpecReply(h)
    <3>1. CanMarkRunning(jobs[j]) /\ ~AtPark(h)
      BY <1>1, <2>2, <2>3 DEF SpecReply, JobOf, At, AtPark
    <3> QED BY <1>1, <2>0, <3>1, ServedAlone DEF CanMarkRunning, Live, Exists, Ended, NoRow, Terminal
  <2>4. CASE ResultRecord(h)
    <3>1. CanRecordResult(jobs[j]) /\ ~AtPark(h)
      BY <1>1, <2>2, <2>4 DEF ResultRecord, JobOf, At, AtPark
    <3> QED BY <1>1, <2>0, <3>1, ServedAlone DEF CanRecordResult
  <2>5. CASE PhaseJudge(h)
    <3>1. PICK ok \in BOOLEAN, review \in ReviewAction, n \in Nat, f \in Fingerprint :
            Judging(h, ok, review, n, f)
      BY <1>1, <2>0, <2>5, JudgeMoves
    <3>2. PICK guard : Write(j, guard /\ CanSetReview(jobs[j]), ReviewSet(jobs[j], n, f))
      BY <1>1, <3>1 DEF Judging, JobOf
    <3>3. CanSetReview(jobs[j]) /\ ~AtPark(h)
      BY <2>2, <2>5, <3>2 DEF PhaseJudge, At, AtPark
    <3> QED BY <1>1, <2>0, <3>3, ServedAlone DEF CanSetReview
  <2>6. CASE PhaseAdvance(h) \/ ParkAdvance(h)
    <3>1. Live(jobs[j]) /\ ~AtPark(h)
      BY <1>1, <2>2, <2>6 DEF PhaseAdvance, ParkAdvance, JobOf, At, AtPark, CanAdvance
    <3> QED BY <1>1, <2>0, <3>1, ServedAlone
  <2>7. CASE ParkRow(h)
    <3>1. CanPark(jobs[j])
      BY <1>1, <2>2, <2>7 DEF ParkRow, JobOf
    <3> QED BY <1>1, <2>0, <3>1, ServedAlone DEF CanPark, Approved
  <2>8. ~ParkOpen(h)
    BY <1>1 DEF ParkOpen
  <2> QED BY <2>1, <2>3, <2>4, <2>5, <2>6, <2>7, <2>8 DEF Replies
<1>2. ASSUME TypeInv, FenceInv, [Next]_vars
      PROVE  [\A h \in Handlers : FencedStep(h)]_vars
  <2> SUFFICES ASSUME NEW h \in Handlers, procs[h].pc \in ReplyPc, procs'[h] # procs[h],
                      jobs'[procs[h].job] # jobs[procs[h].job]
               PROVE  jobs[procs[h].job].token = procs[h].claim
    BY DEF FencedStep
  <2>1. Replying(h) /\ procs[h].pc \notin LoopPc /\ h \in Procs
    BY DEF Replying, ReplyPc, LoopPc, Procs
  <2>2. procs[h].job \in Jobs
    BY <1>2, <2>1, JobTyped
  <2> QED BY <1>1, <1>2, <2>1, <2>2
<1> QED BY <1>2, TypesHold, OneActsForAJob, PTL DEF Spec, RunnerFenced

(***************************************************************************)
(* Waiting jobs.                                                           *)
(***************************************************************************)
\* A human was asked and the gate did not expire.
Asked(j) ==
  \E g \in GateIds : gates[g].job = j /\ gates[g].status \in {"waiting", "resolved", "rejected"}
Parks(p) == procs[p].pc \in {"park_row", "apply_park"}
EndsWait(p, j) == procs[p].job = j /\ procs[p].pc \in {"held_open", "fin_read", "fin_flip"}

\* A human was asked once, whatever became of the gate.
Consulted(j) == \E g \in GateIds : gates[g].job = j /\ Opened(g)
\* Nobody ever provisioned the job.
Unserved(j) == (\A w \in Replicas : Early(w) => procs[w].job # j) /\ NeverRan(j)

\* Who is about to park a row has asked, and a waiting row nobody was asked about is
\* in the hands of a flow that asks or ends the job, or a crash took that flow; then
\* its gate has expired, or it waits as it was inserted.  Flows that drive a decision
\* are not needed here: they have the decided gate.
WaitInv ==
  /\ \A p \in Procs : Parks(p) /\ Exists(JobOf(p)) => Asked(procs[p].job)
  /\ \A j \in Jobs : jobs[j].status = "waiting" =>
       Asked(j) \/ (\E p \in Procs : EndsWait(p, j)) \/ crashes > 0
  /\ \A j \in Jobs : jobs[j].status = "waiting" => Consulted(j) \/ Unserved(j)

\* Opening a gate asks, also when an older one still waits.
LEMMA OpenedAsks ==
  ASSUME TypeInv, NEW j \in Jobs, NEW kind \in GateKind, CanOpen(j), OpenGate(j, kind)
  PROVE  (Asked(j))'
<1>0. gates \in [GateIds -> GoodGate]
  BY DEF TypeInv
<1>1. CASE WaitingGates(j) # {}
  BY <1>1 DEF OpenGate, WaitingGates, Asked
<1>2. CASE WaitingGates(j) = {}
  <2>1. PICK g \in GateIds :
          gates' = [gates EXCEPT ![g] = [status |-> "waiting", kind |-> kind, job |-> j]]
    BY <1>2 DEF OpenGate, FreshGates
  <2> QED BY <1>0, <2>1 DEF Asked
<1> QED BY <1>1, <1>2

\* Only the deadline tick lets a gate expire.
LEMMA ExpirySteps ==
  ASSUME TypeInv, BornInv, [Next]_vars, NEW g \in GateIds, gates[g].status = "waiting",
         gates'[g].status = "expired"
  PROVE  \E h \in Handlers, at \in Replicas : GateExpires(h, g, at)
<1>0. gates \in [GateIds -> Gate] /\ Handlers \subseteq Procs
      /\ {"review", "diff_policy"} \subseteq GateKind
      /\ \A pc \in ReplyPc \cup ApplyPc \cup GatePc : pc \notin LoopPc
  BY DEF TypeInv, GoodGate, Procs, GateKind, ReplyPc, ApplyPc, GatePc, LoopPc
<1>1. gates'[g] # gates[g]
  OBVIOUS
<1>2. ASSUME NEW j \in Jobs, NEW kind \in GateKind, CanOpen(j), OpenGate(j, kind)
      PROVE  FALSE
  BY <1>1, <1>2, GateMoves
<1>3. ASSUME NEW k, NEW status, FlipGate(k, status)
      PROVE  k = g /\ status = "expired"
  BY <1>0, <1>1, <1>3 DEF FlipGate, Gate
<1>4. ASSUME NEW h \in Handlers, Replies(h) \/ Decides(h) \/ HeldOpen(h)
      PROVE  FALSE
  <2>1. CASE ParkOpen(h) \/ HeldOpen(h)
    <3>1. procs[h].job \in Jobs
      BY <1>0, <2>1, JobTyped DEF ParkOpen, HeldOpen, At, ReplyPc, GatePc
    <3> QED BY <1>0, <1>2, <2>1, <3>1 DEF ParkOpen, HeldOpen
  <2>2. CASE ResolveFlip(h)
    <3>1. procs[h].goal \in GateDecision
      BY <1>0, <2>2 DEF ResolveFlip, At, TypeInv, GoodProc
    <3> QED BY <1>3, <2>2, <3>1 DEF ResolveFlip, GateDecision
  <2> QED BY <1>0, <1>4, <2>1, <2>2
          DEF Write, Replies, Decides, SpecReply, ResultRecord, PhaseJudge, PhaseAdvance, ParkAdvance, ParkRow,
              ResolveStuck, DriveBrief, DriveRequeue, ResumeGuard, ResumeFlip
<1>5. ASSUME NEW p \in Procs, Applies(p)
      PROVE  FALSE
  <2>1. CASE ApplyGate(p)
    <3>1. procs[p].job \in Jobs
      BY <1>0, <2>1, JobTyped DEF ApplyGate, At, ApplyPc
    <3> QED BY <1>0, <1>1, <1>2, <2>1, <3>1 DEF ApplyGate
  <2> QED BY <1>1, <1>5, <2>1 DEF Applies, ApplyLoad, ApplyJudge, ApplyBranch, ApplyPark
<1>6. ASSUME NEW j \in Jobs, Inserts(j) \/ Delete(j)
      PROVE  FALSE
  <2>1. CASE Delete(j)
    <3>1. gates'[g] = gates[g] \/ gates'[g] = [NoGate EXCEPT !.status = "deleted"]
      BY <2>1 DEF Delete
    <3> QED BY <1>1, <3>1 DEF NoGate
  <2> QED BY <1>1, <1>6, <2>1 DEF Inserts, Create, Retry, CreateHeld
<1>7. ASSUME NEW h \in Handlers, NEW at \in Replicas, NEW k \in GateIds, GateArrival(h, k, at)
      PROVE  GateExpires(h, g, at)
  <2>1. GateExpires(h, k, at)
    BY <1>1, <1>7 DEF GateArrival, Resolve
  <2>2. k = g
    BY <1>3, <2>1 DEF GateExpires
  <2> QED BY <2>1, <2>2
<1>8. (\E w \in Replicas : Provisions(w)) \/ (\E c \in Claims : RunnerCalls(c)) => UNCHANGED gates
  BY DEF Provisions, Claim, Prepare, Provision, Release, RunnerCalls, RunnerApiStep, SpecCall,
         ResultCall, PhaseCall, Call
<1>9. Calm => UNCHANGED gates
  BY DEF Calm
<1> QED BY <1>1, <1>4, <1>5, <1>6, <1>7, <1>8, <1>9, StepsSorted DEF Named

\* Who was asked stays asked until the gate expires or the job is deleted.
LEMMA AskedLasts ==
  ASSUME TypeInv, BornInv, [Next]_vars, NEW j \in Jobs, Asked(j), Exists(jobs'[j])
  PROVE  \/ (Asked(j))'
         \/ \E h \in Handlers, at \in Replicas, g \in GateIds : GateExpires(h, g, at) /\ gates[g].job = j
<1>1. PICK g \in GateIds : gates[g].job = j /\ gates[g].status \in {"waiting", "resolved", "rejected"}
  BY DEF Asked
<1>2. GateLasts(g)
  BY GatesLast
<1>3. TypeInv'
  BY NextTyped
<1>4. gates'[g].job = j /\ gates'[g].status \in {"waiting", "resolved", "rejected", "expired"}
  <2>1. gates'[g].status \in GateStatus
    BY <1>3 DEF TypeInv, GoodGate, Gate
  <2> QED BY <1>1, <1>2, <2>1 DEF GateLasts, Opened, GateStatus
<1>5. CASE gates'[g].status = "expired"
  <2>1. gates[g].status = "waiting"
    BY <1>1, <1>2, <1>5 DEF GateLasts, Opened
  <2> QED BY <1>1, <1>5, <2>1, ExpirySteps
<1> QED BY <1>4, <1>5 DEF Asked

\* Nobody but the routes that create a job writes to a row that is not there.
LEMMA InsertsOnly ==
  ASSUME TypeInv, BornInv, Named, NEW j \in Jobs, jobs[j].status = "unborn", jobs'[j] # jobs[j]
  PROVE  Inserts(j)
<1>0. jobs \in [Jobs -> Row] /\ Handlers \subseteq Procs /\ Replicas \subseteq Procs
  BY DEF TypeInv, Procs
<1>1. \A k, guard, new : Write(k, guard, new) => k = j
  BY <1>0 DEF Write, Update
<1>2. ASSUME NEW p \in Procs, procs[p].pc \notin LoopPc
      PROVE  procs[p].job # j
  BY <1>2 DEF BornInv, Born
<1>3. ASSUME NEW w \in Replicas, Provisions(w)
      PROVE  FALSE
  <2>1. CASE Claim(w)
    BY <1>0, <2>1 DEF Claim, CanClaim, Write, Update
  <2>2. CASE Prepare(w) \/ Provision(w) \/ Release(w)
    <3>1. procs[w].job # j
      BY <1>0, <1>2, <2>2 DEF Prepare, Provision, Release, At, LoopPc
    <3> QED BY <1>1, <2>2, <3>1 DEF Prepare, Provision, Start, Adopt, AtCapacity, Refused, FetchPolicy, Release
  <2> QED BY <1>3, <2>1, <2>2 DEF Provisions
<1>4. ASSUME NEW h \in Handlers, Replies(h)
      PROVE  FALSE
  <2>1. procs[h].job # j /\ h \in Procs
    BY <1>0, <1>2, <1>4 DEF Replies, SpecReply, ResultRecord, PhaseJudge, PhaseAdvance, ParkAdvance, ParkOpen,
       ParkRow, At, LoopPc
  <2>2. ~PhaseJudge(h)
    BY <1>0, <2>1, JudgeMoves DEF Judging, Write
  <2> QED BY <1>0, <1>4, <2>1, <2>2
          DEF Write, Replies, SpecReply, ResultRecord, PhaseAdvance, ParkAdvance, ParkOpen, ParkRow
<1>5. ASSUME NEW h \in Handlers, Decides(h)
      PROVE  FALSE
  <2>1. procs[h].job # j /\ h \in Procs
    BY <1>0, <1>2, <1>5 DEF Decides, ResolveFlip, ResolveStuck, DriveBrief, DriveRequeue, ResumeGuard, ResumeFlip,
       At, LoopPc
  <2> QED BY <1>0, <1>5, <2>1
          DEF Write, Decides, ResolveFlip, ResolveStuck, DriveBrief, DriveRequeue, ResumeGuard, ResumeFlip
<1>6. ASSUME NEW p \in Procs, Applies(p)
      PROVE  FALSE
  <2>1. procs[p].job # j
    BY <1>2, <1>6 DEF Applies, ApplyLoad, ApplyJudge, ApplyBranch, ApplyGate, ApplyPark, At, LoopPc
  <2> QED BY <1>1, <1>6, <2>1 DEF Applies, ApplyLoad, ApplyJudge, ApplyBranch, ApplyGate, ApplyPark
<1>7. ASSUME NEW k \in Jobs, Inserts(k)
      PROVE  k = j
  BY <1>0, <1>7 DEF Inserts, Create, Retry, CreateHeld, Insert
<1>8. ASSUME NEW k \in Jobs, Delete(k)
      PROVE  FALSE
  BY <1>0, <1>8 DEF Delete, CanDelete, Ended, Terminal, Write, Update
<1>9. (\E c \in Claims : RunnerCalls(c)) => UNCHANGED jobs
  BY DEF RunnerCalls, RunnerApiStep, SpecCall, ResultCall, PhaseCall, Call
<1>10. \A h \in Handlers : HeldOpen(h) \/ (\E at \in Replicas, g \in GateIds : GateArrival(h, g, at))
         => UNCHANGED jobs
  BY DEF HeldOpen, GateArrival, Resolve, GateExpires
<1> QED BY <1>3, <1>4, <1>5, <1>6, <1>7, <1>8, <1>9, <1>10 DEF Named

\* A row begins to wait when it is inserted for a first source, or parked.
LEMMA WaitBegins ==
  ASSUME TypeInv, BornInv, [Next]_vars, NEW j \in Jobs, jobs'[j].status = "waiting",
         jobs[j].status # "waiting"
  PROVE  \/ \E h \in Handlers, at \in Replicas : CreateHeld(h, j, at)
         \/ \E h \in Handlers : procs[h].job = j /\ ParkRow(h) /\ CanPark(jobs[j])
         \/ \E p \in Procs : procs[p].job = j /\ ApplyPark(p) /\ CanParkForApply(jobs[j])
<1>0. jobs \in [Jobs -> Row] /\ procs \in [Procs -> Proc] /\ Written(j)
  BY RowsWritten DEF TypeInv, GoodProc
<1> DEFINE r == jobs[j]
           s == jobs'[j]
<1>1. r \in Row /\ s.status = "waiting" /\ r.status # "waiting"
  BY <1>0
<1>2. ~Minor(r, s)
  BY <1>1 DEF Minor, Terminal
<1>3. CASE Inserted(r, s)
  <2>1. Inserts(j)
    BY <1>2, <1>3, StepsSorted, InsertsOnly DEF Inserted, Calm
  <2>2. \A phase, kind, backend, policy, resumed :
          CreateJob("queued", phase, kind, backend, policy, resumed).status = "queued"
    BY DEF CreateJob, EmptyRow
  <2>3. \A row : Insert(j, row) => s = row
    BY <1>0 DEF Insert
  <2> HIDE DEF s
  <2>4. ~Create(j)
    BY <1>1, <2>2, <2>3 DEF Create
  <2>5. \A k \in Jobs : ~Retry(k, j)
    BY <1>1, <2>2, <2>3 DEF Retry
  <2> QED BY <2>1, <2>4, <2>5 DEF Inserts
<1>4. s # Deleted(r)
  BY <1>1, EmptyTyped DEF Deleted, Row
<1>5. ASSUME NEW w \in Replicas, WorkerWrites(w, r, s)
      PROVE  FALSE
  BY <1>1, <1>5 DEF WorkerWrites, Claimed, Prepared, Reissued, Released, Row
<1>6. ASSUME NEW h \in Handlers, ReplyWrites(h, r, s)
      PROVE  ParkRow(h) /\ CanPark(r)
  BY <1>1, <1>6 DEF ReplyWrites, MarkedRunning, ResultRecorded, Advanced, Row
<1>7. ASSUME NEW h \in Handlers, DecisionWrites(h, r, s)
      PROVE  FALSE
  BY <1>1, <1>7 DEF DecisionWrites, RequeuedAt, ResumedApply, Row
<1> QED BY <1>0, <1>2, <1>3, <1>4, <1>5, <1>6, <1>7 DEF Written

\* Who is about to park a row just asked.
LEMMA ParkBegins ==
  ASSUME TypeInv, BornInv, [Next]_vars, NEW p \in Procs, procs'[p] # procs[p], (Parks(p))'
  PROVE  procs'[p].job \in Jobs /\ (Asked(procs[p].job))'
<1>0. /\ procs \in [Procs -> Proc] /\ Replicas \cap Handlers = {} /\ p \in Replicas \cup Handlers
      /\ procs'[p].pc \in {"park_row", "apply_park"}
      /\ {"review", "diff_policy"} \subseteq GateKind
      /\ "park_row" \in ReplyPc /\ "apply_park" \notin PlainPc
  BY SortsAssumption DEF TypeInv, GoodProc, Procs, Parks, GateKind, ReplyPc, PlainPc, CalmPc, LoopPc,
     FinalizePc, EarlyPc
<1>1. ~Calm
  BY <1>0 DEF Calm, CalmFlow, CalmPc, LoopPc, FinalizePc
<1>2. Acts(p)
  <2>1. \A j \in Jobs : ~TableOnly(j)
    BY DEF TableOnly, Create, Delete, Retry
  <2> QED BY <1>1, <2>1, StepsSorted, ActorsSorted
<1>3. ASSUME NEW kind \in GateKind, procs[p].pc \notin LoopPc, CanOpen(procs[p].job),
             OpenGate(procs[p].job, kind), Onward(p)
      PROVE  procs'[p].job \in Jobs /\ (Asked(procs[p].job))'
  <2>1. PICK j \in Jobs : procs[p].job = j
    BY <1>3, JobTyped
  <2>2. procs'[p].job = j
    BY <1>0, <1>3, <2>1 DEF Onward, Idle
  <2>3. (Asked(j))'
    BY <1>3, <2>1, OpenedAsks
  <2> QED BY <2>2, <2>3
<1>m. \A pc : Goto(p, pc) => procs'[p].pc = pc
  BY <1>0 DEF Goto, Proc
<1>4. CASE procs'[p].pc = "apply_park"
  <2>1. Applies(p)
    BY <1>0, <1>2, <1>4, ActMoves, DecideMoves
  <2>2. ApplyFails(p) => procs'[p].pc = "fin_read"
    BY <1>0 DEF ApplyFails, CallFinalize, Proc
  <2>3. ~ApplyLoad(p) /\ ~ApplyBranch(p) /\ ~ApplyPark(p)
    BY <1>m, <1>4, <2>2 DEF ApplyLoad, ApplyBranch, ApplyPark
  <2>4. ~ApplyJudge(p)
    <3> SUFFICES ASSUME ApplyJudge(p) PROVE FALSE
      OBVIOUS
    <3>1. procs[p].pc \notin LoopPc
      BY DEF ApplyJudge, At, LoopPc
    <3>2. \A approved \in BOOLEAN : PolicyVerdict(JobOf(p).policy, approved) \in {"allow", "gate", "deny"}
      BY <3>1, JobTyped DEF PolicyVerdict, Row, Policy
    <3>3. (procs[p].approved \/ ApprovedGate(procs[p].job, "diff_policy")) \in BOOLEAN
      BY <1>0 DEF Proc, ApprovedGate
    <3>4. Goto(p, "apply_branch") \/ Goto(p, "apply_gate") \/ Goto(p, "apply_exit") \/ ApplyFails(p)
      BY <3>2, <3>3 DEF ApplyJudge
    <3> QED BY <1>m, <1>4, <2>2, <3>4
  <2>5. ApplyGate(p)
    BY <2>1, <2>3, <2>4 DEF Applies
  <2>6. procs[p].pc \notin LoopPc
    BY <2>5 DEF ApplyGate, At, LoopPc
  <2> QED BY <1>0, <1>m, <1>3, <1>4, <2>1, <2>5, <2>6, NamedOnward DEF ApplyGate
<1>5. CASE procs'[p].pc = "park_row" /\ p \in Handlers
  <2>1. (Replying(p))'
    BY <1>0, <1>5 DEF Replying
  <2>2. PhaseJudge(p) \/ ParkAdvance(p) \/ ParkOpen(p)
    BY <1>5, <2>1, ReplySteps
  <2>3. ParkOpen(p)
    BY <1>5, <2>2, ReplyingMoves DEF Replies
  <2>4. procs[p].pc \notin LoopPc
    BY <2>3 DEF ParkOpen, At, LoopPc
  <2> QED BY <1>0, <1>3, <2>3, <2>4, NamedOnward DEF ParkOpen, Replies
<1>6. CASE procs'[p].pc = "park_row" /\ p \in Replicas
  <2>1. Provisions(p)
    BY <1>0, <1>2, <1>6, ApplyMoves DEF Acts
  <2>2. ~Claim(p)
    <3>1. ASSUME NEW k \in Jobs, procs' = [procs EXCEPT ![p].pc = "prepare", ![p].job = k,
                                             ![p].claim = claims + 1, ![p].slots = @ - 1]
          PROVE  procs'[p].pc = "prepare"
      BY <1>0, <3>1 DEF Proc
    <3> QED BY <1>6, <3>1 DEF Claim
  <2>3. ~Release(p)
    <3>1. [Idle EXCEPT !.pc = "claim", !.slots = procs[p].slots].pc = "claim"
      BY DEF Idle
    <3> QED BY <1>0, <1>6, <3>1 DEF Release, NextClaim
  <2>4. \A to, pr, next : CallFinalize(p, to, pr, next) => procs'[p].pc = "fin_read"
    BY <1>0 DEF CallFinalize, Proc
  <2> QED BY <1>m, <1>6, <2>1, <2>2, <2>3, <2>4
          DEF Provisions, Prepare, Provision, Start, Adopt, AtCapacity, Refused, Answered
<1> QED BY <1>0, <1>4, <1>5, <1>6

\* Crashes are counted, and never forgotten.
LEMMA CrashesGrow ==
  ASSUME TypeInv, [Next]_vars
  PROVE  crashes \in Nat /\ crashes' \in Nat /\ crashes <= crashes'
<1>1. crashes \in Nat /\ crashes' \in Nat
  BY NextTyped, BoundsAssumption DEF TypeInv
<1>2. ASSUME NEW p \in Procs, FlowStep(p)
      PROVE  UNCHANGED crashes
  BY <1>2 DEF FlowStep, ApplyStep, ApplyLoad, ApplyJudge, ApplyBranch, ApplyPr, ApplyGate,
              ApplyPark, ApplyExit, FinalizeStep, FinalizeRead, FinalizeFlip, FinalizeStop
<1>3. ASSUME NEW w \in Replicas, WorkerStep(w)
      PROVE  UNCHANGED crashes
  <2>1. TickStart(w) \/ ApplyNext(w) \/ Enforce(w) \/ Reap(w) \/ CountSlots(w) \/ TickEnd(w) =>
          UNCHANGED crashes
    BY DEF TickStart, ApplyNext, Enforce, WallClockList, WallClockNext, StallList,
           StallNext, SweepNext, Reap, ReapList, ReapNext, CountSlots, TickEnd, Unmoved
  <2>2. Claim(w) \/ Prepare(w) \/ Provision(w) \/ Release(w) \/ Attach(w) \/ Orphan(w) => UNCHANGED crashes
    BY DEF Claim, Prepare, Provision, Release, Attach, Orphan
  <2> QED BY <1>3, <2>1, <2>2 DEF WorkerStep, ClaimAndProvision
<1>4. ASSUME NEW h \in Handlers, ReplyStep(h) \/ GateStep(h) \/ HeldOpen(h)
      PROVE  UNCHANGED crashes
  <2>1. ReplyStep(h) => UNCHANGED crashes
    BY DEF ReplyStep, SpecReply, ResultRecord, ReplyExit, PhaseJudge, PhaseAdvance,
           ParkAdvance, ParkOpen, ParkRow
  <2>2. GateStep(h) \/ HeldOpen(h) => UNCHANGED crashes
    BY DEF GateStep, ResolveFlip, ResolveStuck, DriveBrief, DriveRequeue, ResumeGuard,
           ResumeFlip, HandlerEnd, HeldOpen
  <2> QED BY <1>4, <2>1, <2>2
<1>5. ASSUME NEW c \in Claims, RunnerCalls(c) \/ Heartbeat(c)
      PROVE  UNCHANGED crashes
  BY <1>5 DEF RunnerCalls, RunnerApiStep, SpecCall, ResultCall, PhaseCall, Call, Heartbeat
<1>6. People => UNCHANGED crashes
  <2>1. \A j \in Jobs : Create(j) \/ Delete(j) => UNCHANGED crashes
    BY DEF Create, Delete
  <2>2. \A j, k \in Jobs : Retry(j, k) => UNCHANGED crashes
    BY DEF Retry
  <2>3. \A h \in Handlers, at \in Replicas, j \in Jobs : AdminArrival(h, j, at) => UNCHANGED crashes
    BY DEF AdminArrival, CreateHeld, Cancel, Apply
  <2>4. \A h \in Handlers, at \in Replicas, g \in GateIds : GateArrival(h, g, at) => UNCHANGED crashes
    BY DEF GateArrival, Resolve, GateExpires
  <2> QED BY <2>1, <2>2, <2>3, <2>4 DEF People
<1>7. Environment => UNCHANGED crashes \/ crashes' = crashes + 1
  BY DEF Environment, TimePasses, RunnerDies, Reclaimed, Crash
<1>8. UNCHANGED crashes \/ crashes' = crashes + 1
  <2>0. Replicas \subseteq Procs /\ Handlers \subseteq Procs
    BY DEF Procs
  <2>1. CASE \E w \in Replicas : WorkerFlow(w)
    BY <1>2, <1>3, <2>0, <2>1 DEF WorkerFlow
  <2>2. CASE \E h \in Handlers : HandlerStep(h)
    BY <1>2, <1>4, <2>0, <2>2 DEF HandlerStep
  <2> QED BY <1>5, <1>6, <1>7, <2>1, <2>2 DEF Next, vars
<1> QED BY <1>1, <1>8

\* A waiting row that nobody provisioned is not provisioned while it waits.
LEMMA UnservedLasts ==
  ASSUME TypeInv, BornInv, [Next]_vars, NEW j \in Jobs, jobs'[j].status = "waiting", Unserved(j)
  PROVE  (Unserved(j))'
<1>0. jobs \in [Jobs -> Row] /\ procs \in [Procs -> Proc] /\ Replicas \subseteq Procs
  BY DEF TypeInv, GoodProc, Procs
<1>1. ASSUME NEW w \in Replicas, (Early(w))', procs'[w].job = j
      PROVE  FALSE
  <2>1. CASE procs'[w] = procs[w]
    BY <1>1, <2>1 DEF Unserved, Early
  <2>2. CASE Claim(w)
    <3>1. PICK k \in Jobs :
            /\ Write(k, CanClaim(jobs[k]), Claimed(jobs[k], claims + 1)) /\ CanClaim(jobs[k])
            /\ procs' = [procs EXCEPT ![w].pc = "prepare", ![w].job = k,
                                      ![w].claim = claims + 1, ![w].slots = @ - 1]
      BY <2>2 DEF Claim
    <3>2. k = j
      BY <1>0, <1>1, <3>1 DEF Proc
    <3>3. jobs'[j] = Claimed(jobs[j], claims + 1)
      BY <1>0, <3>1, <3>2 DEF Write, Update
    <3>4. jobs'[j].status = "provisioning"
      BY <1>0, <3>3 DEF Claimed, Row
    <3> QED BY <3>4
  <2>3. CASE Early(w) /\ procs'[w].job = procs[w].job
    BY <1>1, <2>3 DEF Unserved
  <2> QED BY <1>1, <2>1, <2>2, <2>3, EarlySteps
<1>2. ASSUME NEW c \in Claims, runners'[c].stage # "none", runners'[c].job = j
      PROVE  FALSE
  <2>1. CASE Started(c) /\ runners'[c].job = runners[c].job
    BY <1>2, <2>1 DEF Unserved, NeverRan, Started
  <2>2. ASSUME NEW w \in Replicas, Provision(w), Start(w), c = procs[w].claim
        PROVE  FALSE
    <3>1. runners'[c].job = procs[w].job
      BY <2>2 DEF Start, TypeInv, NoRunner
    <3>2. Early(w)
      BY <2>2 DEF Provision, At, Early, EarlyPc
    <3> QED BY <1>2, <3>1, <3>2 DEF Unserved
  <2>3. CalmRunner(c) => Started(c) /\ runners'[c].job = runners[c].job
    BY <1>2 DEF CalmRunner, Started
  <2> QED BY <2>1, <2>2, <2>3, RunnerSteps DEF Started
<1> QED BY <1>1, <1>2 DEF Unserved, NeverRan

\* Who is about to answer for a row stays with it until it asked or ended the job,
\* or crashes.
LEMMA EndsWaitSteps ==
  ASSUME TypeInv, [Next]_vars, NEW p \in Procs,
         procs[p].pc \in {"held_open", "fin_read", "fin_flip"}, procs'[p] # procs[p]
  PROVE  HeldOpen(p) \/ FinalizeRead(p) \/ FinalizeFlip(p) \/ \E r \in Replicas : Crash(r)
<1>1. ~UNCHANGED procs /\ \A q \in Procs : Alone(q) => q = p
  BY DEF Alone
<1>2. FlowStep(p) => FinalizeRead(p) \/ FinalizeFlip(p)
  BY DEF FlowStep, ApplyStep, ApplyLoad, ApplyJudge, ApplyBranch, ApplyPr, ApplyGate, ApplyPark, ApplyExit,
     FinalizeStep, FinalizeStop, At
<1>3. ~WorkerStep(p)
  BY DEF WorkerStep, TickStart, ApplyNext, Enforce, WallClockList, WallClockNext, StallList, StallNext,
     SweepNext, Reap, ReapList, ReapNext, ClaimAndProvision, CountSlots, Claim, Prepare, Provision, Release,
     Attach, Orphan, TickEnd, At
<1>4. Handles(p) => HeldOpen(p)
  BY DEF Handles, ReplyStep, SpecReply, ResultRecord, ReplyExit, PhaseJudge, PhaseAdvance, ParkAdvance,
     ParkOpen, ParkRow, GateStep, ResolveFlip, ResolveStuck, DriveBrief, DriveRequeue, ResumeGuard,
     ResumeFlip, HandlerEnd, RunnerApiStep, SpecCall, ResultCall, PhaseCall, Call, AdminArrival, CreateHeld,
     Cancel, Apply, GateArrival, Resolve, GateExpires, At
<1>5. Replicas \subseteq Procs /\ Handlers \subseteq Procs
  BY DEF Procs
<1> QED BY <1>1, <1>2, <1>3, <1>4, <1>5, MoversSorted

LEMMA EndsWaitLasts ==
  ASSUME TypeInv, [Next]_vars, NEW p \in Procs, NEW j \in Jobs, EndsWait(p, j),
         jobs[j].status = "waiting", jobs'[j].status = "waiting"
  PROVE  (EndsWait(p, j))' \/ (Asked(j))' \/ crashes' > 0
<1>0. /\ procs \in [Procs -> Proc] /\ procs[p].job = j /\ JobOf(p) = jobs[j] /\ jobs \in [Jobs -> Row]
      /\ Live(jobs[j])
  BY DEF TypeInv, GoodProc, EndsWait, JobOf, Live, Exists, Ended, NoRow, Terminal
<1>1. CASE procs'[p] = procs[p]
  BY <1>1 DEF EndsWait
<1>2. ASSUME NEW r \in Replicas, Crash(r)
      PROVE  crashes' > 0
  BY <1>2, CrashesGrow DEF Crash
<1>3. CASE HeldOpen(p)
  BY <1>0, <1>3, OpenedAsks DEF HeldOpen, GateKind
<1>4. CASE FinalizeRead(p)
  <2>1. procs' = [procs EXCEPT ![p].pc = "fin_flip", ![p].stop = JobOf(p).handle]
    BY <1>0, <1>4 DEF FinalizeRead
  <2>2. procs'[p].pc = "fin_flip" /\ procs'[p].job = procs[p].job
    BY <1>0, <2>1 DEF Proc
  <2> QED BY <1>0, <2>2 DEF EndsWait
<1>5. CASE FinalizeFlip(p)
  <2>1. jobs'[j] = Finished(jobs[j], procs[p].to, procs[p].pr)
    BY <1>0, <1>5 DEF FinalizeFlip, CanFinish, Write, Update
  <2>2. jobs'[j].status \in Terminal
    BY <1>0, <2>1 DEF Finished, Row, Proc
  <2> QED BY <2>2 DEF Terminal
<1> QED BY <1>1, <1>2, <1>3, <1>4, <1>5, EndsWaitSteps DEF EndsWait

LEMMA WaitKeeps ==
  ASSUME TypeInv, BornInv, WaitInv, [Next]_vars
  PROVE  WaitInv'
<1>0. procs \in [Procs -> Proc] /\ Handlers \subseteq Procs /\ gates \in [GateIds -> Gate]
  BY DEF TypeInv, GoodProc, GoodGate, Procs
<1>1. ASSUME NEW p \in Procs, (Parks(p))', (Exists(JobOf(p)))'
      PROVE  (Asked(procs[p].job))'
  <2>1. CASE procs'[p] = procs[p]
    <3>1. Parks(p) /\ procs[p].pc \notin LoopPc
      BY <1>1, <2>1 DEF Parks, LoopPc
    <3>2. PICK j \in Jobs : procs[p].job = j /\ procs'[p].job = j
      BY <2>1, <3>1, JobTyped
    <3>3. Born(j) /\ Exists(jobs'[j])
      BY <1>1, <3>1, <3>2 DEF BornInv, JobOf
    <3>4. Exists(jobs[j])
      BY <3>3, RowsLast DEF Lasting
    <3>5. Asked(j)
      BY <3>1, <3>2, <3>4 DEF WaitInv, JobOf
    <3>6. Parking(j)
      BY <3>1, <3>2 DEF Parking, Parks
    <3>7. (Asked(j))'
      BY <3>3, <3>5, <3>6, AskedLasts DEF GateExpires
    <3> QED BY <3>2, <3>7
  <2>2. CASE procs'[p] # procs[p]
    BY <1>1, <2>2, ParkBegins
  <2> QED BY <2>1, <2>2
<1>2. ASSUME NEW j \in Jobs, jobs'[j].status = "waiting"
      PROVE  (Asked(j))' \/ (\E p \in Procs : (EndsWait(p, j))') \/ crashes' > 0
  <2>0. Exists(jobs'[j])
    BY <1>2 DEF Exists, NoRow
  <2>1. CASE jobs[j].status = "waiting" /\ Asked(j)
    <3>1. ASSUME NEW h \in Handlers, NEW at \in Replicas, NEW g \in GateIds, GateExpires(h, g, at),
                 gates[g].job = j
          PROVE  (EndsWait(h, j))'
      <4> DEFINE x == [Idle EXCEPT !.pc = "fin_read", !.at = at, !.gate = g,
                         !.job = gates[g].job, !.to = "cancelled", !.next = "leave"]
      <4>1. x.pc = "fin_read" /\ x.job = j
        BY <3>1 DEF Idle
      <4>2. procs' = [procs EXCEPT ![h] = x]
        BY <3>1 DEF GateExpires
      <4> HIDE DEF x
      <4>3. procs'[h] = x
        BY <1>0, <4>2
      <4> QED BY <4>1, <4>3 DEF EndsWait
    <3> QED BY <1>0, <2>0, <2>1, <3>1, AskedLasts
  <2>2. CASE jobs[j].status = "waiting" /\ ~Asked(j)
    <3>1. crashes > 0 => crashes' > 0
      BY CrashesGrow
    <3> QED BY <1>2, <2>2, <3>1, EndsWaitLasts DEF WaitInv
  <2>3. CASE jobs[j].status # "waiting"
    <3>1. ASSUME NEW h \in Handlers, NEW at \in Replicas, CreateHeld(h, j, at)
          PROVE  (EndsWait(h, j))'
      <4> DEFINE x == [Idle EXCEPT !.pc = "held_open", !.at = at, !.job = j]
      <4>1. x.pc = "held_open" /\ x.job = j
        BY DEF Idle
      <4>2. procs' = [procs EXCEPT ![h] = x]
        BY <3>1 DEF CreateHeld, Begin
      <4> HIDE DEF x
      <4>3. procs'[h] = x
        BY <1>0, <4>2
      <4> QED BY <4>1, <4>3 DEF EndsWait
    <3>2. ASSUME NEW p \in Procs, procs[p].job = j, Exists(jobs[j]),
                 ParkRow(p) \/ ApplyPark(p)
          PROVE  (Asked(j))'
      <4>1. Asked(j) /\ UNCHANGED gates
        BY <3>2 DEF WaitInv, Parks, JobOf, ParkRow, ApplyPark, At
      <4> QED BY <4>1 DEF Asked
    <3>3. /\ CanPark(jobs[j]) => Exists(jobs[j])
          /\ CanParkForApply(jobs[j]) => Exists(jobs[j])
      BY DEF CanPark, Live, CanParkForApply, Exists, NoRow
    <3> QED BY <1>0, <1>2, <2>3, <3>1, <3>2, <3>3, WaitBegins
  <2> QED BY <2>1, <2>2, <2>3
<1>3. ASSUME NEW j \in Jobs, jobs'[j].status = "waiting"
      PROVE  (Consulted(j))' \/ (Unserved(j))'
  <2>0. Exists(jobs'[j]) /\ ((Asked(j))' => (Consulted(j))')
    BY <1>3 DEF Exists, NoRow, Asked, Consulted, Opened
  <2>1. CASE jobs[j].status = "waiting" /\ Consulted(j)
    <3>1. PICK g \in GateIds : gates[g].job = j /\ Opened(g)
      BY <2>1 DEF Consulted
    <3>2. gates'[g].job = j /\ gates'[g].status \notin {"unopened", "deleted"}
      BY <2>0, <3>1, GatesLast DEF GateLasts
    <3> QED BY <3>2 DEF Consulted, Opened
  <2>2. CASE Unserved(j)
    BY <1>3, <2>2, UnservedLasts
  <2>3. CASE jobs[j].status # "waiting"
    <3>1. ASSUME NEW h \in Handlers, NEW at \in Replicas, CreateHeld(h, j, at)
          PROVE  Unserved(j)
      <4>1. ~Born(j) /\ Replicas \subseteq Procs
        BY <3>1 DEF CreateHeld, Unborn, Born, Procs
      <4> QED BY <4>1 DEF BornInv, Unserved, NeverRan, Early, EarlyPc, LoopPc, Started
    <3>2. ASSUME NEW p \in Procs, procs[p].job = j, Exists(jobs[j]),
                 ParkRow(p) \/ ApplyPark(p)
          PROVE  (Asked(j))'
      <4>1. Asked(j) /\ UNCHANGED gates
        BY <3>2 DEF WaitInv, Parks, JobOf, ParkRow, ApplyPark, At
      <4> QED BY <4>1 DEF Asked
    <3>3. /\ CanPark(jobs[j]) => Exists(jobs[j])
          /\ CanParkForApply(jobs[j]) => Exists(jobs[j])
      BY DEF CanPark, Live, CanParkForApply, Exists, NoRow
    <3> QED BY <1>0, <1>3, <2>0, <2>2, <2>3, <3>1, <3>2, <3>3, WaitBegins
  <2> QED BY <2>1, <2>2, <2>3 DEF WaitInv
<1> QED BY <1>1, <1>2, <1>3 DEF WaitInv

\* WaitingIsActionable, of the park of a phase, the park of an apply, the first
\* source gate and the deadline tick: the gate is opened before the row is parked
\* and outlives the park, so that a waiting job has a gate somebody may decide or
\* decided, or the flow that will open it or end the job; and a crash can take that
\* flow away in two places only, after the gate expired and before the first.
THEOREM WaitsForSomebody == Spec => []WaitingIsActionable
<1>1. Init => WaitInv
  <2> SUFFICES ASSUME Init PROVE WaitInv
    OBVIOUS
  <2>1. \A p \in Procs : ~Parks(p)
    BY DEF Init, Parks, Idle
  <2>2. \A j \in Jobs : jobs[j].status # "waiting"
    BY DEF Init, EmptyRow
  <2> QED BY <2>1, <2>2 DEF WaitInv
<1>2. TypeInv /\ BornInv /\ WaitInv /\ [Next]_vars => WaitInv'
  BY WaitKeeps
<1>3. TypeInv /\ WaitInv => WaitingIsActionable
  <2> SUFFICES ASSUME TypeInv, WaitInv, NEW j \in Jobs, jobs[j].status = "waiting"
               PROVE  \/ Asked(j) \/ \E p \in Procs : Tending(p, j)
                      \/ crashes > 0 /\ (Expired(j) \/ NeverRan(j))
    BY DEF WaitingIsActionable, Asked
  <2>1. Consulted(j) => Asked(j) \/ Expired(j)
    BY DEF TypeInv, GoodGate, Gate, GateStatus, Consulted, Opened, Asked, Expired
  <2> QED BY <2>1 DEF WaitInv, EndsWait, Tending, Unserved
<1> QED BY <1>1, <1>2, <1>3, TypesHold, NothingUnborn, PTL DEF Spec
=============================================================================
