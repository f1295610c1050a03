---------------------------- MODULE DevJobSafety ----------------------------
(***************************************************************************)
(* Safety of the dev-job lifecycle, for every number of jobs, replicas,    *)
(* handlers, claims and gates.  Whatever flows interleave, a step changes  *)
(* at most one row, and by one of the guarded statements of DevJobStore;   *)
(* what the rows promise then follows statement by statement.              *)
(***************************************************************************)
EXTENDS DevJobTypes

\* What one step may do to a row: nothing, or one statement whose guard holds.
Statement(r, s) ==
  \/ s = r
  \/ /\ r.status = "unborn"
     /\ \E status \in {"queued", "waiting"}, phase \in Phase, kind \in Kind,
           backend \in Backend, policy \in Policy, resumed \in BOOLEAN :
          s = CreateJob(status, phase, kind, backend, policy, resumed)
  \/ CanClaim(r) /\ claims' = claims + 1 /\ s = Claimed(r, claims + 1)
  \/ \E c \in Nat : CanPrepare(r, c) /\ s = Prepared(r, c)
  \/ \E c \in Nat : CanReissue(r) /\ s = Reissued(r, c)
  \/ \E c \in Nat : CanRelease(r, c) /\ s = Released(r)
  \/ \E c \in Nat : CanAttach(r, c) /\ s = Attached(r, c)
  \/ CanTouch(r) /\ s = Touched(r)
  \/ CanMarkRunning(r) /\ s = MarkedRunning(r)
  \/ \E from, to \in Phase : CanAdvance(r, from) /\ s = Advanced(r, to)
  \/ \E n \in Nat, f \in Fingerprint : CanSetReview(r) /\ s = ReviewSet(r, n, f)
  \/ CanPark(r) /\ s = Parked(r)
  \/ CanRequeue(r) /\ s = RequeuedAt(r, "implement")
  \/ CanParkForApply(r) /\ s = ParkedForApply(r)
  \/ CanResumeApply(r) /\ s = ResumedApply(r)
  \/ \E g \in Nat : CanAppendBrief(r, g) /\ s = BriefAppended(r, g)
  \/ \E outcome \in Goal : CanRecordResult(r) /\ s = ResultRecorded(r, outcome)
  \/ \E to \in Terminal, pr \in BOOLEAN : CanFinish(r) /\ s = Finished(r, to, pr)
  \/ CanDelete(r) /\ s = Deleted(r)
  \/ \E clock \in Clock : Live(r) /\ s = Older(r, clock)

\* At most one row changes, by one statement.
OneStatement ==
  \/ UNCHANGED jobs
  \/ \E k \in Jobs : /\ Statement(jobs[k], jobs'[k])
                     /\ \A j \in Jobs \ {k} : jobs'[j] = jobs[j]

\* A guarded statement touches its row only, and only when the guard holds.
LEMMA WriteRow ==
  ASSUME jobs \in [Jobs -> Row], NEW k \in Jobs, NEW guard, NEW new, Write(k, guard, new),
         guard => Statement(jobs[k], new)
  PROVE  OneStatement
<1>1. \A j \in Jobs \ {k} : jobs'[j] = jobs[j]
  BY DEF Write
<1>2. jobs'[k] = IF guard THEN new ELSE jobs[k]
  BY DEF Write, Update
<1>3. Statement(jobs[k], jobs[k])
  BY DEF Statement
<1>4. CASE guard
  BY <1>1, <1>2, <1>4 DEF OneStatement
<1>5. CASE ~guard
  BY <1>1, <1>2, <1>3, <1>5 DEF OneStatement
<1> QED BY <1>4, <1>5

LEMMA FinalizeStatement ==
  ASSUME TypeInv, NEW p \in Procs, FinalizeStep(p)
  PROVE  OneStatement
<1>1. CASE FinalizeRead(p) \/ FinalizeStop(p)
  BY <1>1 DEF FinalizeRead, FinalizeStop, OneStatement
<1>2. CASE FinalizeFlip(p)
  <2>1. procs[p].job \in Jobs /\ procs[p] \in Proc
    BY <1>2, JobTyped DEF FinalizeFlip, At, LoopPc
  <2>2. CanFinish(JobOf(p)) =>
          Statement(JobOf(p), Finished(JobOf(p), procs[p].to, procs[p].pr))
    BY <2>1 DEF Statement, Proc
  <2> QED BY <1>2, <2>1, <2>2, WriteRow DEF TypeInv, FinalizeFlip, JobOf
<1> QED BY <1>1, <1>2 DEF FinalizeStep

LEMMA ApplyStatement ==
  ASSUME TypeInv, NEW p \in Procs, ApplyStep(p)
  PROVE  OneStatement
<1>1. CASE ApplyPark(p)
  <2>1. procs[p].job \in Jobs
    BY <1>1, JobTyped DEF ApplyPark, At, LoopPc
  <2>2. CanParkForApply(JobOf(p)) => Statement(JobOf(p), ParkedForApply(JobOf(p)))
    BY DEF Statement
  <2> QED BY <1>1, <2>1, <2>2, WriteRow DEF TypeInv, ApplyPark, JobOf
<1>2. CASE UNCHANGED jobs
  BY <1>2 DEF OneStatement
<1> QED BY <1>1, <1>2 DEF ApplyStep, ApplyLoad, ApplyJudge, ApplyBranch, ApplyPr, ApplyGate, ApplyExit

LEMMA WorkerStatement ==
  ASSUME TypeInv, NEW w \in Replicas, WorkerStep(w)
  PROVE  OneStatement
<1>0. w \in Procs
  BY DEF Procs
<1>1. CASE Claim(w)
  <2>1. PICK j \in Jobs : CanClaim(jobs[j]) /\ Write(j, CanClaim(jobs[j]), Claimed(jobs[j], claims + 1))
    BY <1>1 DEF Claim
  <2>2. claims' = claims + 1
    BY <1>1 DEF Claim
  <2>3. Statement(jobs[j], Claimed(jobs[j], claims + 1))
    BY <2>1, <2>2 DEF Statement
  <2> QED BY <2>1, <2>3, WriteRow DEF TypeInv
<1>2. ASSUME procs[w].pc \in ProvisionPc
      PROVE  procs[w].job \in Jobs /\ procs[w].claim \in Nat
  BY <1>0, <1>2, JobTyped DEF ProvisionPc, LoopPc, Proc
<1>3. CASE Prepare(w)
  <2>1. procs[w].job \in Jobs /\ procs[w].claim \in Nat
    BY <1>2, <1>3 DEF Prepare, At, ProvisionPc
  <2>2. CASE UNCHANGED jobs
    BY <2>2 DEF OneStatement
  <2>3. CASE CanPrepare(JobOf(w), procs[w].claim)
               /\ Write(procs[w].job, TRUE, Prepared(JobOf(w), procs[w].claim))
    <3>1. Statement(JobOf(w), Prepared(JobOf(w), procs[w].claim))
      BY <2>1, <2>3 DEF Statement
    <3> QED BY <2>1, <2>3, <3>1, WriteRow DEF TypeInv, JobOf
  <2> QED BY <1>3, <2>2, <2>3 DEF Prepare
<1>4. CASE Release(w)
  <2>1. procs[w].job \in Jobs /\ procs[w].claim \in Nat
    BY <1>2, <1>4 DEF Release, At, ProvisionPc
  <2>2. CanRelease(JobOf(w), procs[w].claim) => Statement(JobOf(w), Released(JobOf(w)))
    BY <2>1 DEF Statement
  <2> QED BY <1>4, <2>1, <2>2, WriteRow DEF TypeInv, Release, JobOf
<1>5. CASE Attach(w)
  <2>1. procs[w].job \in Jobs /\ procs[w].claim \in Nat
    BY <1>2, <1>5 DEF Attach, At, ProvisionPc
  <2>2. CASE UNCHANGED jobs
    BY <2>2 DEF OneStatement
  <2>3. CASE CanAttach(JobOf(w), procs[w].claim)
               /\ Write(procs[w].job, TRUE, Attached(JobOf(w), procs[w].claim))
    <3>1. Statement(JobOf(w), Attached(JobOf(w), procs[w].claim))
      BY <2>1, <2>3 DEF Statement
    <3> QED BY <2>1, <2>3, <3>1, WriteRow DEF TypeInv, JobOf
  <2> QED BY <1>5, <2>2, <2>3 DEF Attach
<1>6. CASE Provision(w)
  <2>1. procs[w].job \in Jobs /\ procs[w].claim \in Nat
    BY <1>2, <1>6 DEF Provision, At, ProvisionPc
  <2>2. FetchPolicy(w) \/ UNCHANGED jobs
    BY <1>6 DEF Provision, Start, Adopt, AtCapacity, Refused
  <2>3. CanReissue(JobOf(w)) => Statement(JobOf(w), Reissued(JobOf(w), procs[w].claim))
    BY <2>1 DEF Statement
  <2>4. FetchPolicy(w) => OneStatement
    BY <2>1, <2>3, WriteRow DEF TypeInv, FetchPolicy, JobOf
  <2> QED BY <2>2, <2>4 DEF OneStatement
<1>7. CASE UNCHANGED jobs
  BY <1>7 DEF OneStatement
<1> QED
  BY <1>1, <1>3, <1>4, <1>5, <1>6, <1>7
  DEF WorkerStep, TickStart, ApplyNext, Enforce, WallClockList, WallClockNext, StallList,
      StallNext, SweepNext, Reap, ReapList, ReapNext, ClaimAndProvision, CountSlots, TickEnd,
      Orphan, Unmoved

LEMMA ReplyStatement ==
  ASSUME TypeInv, NEW h \in Handlers, ReplyStep(h)
  PROVE  OneStatement
<1>0. h \in Procs /\ procs[h] \in GoodProc /\ \A pc \in ReplyPc : pc \notin LoopPc
  BY DEF Procs, TypeInv, ReplyPc, LoopPc
<1>1. ASSUME procs[h].pc \in ReplyPc
      PROVE  procs[h].job \in Jobs /\ procs[h].row \in Row /\ procs[h].goal \in Goal
  BY <1>0, <1>1, JobTyped DEF Proc
<1>2. CASE SpecReply(h)
  <2>1. procs[h].job \in Jobs
    BY <1>1, <1>2 DEF SpecReply, At, ReplyPc
  <2>2. CanMarkRunning(JobOf(h)) => Statement(JobOf(h), MarkedRunning(JobOf(h)))
    BY DEF Statement
  <2> QED BY <1>2, <2>1, <2>2, WriteRow DEF TypeInv, SpecReply, JobOf
<1>3. CASE ResultRecord(h)
  <2>1. procs[h].job \in Jobs /\ procs[h].goal \in Goal
    BY <1>1, <1>3 DEF ResultRecord, At, ReplyPc
  <2>2. CanRecordResult(JobOf(h)) => Statement(JobOf(h), ResultRecorded(JobOf(h), procs[h].goal))
    BY <2>1 DEF Statement
  <2> QED BY <1>3, <2>1, <2>2, WriteRow DEF TypeInv, ResultRecord, JobOf
<1>4. CASE PhaseJudge(h)
  <2> DEFINE row == procs[h].row
             phase == runners[procs[h].claim].phase
  <2>1. procs[h].job \in Jobs /\ row.attempt \in Nat /\ row.fp \in Fingerprint
    BY <1>1, <1>4 DEF PhaseJudge, At, ReplyPc, Row
  <2>2. CASE phase # row.phase
    BY <1>4, <2>2 DEF PhaseJudge, OneStatement
  <2>3. CASE phase = row.phase
    <3>1. PICK ok \in {FALSE} \cup (IF phase \in Runnable THEN {TRUE} ELSE {}) :
          \E v \in Verdicts(phase, ok) :
            LET d == DecideReview(v, row.attempt, row.fp)
                review == IF v.ask \in {"approve", "request_changes"} THEN d.action ELSE "approve"
            IN Write(procs[h].job, review # "approve" /\ CanSetReview(JobOf(h)),
                     ReviewSet(JobOf(h), d.attempt, d.fp))
      BY <1>4, <2>3 DEF PhaseJudge
    <3>2. PICK v \in Verdicts(phase, ok) :
            LET d == DecideReview(v, row.attempt, row.fp)
                review == IF v.ask \in {"approve", "request_changes"} THEN d.action ELSE "approve"
            IN Write(procs[h].job, review # "approve" /\ CanSetReview(JobOf(h)),
                     ReviewSet(JobOf(h), d.attempt, d.fp))
      BY <3>1
    <3> DEFINE d == DecideReview(v, row.attempt, row.fp)
               guard == (IF v.ask \in {"approve", "request_changes"} THEN d.action ELSE "approve")
                          # "approve" /\ CanSetReview(JobOf(h))
    <3>3. v \in Verdict \cup {Malformed, NoVerdict}
      BY DEF Verdicts
    <3>4. d.attempt \in Nat /\ d.fp \in Fingerprint
      BY <2>1, <3>3, DecideReviewTyped
    <3>5. Write(procs[h].job, guard, ReviewSet(JobOf(h), d.attempt, d.fp))
      BY <3>2
    <3>6. guard => CanSetReview(JobOf(h))
      OBVIOUS
    <3> HIDE DEF d, guard
    <3>7. guard => Statement(JobOf(h), ReviewSet(JobOf(h), d.attempt, d.fp))
      BY <3>4, <3>6 DEF Statement
    <3> QED BY <2>1, <3>5, <3>7, WriteRow DEF TypeInv, JobOf
  <2> QED BY <2>2, <2>3
<1>5. CASE PhaseAdvance(h)
  <2>1. procs[h].job \in Jobs /\ procs[h].row.phase \in Phase /\ procs[h].goal \in Phase
    BY <1>0, <1>1, <1>5 DEF PhaseAdvance, At, ReplyPc, Row, GoodProc
  <2>2. CanAdvance(JobOf(h), procs[h].row.phase) =>
          Statement(JobOf(h), Advanced(JobOf(h), procs[h].goal))
    BY <2>1 DEF Statement
  <2>3. Write(procs[h].job, CanAdvance(JobOf(h), procs[h].row.phase),
              Advanced(JobOf(h), procs[h].goal))
    BY <1>5 DEF PhaseAdvance
  <2> QED BY <2>1, <2>2, <2>3, WriteRow DEF TypeInv, JobOf
<1>6. CASE ParkAdvance(h)
  <2>1. procs[h].job \in Jobs /\ {"clarify", "await_human"} \subseteq Phase
    BY <1>1, <1>6 DEF ParkAdvance, At, ReplyPc, Phase
  <2>2. CanAdvance(JobOf(h), "clarify") => Statement(JobOf(h), Advanced(JobOf(h), "await_human"))
    BY <2>1 DEF Statement
  <2>3. Write(procs[h].job, CanAdvance(JobOf(h), "clarify"), Advanced(JobOf(h), "await_human"))
    BY <1>6 DEF ParkAdvance
  <2> QED BY <2>1, <2>2, <2>3, WriteRow DEF TypeInv, JobOf
<1>7. CASE ParkRow(h)
  <2>1. procs[h].job \in Jobs
    BY <1>1, <1>7 DEF ParkRow, At, ReplyPc
  <2>2. CanPark(JobOf(h)) => Statement(JobOf(h), Parked(JobOf(h)))
    BY DEF Statement
  <2> QED BY <1>7, <2>1, <2>2, WriteRow DEF TypeInv, ParkRow, JobOf
<1>8. CASE ReplyExit(h) \/ ParkOpen(h)
  BY <1>8 DEF ReplyExit, ParkOpen, OneStatement
<1> QED BY <1>2, <1>3, <1>4, <1>5, <1>6, <1>7, <1>8 DEF ReplyStep

LEMMA GateStatement ==
  ASSUME TypeInv, NEW h \in Handlers, GateStep(h)
  PROVE  OneStatement
<1>0. h \in Procs /\ \A pc \in GatePc \cup ApplyPc : pc \notin LoopPc
  BY DEF Procs, GatePc, ApplyPc, LoopPc
<1>1. CASE DriveBrief(h)
  <2>1. procs[h].job \in Jobs /\ procs[h].gate \in Nat
    BY <1>0, <1>1, JobTyped DEF DriveBrief, At, GatePc, Proc
  <2>2. CanAppendBrief(JobOf(h), procs[h].gate) =>
          Statement(JobOf(h), BriefAppended(JobOf(h), procs[h].gate))
    BY <2>1 DEF Statement
  <2> QED BY <1>1, <2>1, <2>2, WriteRow DEF TypeInv, DriveBrief, JobOf
<1>2. CASE DriveRequeue(h)
  <2>1. procs[h].job \in Jobs
    BY <1>0, <1>2, JobTyped DEF DriveRequeue, At, GatePc
  <2>2. CanRequeue(JobOf(h)) => Statement(JobOf(h), RequeuedAt(JobOf(h), "implement"))
    BY DEF Statement
  <2> QED BY <1>2, <2>1, <2>2, WriteRow DEF TypeInv, DriveRequeue, JobOf
<1>3. CASE ResumeFlip(h)
  <2>1. procs[h].job \in Jobs
    BY <1>0, <1>3, JobTyped DEF ResumeFlip, At, ApplyPc
  <2>2. CanResumeApply(JobOf(h)) => Statement(JobOf(h), ResumedApply(JobOf(h)))
    BY DEF Statement
  <2> QED BY <1>3, <2>1, <2>2, WriteRow DEF TypeInv, ResumeFlip, JobOf
<1>4. CASE UNCHANGED jobs
  BY <1>4 DEF OneStatement
<1> QED BY <1>1, <1>2, <1>3, <1>4 DEF GateStep, ResolveFlip, ResolveStuck, ResumeGuard, HandlerEnd

\* An inserted row.
LEMMA InsertStatement ==
  ASSUME jobs \in [Jobs -> Row], NEW k \in Jobs, jobs[k].status = "unborn",
         NEW status \in {"queued", "waiting"}, NEW phase \in Phase, NEW kind \in Kind,
         NEW backend \in Backend, NEW policy \in Policy, NEW resumed \in BOOLEAN,
         Insert(k, CreateJob(status, phase, kind, backend, policy, resumed))
  PROVE  OneStatement
<1>1. Statement(jobs[k], CreateJob(status, phase, kind, backend, policy, resumed))
  BY DEF Statement
<1> QED BY <1>1 DEF Insert, OneStatement

LEMMA AdminStatement ==
  ASSUME TypeInv
  PROVE  /\ \A j \in Jobs : Create(j) \/ Delete(j) => OneStatement
         /\ \A j, k \in Jobs : Retry(j, k) => OneStatement
         /\ \A h \in Handlers, at \in Replicas, j \in Jobs : AdminArrival(h, j, at) => OneStatement
<1>0. {"analyze", "await_human"} \subseteq Phase /\ FALSE \in BOOLEAN
  BY DEF Phase
<1>1. ASSUME NEW j \in Jobs, Create(j)
      PROVE  OneStatement
  <2>1. PICK kind \in Kinds, backend \in Backends, policy \in Policies :
          Insert(j, CreateJob("queued", "analyze", kind, backend, policy, FALSE))
    BY <1>1 DEF Create
  <2> QED BY <1>0, <1>1, <2>1, InsertStatement, SortsAssumption DEF TypeInv, Create, Unborn
<1>2. ASSUME NEW j \in Jobs, Delete(j)
      PROVE  OneStatement
  <2>1. Statement(jobs[j], Deleted(jobs[j]))
    BY <1>2 DEF Delete, Statement
  <2> QED BY <1>2, <2>1, WriteRow DEF TypeInv, Delete
<1>3. ASSUME NEW j \in Jobs, NEW k \in Jobs, Retry(j, k)
      PROVE  OneStatement
  <2>1. PICK resume \in BOOLEAN, policy \in Policies :
          Insert(k, CreateJob("queued", IF resume THEN jobs[j].phase ELSE "analyze",
                              jobs[j].kind, jobs[j].backend, policy, resume))
    BY <1>3 DEF Retry
  <2>2. (IF resume THEN jobs[j].phase ELSE "analyze") \in Phase
        /\ jobs[j].kind \in Kind /\ jobs[j].backend \in Backend
    BY <1>0 DEF TypeInv, Row
  <2> QED BY <1>3, <2>1, <2>2, InsertStatement, SortsAssumption DEF TypeInv, Retry, Unborn
<1>4. ASSUME NEW h \in Handlers, NEW at \in Replicas, NEW j \in Jobs, CreateHeld(h, j, at)
      PROVE  OneStatement
  <2>1. PICK kind \in Kinds, backend \in Backends \ {"local"}, policy \in Policies :
          Insert(j, CreateJob("waiting", "await_human", kind, backend, policy, FALSE))
    BY <1>4 DEF CreateHeld
  <2> QED BY <1>0, <1>4, <2>1, InsertStatement, SortsAssumption DEF TypeInv, CreateHeld, Unborn
<1>5. ASSUME NEW h \in Handlers, NEW at \in Replicas, NEW j \in Jobs,
             Cancel(h, j, at) \/ Apply(h, j, at)
      PROVE  OneStatement
  BY <1>5 DEF Cancel, Apply, OneStatement
<1> QED BY <1>1, <1>2, <1>3, <1>4, <1>5 DEF AdminArrival

\* The lemma the theorems below rest on: a step of the system changes at most
\* one row, by one of DevJobStore's statements, under that statement's guard.
LEMMA NextIsOneStatement ==
  ASSUME TypeInv, [Next]_vars
  PROVE  OneStatement
<1>1. CASE \E w \in Replicas : WorkerFlow(w)
  <2>1. Replicas \subseteq Procs
    BY DEF Procs
  <2> QED BY <1>1, <2>1, WorkerStatement, ApplyStatement, FinalizeStatement
          DEF WorkerFlow, FlowStep
<1>2. CASE \E h \in Handlers : HandlerStep(h)
  <2>1. Handlers \subseteq Procs
    BY DEF Procs
  <2>2. \A h \in Handlers : HeldOpen(h) => OneStatement
    BY DEF HeldOpen, OneStatement
  <2> QED BY <1>2, <2>1, <2>2, ApplyStatement, FinalizeStatement, ReplyStatement, GateStatement
          DEF HandlerStep, FlowStep
<1>3. CASE \E c \in Claims : RunnerCalls(c) \/ Heartbeat(c)
  <2>1. ASSUME NEW c \in Claims, Heartbeat(c)
        PROVE  OneStatement
    <3>1. runners[c].job \in Jobs
      BY <2>1 DEF TypeInv, Heartbeat, GoodRunner
    <3>2. Statement(RunnerJob(c), Touched(RunnerJob(c)))
      BY <2>1 DEF Heartbeat, Statement
    <3> QED BY <2>1, <3>1, <3>2, WriteRow DEF TypeInv, Heartbeat, RunnerJob
  <2>2. ASSUME NEW c \in Claims, RunnerCalls(c)
        PROVE  OneStatement
    BY <2>2 DEF RunnerCalls, RunnerApiStep, SpecCall, ResultCall, PhaseCall, Call, OneStatement
  <2> QED BY <1>3, <2>1, <2>2
<1>4. CASE People
  <2>1. \A h \in Handlers, g \in GateIds, at \in Replicas : GateArrival(h, g, at) => OneStatement
    BY DEF GateArrival, Resolve, GateExpires, OneStatement
  <2> QED BY <1>4, <2>1, AdminStatement DEF People
<1>5. CASE Environment
  <2>1. ASSUME NEW j \in Jobs, NEW clock \in Clocks, TimePasses(j, clock)
        PROVE  OneStatement
    <3>1. Statement(jobs[j], Older(jobs[j], clock))
      BY <2>1, SortsAssumption DEF TimePasses, Statement
    <3> QED BY <2>1, <3>1 DEF TypeInv, TimePasses, OneStatement
  <2>2. (\E c \in Claims : RunnerDies(c) \/ Reclaimed(c)) \/ (\E r \in Replicas : Crash(r)) => UNCHANGED jobs
    BY DEF RunnerDies, Reclaimed, Crash
  <2> QED BY <1>5, <2>1, <2>2 DEF Environment, OneStatement
<1>6. CASE UNCHANGED vars
  BY <1>6 DEF vars, OneStatement
<1> QED BY <1>1, <1>2, <1>3, <1>4, <1>5, <1>6 DEF Next

(***************************************************************************)
(* Terminal rows.                                                          *)
(***************************************************************************)
\* A statement leaves a terminal row alone, deletes it, mints its token or parks
\* a failed one.
LEMMA TerminalStatement ==
  ASSUME NEW r \in Row, NEW s, Statement(r, s), Ended(r), s # r
  PROVE  \/ s = Deleted(r)
         \/ s = Reissued(r, s.token)
         \/ r.status = "failed" /\ s = ParkedForApply(r)
<1>1. \A c \in Nat : Reissued(r, c).token = c
  BY DEF Reissued, Row
<1> QED BY <1>1 DEF Statement, Ended, Live, Exists, Terminal, Active, CanClaim, CanPrepare, CanRelease,
       CanAttach, CanTouch, CanMarkRunning, CanAdvance, CanSetReview, CanPark, CanRequeue,
       CanParkForApply, CanResumeApply, CanAppendBrief, CanRecordResult, CanFinish

\* A terminal row is final: of all statements that may be in flight when a job
\* ends, only its deletion, a docker provision's token and the diff-policy park of
\* a failed job find it.
THEOREM TerminalRowsAreFinal == Spec => TerminalIsFinal
<1>1. ASSUME TypeInv, [Next]_vars, NEW j \in Jobs
      PROVE  TerminalStep(j)
  <2>1. OneStatement
    BY <1>1, NextIsOneStatement
  <2>2. jobs[j] \in Row /\ (jobs'[j] = jobs[j] \/ Statement(jobs[j], jobs'[j]))
    BY <1>1, <2>1 DEF TypeInv, OneStatement
  <2> QED BY <2>2, TerminalStatement DEF TerminalStep
<1>2. TypeInv /\ [Next]_vars => [\A j \in Jobs : TerminalStep(j)]_vars
  BY <1>1
<1> QED BY <1>2, TypesHold, PTL DEF Spec, TerminalIsFinal

(***************************************************************************)
(* Leases.                                                                 *)
(***************************************************************************)
\* LeaseDiscipline of one row, when n claims were made.
RowLease(r, n) ==
  /\ r.status \in {"queued", "waiting"} => r.lease = 0 /\ r.handle = 0
  /\ r.status \in {"provisioning", "running"} => r.lease \in 1..n /\ r.handle \in {0, r.lease}

\* Each statement keeps the discipline: a claim takes the number just drawn, the
\* statements that requeue or park clear lease and handle together, and a handle
\* is attached only under the lease it belongs to.
LEMMA LeaseStatement ==
  ASSUME NEW r \in Row, NEW s, claims \in Nat, claims' \in Nat, claims <= claims',
         RowLease(r, claims), Statement(r, s)
  PROVE  RowLease(s, claims')
<1>1. RowLease(r, claims')
  BY DEF RowLease, Row
<1>2. CASE s = r
  BY <1>1, <1>2
<1>3. CASE \E status \in {"queued", "waiting"}, phase \in Phase, kind \in Kind,
              backend \in Backend, policy \in Policy, resumed \in BOOLEAN :
             s = CreateJob(status, phase, kind, backend, policy, resumed)
  <2>1. EmptyRow \in Row /\ EmptyRow.lease = 0 /\ EmptyRow.handle = 0
    BY EmptyTyped DEF EmptyRow
  <2>2. s.lease = 0 /\ s.handle = 0 /\ s.status \in {"queued", "waiting"}
    BY <1>3, <2>1 DEF CreateJob, Row
  <2> QED BY <2>2 DEF RowLease
<1>4. CASE CanClaim(r) /\ claims' = claims + 1 /\ s = Claimed(r, claims + 1)
  BY <1>4 DEF CanClaim, Claimed, RowLease, Row
<1>5. CASE \E c \in Nat : CanPrepare(r, c) /\ s = Prepared(r, c)
  BY <1>1, <1>5 DEF Prepared, RowLease, Row
<1>18. CASE \E c \in Nat : CanReissue(r) /\ s = Reissued(r, c)
  BY <1>1, <1>18 DEF Reissued, RowLease, Row
<1>6. CASE \E c \in Nat : CanRelease(r, c) /\ s = Released(r)
  BY <1>6 DEF CanRelease, Released, RowLease, Row
<1>7. CASE \E c \in Nat : CanAttach(r, c) /\ s = Attached(r, c)
  BY <1>1, <1>7 DEF CanAttach, Attached, RowLease, Row
<1>8. CASE CanTouch(r) /\ s = Touched(r)
  BY <1>1, <1>8 DEF Touched, RowLease, Row
<1>9. CASE CanMarkRunning(r) /\ s = MarkedRunning(r)
  BY <1>1, <1>9 DEF CanMarkRunning, MarkedRunning, RowLease, Row
<1>10. CASE \E from, to \in Phase : CanAdvance(r, from) /\ s = Advanced(r, to)
  BY <1>1, <1>10 DEF Advanced, RowLease, Row
<1>11. CASE \E n \in Nat, f \in Fingerprint : CanSetReview(r) /\ s = ReviewSet(r, n, f)
  BY <1>1, <1>11 DEF ReviewSet, RowLease, Row
<1>12. CASE s \in {Parked(r), ParkedForApply(r), RequeuedAt(r, "implement")}
  <2>1. s.status \in {"queued", "waiting"} /\ s.lease = 0 /\ s.handle = 0
    <3>1. CASE s = RequeuedAt(r, "implement")
      BY <3>1 DEF RequeuedAt, Row
    <3>2. CASE s \in {Parked(r), ParkedForApply(r)}
      BY <3>2 DEF Parked, ParkedForApply, Row
    <3> QED BY <1>12, <3>1, <3>2
  <2> QED BY <2>1 DEF RowLease
<1>13. CASE s = ResumedApply(r) \/ \E outcome \in Goal : s = ResultRecorded(r, outcome)
  <2>1. s.status \in {r.status, "applying"} /\ s.lease = r.lease /\ s.handle = r.handle
    BY <1>13 DEF ResumedApply, ResultRecorded, Row
  <2> QED BY <1>1, <2>1 DEF RowLease
<1>14. CASE \E g \in Nat : CanAppendBrief(r, g) /\ s = BriefAppended(r, g)
  BY <1>1, <1>14 DEF BriefAppended, RowLease, Row
<1>15. CASE \E to \in Terminal, pr \in BOOLEAN : CanFinish(r) /\ s = Finished(r, to, pr)
  BY <1>15 DEF Finished, RowLease, Row, Terminal
<1>16. CASE s = Deleted(r)
  <2>1. s.status = "deleted"
    BY <1>16, EmptyTyped DEF Deleted, Row
  <2> QED BY <2>1 DEF RowLease
<1>17. CASE \E clock \in Clock : Live(r) /\ s = Older(r, clock)
  BY <1>1, <1>17 DEF Older, RowLease, Row
<1> QED
  BY <1>2, <1>3, <1>4, <1>5, <1>6, <1>7, <1>8, <1>9, <1>10, <1>11, <1>12, <1>13, <1>14, <1>15,
     <1>16, <1>17, <1>18 DEF Statement

\* Claims are numbered upwards.
LEMMA ClaimsGrow ==
  ASSUME TypeInv, [Next]_vars
  PROVE  claims \in Nat /\ claims' \in Nat /\ claims <= claims'
<1>1. claims \in Nat /\ claims' \in Nat
  BY NextTyped, BoundsAssumption DEF TypeInv
<1>2. ASSUME NEW p \in Procs, FlowStep(p)
      PROVE  UNCHANGED claims
  BY <1>2 DEF FlowStep, ApplyStep, ApplyLoad, ApplyJudge, ApplyBranch, ApplyPr, ApplyGate,
              ApplyPark, ApplyExit, FinalizeStep, FinalizeRead, FinalizeFlip, FinalizeStop
<1>3. ASSUME NEW w \in Replicas, WorkerStep(w)
      PROVE  claims' = claims \/ claims' = claims + 1
  <2>1. CASE Claim(w)
    BY <2>1 DEF Claim
  <2>2. CASE TickStart(w) \/ ApplyNext(w) \/ Enforce(w) \/ Reap(w) \/ CountSlots(w) \/ TickEnd(w)
    BY <2>2 DEF TickStart, ApplyNext, Enforce, WallClockList, WallClockNext, StallList,
                StallNext, SweepNext, Reap, ReapList, ReapNext, CountSlots, TickEnd, Unmoved
  <2>3. CASE Prepare(w) \/ Provision(w) \/ Release(w) \/ Attach(w) \/ Orphan(w)
    BY <2>3 DEF Prepare, Provision, Release, Attach, Orphan
  <2> QED BY <1>3, <2>1, <2>2, <2>3 DEF WorkerStep, ClaimAndProvision
<1>4. ASSUME NEW h \in Handlers, ReplyStep(h) \/ GateStep(h) \/ HeldOpen(h)
      PROVE  UNCHANGED claims
  <2>1. ReplyStep(h) => UNCHANGED claims
    BY DEF ReplyStep, SpecReply, ResultRecord, ReplyExit, PhaseJudge, PhaseAdvance,
           ParkAdvance, ParkOpen, ParkRow
  <2>2. GateStep(h) \/ HeldOpen(h) => UNCHANGED claims
    BY DEF GateStep, ResolveFlip, ResolveStuck, DriveBrief, DriveRequeue, ResumeGuard,
           ResumeFlip, HandlerEnd, HeldOpen
  <2> QED BY <1>4, <2>1, <2>2
<1>5. ASSUME NEW c \in Claims, RunnerCalls(c) \/ Heartbeat(c)
      PROVE  UNCHANGED claims
  BY <1>5 DEF RunnerCalls, RunnerApiStep, SpecCall, ResultCall, PhaseCall, Call, Heartbeat
<1>6. People \/ Environment => UNCHANGED claims
  <2>1. \A j \in Jobs : Create(j) \/ Delete(j) => UNCHANGED claims
    BY DEF Create, Delete
  <2>2. \A j, k \in Jobs : Retry(j, k) => UNCHANGED claims
    BY DEF Retry
  <2>3. \A h \in Handlers, at \in Replicas, j \in Jobs : AdminArrival(h, j, at) => UNCHANGED claims
    BY DEF AdminArrival, CreateHeld, Cancel, Apply
  <2>4. \A h \in Handlers, at \in Replicas, g \in GateIds : GateArrival(h, g, at) => UNCHANGED claims
    BY DEF GateArrival, Resolve, GateExpires
  <2>5. Environment => UNCHANGED claims
    BY DEF Environment, TimePasses, RunnerDies, Reclaimed, Crash
  <2> QED BY <2>1, <2>2, <2>3, <2>4, <2>5 DEF People
<1>7. Replicas \subseteq Procs /\ Handlers \subseteq Procs
  BY DEF Procs
<1>8. claims' = claims \/ claims' = claims + 1
  <2>1. CASE \E w \in Replicas : WorkerFlow(w)
    BY <1>2, <1>3, <1>7, <2>1 DEF WorkerFlow
  <2>2. CASE \E h \in Handlers : HandlerStep(h)
    BY <1>2, <1>4, <1>7, <2>2 DEF HandlerStep
  <2> QED BY <1>5, <1>6, <2>1, <2>2 DEF Next, vars
<1> QED BY <1>1, <1>8

\* A row that is queued or parked belongs to nobody, and a row in the hands of a
\* runner carries at most the handle of the claim that holds its lease.
THEOREM LeasesAreDisciplined == Spec => []LeaseDiscipline
<1>1. Init => LeaseDiscipline
  <2>1. EmptyRow.status = "unborn"
    BY DEF EmptyRow
  <2> QED BY <2>1 DEF Init, LeaseDiscipline
<1>2. TypeInv /\ LeaseDiscipline /\ [Next]_vars => LeaseDiscipline'
  <2> SUFFICES ASSUME TypeInv, LeaseDiscipline, [Next]_vars, NEW j \in Jobs
               PROVE  RowLease(jobs'[j], claims')
    BY DEF LeaseDiscipline, RowLease
  <2>1. claims \in Nat /\ claims' \in Nat /\ claims <= claims'
    BY ClaimsGrow
  <2>2. jobs[j] \in Row /\ RowLease(jobs[j], claims)
    BY DEF TypeInv, LeaseDiscipline, RowLease
  <2>3. jobs'[j] = jobs[j] \/ Statement(jobs[j], jobs'[j])
    BY NextIsOneStatement DEF OneStatement
  <2>4. Statement(jobs[j], jobs'[j])
    BY <2>3 DEF Statement
  <2> QED BY <2>1, <2>2, <2>4, LeaseStatement
<1> QED BY <1>1, <1>2, TypesHold, PTL DEF Spec

(***************************************************************************)
(* Pull requests: a flow about to open one holds the branch it has just    *)
(* created, and the branch of a job is created once.                       *)
(***************************************************************************)
Opening(p, j) == procs[p].pc = "apply_pr" /\ procs[p].job = j

ForgeInv ==
  /\ \A j \in Jobs : forge[j].prs \in {0, 1} /\ (forge[j].prs = 1 => forge[j].branch)
  /\ \A p \in Procs, j \in Jobs : Opening(p, j) => forge[j].branch /\ forge[j].prs = 0
  /\ \A p, q \in Procs, j \in Jobs : Opening(p, j) /\ Opening(q, j) => p = q

\* A step that neither creates a branch nor opens a pull request.
NoPublication ==
  /\ UNCHANGED forge
  /\ \A q \in Procs : procs'[q].pc = "apply_pr" =>
       procs[q].pc = "apply_pr" /\ procs'[q].job = procs[q].job

LEMMA NoPublicationKeeps ==
  ASSUME ForgeInv, NoPublication
  PROVE  ForgeInv'
BY DEF ForgeInv, NoPublication, Opening

\* Where flows go most of the time.
LEMMA MovesKeep ==
  ASSUME procs \in [Procs -> Proc], NEW p \in Procs, UNCHANGED forge
  PROVE  /\ \A pc \in Pc \ {"apply_pr"} : Goto(p, pc) => NoPublication
         /\ \A to \in Terminal, pr \in BOOLEAN, next \in NextPc :
              CallFinalize(p, to, pr, next) => NoPublication
         /\ Leave(p) => NoPublication
         /\ UNCHANGED procs => NoPublication
<1>1. \A pc \in Pc \ {"apply_pr"} : Goto(p, pc) => NoPublication
  BY DEF Goto, NoPublication, Proc
<1>2. \A to \in Terminal, pr \in BOOLEAN, next \in NextPc :
        CallFinalize(p, to, pr, next) => NoPublication
  BY DEF CallFinalize, NoPublication, Proc
<1>3. Leave(p) => NoPublication
  BY IdleTyped DEF Leave, NoPublication
<1> QED BY <1>1, <1>2, <1>3 DEF NoPublication

LEMMA FinalizeKeeps ==
  ASSUME TypeInv, NEW p \in Procs, FinalizeStep(p)
  PROVE  NoPublication
<1>1. procs \in [Procs -> Proc] /\ procs[p].next # "apply_pr"
  BY DEF TypeInv, GoodProc, Proc, NextPc
<1> QED BY <1>1 DEF FinalizeStep, FinalizeRead, FinalizeFlip, FinalizeStop, Return, NoPublication, Proc

LEMMA ApplyKeeps ==
  ASSUME TypeInv, NEW p \in Procs, ApplyStep(p), ~ApplyBranch(p), ~ApplyPr(p)
  PROVE  NoPublication
<1>1. procs \in [Procs -> Proc] /\ procs[p].back # "apply_pr"
  BY DEF TypeInv, GoodProc, Proc, BackPc
<1>2. CASE ApplyLoad(p) \/ ApplyJudge(p)
  <2>1. {"apply_judge", "apply_branch", "apply_gate", "apply_exit"} \subseteq Pc \ {"apply_pr"}
        /\ "failed" \in Terminal /\ FALSE \in BOOLEAN /\ "apply_exit" \in NextPc
    BY DEF Pc, ApplyPc, Terminal, NextPc
  <2>2. ApplyLoad(p) => NoPublication
    BY <1>1, <2>1, MovesKeep DEF ApplyLoad
  <2>3. ASSUME ApplyJudge(p)
        PROVE  NoPublication
    <3>1. UNCHANGED forge
      BY <2>3 DEF ApplyJudge
    <3>2. JobOf(p).policy \in Policy
      BY <2>3, JobTyped DEF TypeInv, ApplyJudge, At, LoopPc, JobOf, Row
    <3>3. ApplyFails(p) \/ Goto(p, "apply_branch") \/ Goto(p, "apply_gate") \/ Goto(p, "apply_exit")
      BY <2>3, <3>2 DEF ApplyJudge, Policy, PolicyVerdict
    <3> QED BY <1>1, <2>1, <3>1, <3>3, MovesKeep DEF ApplyFails
  <2> QED BY <1>2, <2>2, <2>3
<1>3. CASE ApplyGate(p) \/ ApplyPark(p)
  BY <1>1, <1>3 DEF ApplyGate, ApplyPark, Goto, NoPublication, Proc
<1>4. CASE ApplyExit(p)
  <2>1. procs[p].back = "idle" => Leave(p)
    BY <1>4 DEF ApplyExit
  <2>2. procs[p].back # "idle" =>
          procs' = [procs EXCEPT ![p] = [Idle EXCEPT !.pc = procs[p].back, !.todo = procs[p].todo]]
    BY <1>4 DEF ApplyExit
  <2>3. UNCHANGED forge
    BY <1>4 DEF ApplyExit
  <2>4. CASE procs[p].back # "idle"
    <3> DEFINE x == [Idle EXCEPT !.pc = procs[p].back, !.todo = procs[p].todo]
    <3>1. x.pc # "apply_pr"
      BY <1>1, IdleTyped DEF GoodProc, Proc
    <3>2. procs' = [procs EXCEPT ![p] = x]
      BY <2>2, <2>4
    <3> HIDE DEF x
    <3> QED BY <1>1, <2>3, <3>1, <3>2 DEF NoPublication
  <2> QED BY <1>1, <2>1, <2>3, <2>4, MovesKeep
<1> QED BY <1>2, <1>3, <1>4 DEF ApplyStep

LEMMA WorkerKeeps ==
  ASSUME TypeInv, NEW w \in Replicas, WorkerStep(w)
  PROVE  NoPublication
<1>0. w \in Procs /\ procs \in [Procs -> Proc]
  BY DEF Procs, TypeInv, GoodProc
<1>1. UNCHANGED forge
  BY DEF WorkerStep, TickStart, ApplyNext, Enforce, WallClockList, WallClockNext, StallList,
         StallNext, SweepNext, Reap, ReapList, ReapNext, ClaimAndProvision, CountSlots, Claim,
         TickEnd, Prepare, Provision, Release, Attach, Orphan, Unmoved
<1>2. {"wall_list", "stall_list", "reap_list", "count", "provision", "attach", "release", "orphan"}
        \subseteq Pc \ {"apply_pr"}
      /\ "failed" \in Terminal /\ FALSE \in BOOLEAN /\ "claim" \in NextPc
  BY DEF Pc, LoopPc, ProvisionPc, Terminal, NextPc
<1>3. ASSUME NEW pc \in LoopPc, NEW after \in LoopPc, NEW js, Walk(w, pc, after, js)
      PROVE  NoPublication
  BY <1>0, <1>1, <1>3, IdleTyped DEF Walk, NoPublication, GoodProc, Proc, LoopPc
<1>4. CASE TickStart(w) \/ WallClockList(w) \/ StallList(w)
  BY <1>3, <1>4 DEF TickStart, WallClockList, StallList, LoopPc
<1>5. CASE ApplyNext(w)
  <2>1. CASE procs[w].todo = {}
    BY <1>0, <1>1, <1>2, <1>5, <2>1, MovesKeep DEF ApplyNext
  <2>2. ASSUME NEW j \in procs[w].todo, EnterApply(w, j, w, FALSE, procs[w].todo \ {j}, "apply_next")
        PROVE  NoPublication
    BY <1>0, <1>1, <2>2 DEF EnterApply, NoPublication, Proc
  <2> QED BY <1>3, <1>5, <2>1, <2>2 DEF ApplyNext, LoopPc
<1>6. ASSUME NEW pc \in LoopPc, NEW to \in Terminal, NEW after \in LoopPc, SweepNext(w, pc, to, after)
      PROVE  NoPublication
  <2>1. CASE procs[w].todo = {}
    BY <1>0, <1>1, <1>6, <2>1, MovesKeep DEF SweepNext, LoopPc, Pc
  <2>2. CASE procs[w].todo # {}
    <3>1. PICK j \in procs[w].todo :
            procs' = [procs EXCEPT ![w].pc = "fin_read", ![w].job = j, ![w].to = to,
                        ![w].pr = FALSE, ![w].next = pc, ![w].todo = @ \ {j}]
      BY <1>6, <2>2 DEF SweepNext
    <3> QED BY <1>0, <1>1, <3>1 DEF NoPublication, Proc
  <2> QED BY <2>1, <2>2
<1>7. CASE WallClockNext(w) \/ StallNext(w)
  BY <1>6, <1>7 DEF WallClockNext, StallNext, LoopPc, Terminal
<1>8. CASE ReapList(w) \/ CountSlots(w) \/ TickEnd(w) \/ NextClaim(w)
  <2>1. ReapList(w) => NoPublication
    BY <1>0, <1>1, IdleTyped DEF ReapList, NoPublication, GoodProc, Proc
  <2>2. CountSlots(w) => NoPublication
    BY <1>0, <1>1, IdleTyped DEF CountSlots, NoPublication, GoodProc, Proc
  <2>3. NextClaim(w) => NoPublication
    BY <1>0, <1>1, IdleTyped DEF NextClaim, NoPublication, GoodProc, Proc
  <2> QED BY <1>0, <1>1, <1>8, <2>1, <2>2, <2>3, MovesKeep DEF TickEnd
<1>9. CASE ReapNext(w)
  <2>1. CASE procs[w].dead = {}
    BY <1>0, <1>1, <1>2, <1>9, <2>1, MovesKeep DEF ReapNext
  <2>2. ASSUME NEW c \in procs[w].dead, procs' = [procs EXCEPT ![w].dead = @ \ {c}]
        PROVE  NoPublication
    BY <1>0, <1>1, <2>2 DEF NoPublication, Proc
  <2>3. ASSUME NEW c \in procs[w].dead, NEW j \in HandleOwners(c),
               procs' = [procs EXCEPT ![w].pc = "fin_read", ![w].job = j,
                           ![w].to = "stalled", ![w].pr = FALSE,
                           ![w].next = "reap_next", ![w].dead = @ \ {c}]
        PROVE  NoPublication
    BY <1>0, <1>1, <2>3 DEF NoPublication, Proc
  <2> QED BY <1>9, <2>1, <2>2, <2>3 DEF ReapNext
<1>10. CASE Claim(w)
  BY <1>0, <1>1, <1>10 DEF Claim, NoPublication, Proc
<1>11. CASE Prepare(w) \/ Provision(w) \/ Release(w) \/ Attach(w) \/ Orphan(w)
  <2>1. Prepare(w) \/ Provision(w) => NoPublication
    BY <1>0, <1>1, <1>2, MovesKeep
       DEF Prepare, Provision, Start, Adopt, AtCapacity, Refused, Answered
  <2>2. Release(w) \/ Attach(w) \/ Orphan(w) => NoPublication
    BY <1>0, <1>1, <1>2, <1>8, MovesKeep DEF Release, Attach, Orphan
  <2> QED BY <1>11, <2>1, <2>2
<1> QED
  BY <1>4, <1>5, <1>7, <1>8, <1>9, <1>10, <1>11
  DEF WorkerStep, Enforce, Reap, ClaimAndProvision

LEMMA ReplyKeeps ==
  ASSUME TypeInv, NEW h \in Handlers, ReplyStep(h)
  PROVE  NoPublication
<1>0. h \in Procs /\ procs \in [Procs -> Proc]
  BY DEF Procs, TypeInv, GoodProc
<1>1. UNCHANGED forge
  BY DEF ReplyStep, SpecReply, ResultRecord, ReplyExit, PhaseJudge, PhaseAdvance,
         ParkAdvance, ParkOpen, ParkRow
<1>2. {"park_open", "park_row", "reply_exit"} \subseteq Pc \ {"apply_pr"}
      /\ {"failed", "done"} \subseteq Terminal /\ FALSE \in BOOLEAN /\ "reply_exit" \in NextPc
  BY DEF Pc, ReplyPc, Terminal, NextPc
<1>3. CASE SpecReply(h) \/ ReplyExit(h) \/ PhaseAdvance(h)
  BY <1>0, <1>1, <1>3, MovesKeep DEF SpecReply, ReplyExit, PhaseAdvance
<1>4. CASE ResultRecord(h)
  BY <1>0, <1>1, <1>2, <1>4, MovesKeep DEF ResultRecord
<1>5. CASE ParkAdvance(h) \/ ParkOpen(h) \/ ParkRow(h)
  BY <1>0, <1>1, <1>2, <1>5, MovesKeep DEF ParkAdvance, ParkOpen, ParkRow
<1>6. CASE PhaseJudge(h)
  <2>1. ASSUME NEW t, Carry(h, t)
        PROVE  NoPublication
    <3>1. PcOf(t.act) # "apply_pr"
      BY DEF PcOf
    <3> QED BY <1>0, <1>1, <2>1, <3>1 DEF Carry, NoPublication, Proc
  <2> QED BY <1>0, <1>1, <1>6, <2>1, MovesKeep DEF PhaseJudge
<1> QED BY <1>3, <1>4, <1>5, <1>6 DEF ReplyStep

LEMMA GateKeeps ==
  ASSUME TypeInv, NEW h \in Handlers, GateStep(h) \/ HeldOpen(h)
  PROVE  NoPublication
<1>0. h \in Procs /\ procs \in [Procs -> Proc]
  BY DEF Procs, TypeInv, GoodProc
<1>1. UNCHANGED forge
  BY DEF GateStep, ResolveFlip, ResolveStuck, DriveBrief, DriveRequeue, ResumeGuard,
         ResumeFlip, HandlerEnd, HeldOpen
<1>2. {"brief", "requeue", "resume_guard", "resume", "apply_exit"} \subseteq Pc \ {"apply_pr"}
      /\ "cancelled" \in Terminal /\ FALSE \in BOOLEAN /\ "leave" \in NextPc
  BY DEF Pc, GatePc, ApplyPc, Terminal, NextPc
<1>3. \A status, kind : DrivePc(status, kind) \in Pc \ {"apply_pr"}
  BY <1>2 DEF DrivePc
<1>4. CASE ResolveFlip(h)
  <2>1. CASE GateOf(h).status = "waiting"
    <3>1. Goto(h, DrivePc(procs[h].goal, GateOf(h).kind))
      BY <1>4, <2>1 DEF ResolveFlip, GateDecision
    <3> QED BY <1>0, <1>1, <1>3, <3>1, MovesKeep
  <2>2. ASSUME procs' = [procs EXCEPT ![h].pc = "resolve_stuck", ![h].goal = GateOf(h).status]
        PROVE  NoPublication
    BY <1>0, <1>1, <2>2 DEF NoPublication, Proc
  <2>3. CASE GateOf(h).status # "waiting"
    BY <1>0, <1>1, <1>4, <2>2, <2>3, MovesKeep DEF ResolveFlip
  <2> QED BY <2>1, <2>3
<1>5. CASE ResolveStuck(h)
  BY <1>0, <1>1, <1>3, <1>5, MovesKeep DEF ResolveStuck
<1>6. CASE DriveBrief(h) \/ DriveRequeue(h)
  BY <1>0, <1>1, <1>2, <1>6, MovesKeep DEF DriveBrief, DriveRequeue
<1>7. CASE ResumeGuard(h) \/ HandlerEnd(h) \/ HeldOpen(h)
  BY <1>0, <1>1, <1>2, <1>7, MovesKeep DEF ResumeGuard, HandlerEnd, HeldOpen
<1>8. CASE ResumeFlip(h)
  <2>1. CASE CanResumeApply(JobOf(h))
    BY <1>0, <1>1, <1>8, <2>1 DEF ResumeFlip, NoPublication, Proc
  <2>2. CASE ~CanResumeApply(JobOf(h))
    BY <1>0, <1>1, <1>2, <1>8, <2>2, MovesKeep DEF ResumeFlip
  <2> QED BY <2>1, <2>2
<1> QED BY <1>4, <1>5, <1>6, <1>7, <1>8 DEF GateStep

\* What starts a flow, and what no flow does.
LEMMA ArrivalKeeps ==
  ASSUME TypeInv
  PROVE  /\ \A c \in Claims : RunnerCalls(c) \/ Heartbeat(c) => NoPublication
         /\ People \/ Environment => NoPublication
<1>0. Handlers \subseteq Procs /\ procs \in [Procs -> Proc] /\ Idle \in Proc
      /\ \A pc \in ReplyPc : pc # "apply_pr"
  BY IdleTyped DEF Procs, TypeInv, GoodProc, ReplyPc
<1>1. ASSUME NEW c \in Claims, NEW h \in Handlers, NEW at \in Replicas, NEW stage,
             NEW pc \in ReplyPc, NEW goal, Call(c, h, at, stage, pc, goal)
      PROVE  NoPublication
  <2>1. UNCHANGED procs \/ Serve(c, h, at, pc, goal)
    BY <1>1 DEF Call
  <2> DEFINE x == [Idle EXCEPT !.pc = pc, !.at = at, !.claim = c, !.job = runners[c].job,
                               !.row = RunnerJob(c), !.goal = goal]
  <2>2. x.pc # "apply_pr" /\ UNCHANGED forge
    BY <1>0, <1>1 DEF Call, Proc
  <2>3. UNCHANGED procs \/ procs' = [procs EXCEPT ![h] = x]
    BY <2>1 DEF Serve
  <2> HIDE DEF x
  <2> QED BY <1>0, <2>2, <2>3 DEF NoPublication
<1>2. ASSUME NEW c \in Claims, RunnerCalls(c) \/ Heartbeat(c)
      PROVE  NoPublication
  <2>1. Heartbeat(c) => NoPublication
    BY DEF Heartbeat, NoPublication
  <2> QED BY <1>1, <1>2, <2>1 DEF RunnerCalls, RunnerApiStep, SpecCall, ResultCall, PhaseCall, ReplyPc
<1>3. ASSUME NEW h \in Handlers, NEW at \in Replicas, NEW j \in Jobs, AdminArrival(h, j, at)
      PROVE  NoPublication
  <2>1. CASE CreateHeld(h, j, at)
    BY <1>0, <2>1 DEF CreateHeld, Begin, NoPublication, Proc
  <2>2. CASE Cancel(h, j, at)
    BY <1>0, <2>2 DEF Cancel, NoPublication, Proc
  <2>3. CASE Apply(h, j, at)
    BY <1>0, <2>3 DEF Apply, EnterApply, NoPublication, Proc
  <2> QED BY <1>3, <2>1, <2>2, <2>3 DEF AdminArrival
<1>4. ASSUME NEW h \in Handlers, NEW at \in Replicas, NEW g \in GateIds, GateArrival(h, g, at)
      PROVE  NoPublication
  <2>1. CASE Resolve(h, g, at)
    BY <1>0, <2>1 DEF Resolve, NoPublication, Proc
  <2>2. CASE GateExpires(h, g, at)
    BY <1>0, <2>2 DEF GateExpires, NoPublication, Proc
  <2> QED BY <1>4, <2>1, <2>2 DEF GateArrival
<1>5. \A j, k \in Jobs : Create(j) \/ Delete(j) \/ Retry(j, k) => NoPublication
  BY DEF Create, Delete, Retry, NoPublication
<1>6. Environment => NoPublication
  <2>1. \A r \in Replicas : Crash(r) => NoPublication
    BY <1>0, IdleTyped DEF Crash, NoPublication
  <2> QED BY <2>1 DEF Environment, TimePasses, RunnerDies, Reclaimed, NoPublication
<1> QED BY <1>2, <1>3, <1>4, <1>5, <1>6 DEF People

(***************************************************************************)
(* The two steps that publish.                                             *)
(***************************************************************************)
\* Only a flow that finds no branch creates it and goes on to the pull request;
\* every other flow of the job stands elsewhere then.
LEMMA BranchKeeps ==
  ASSUME TypeInv, ForgeInv, NEW p \in Procs, ApplyBranch(p)
  PROVE  ForgeInv'
<1> DEFINE k == procs[p].job
<1>0. k \in Jobs /\ procs \in [Procs -> Proc] /\ forge \in [Jobs -> [branch : BOOLEAN, prs : Nat]]
      /\ "failed" \in Terminal /\ FALSE \in BOOLEAN /\ "apply_exit" \in NextPc
  BY JobTyped DEF TypeInv, GoodProc, ApplyBranch, At, LoopPc, Terminal, NextPc
<1>1. CASE UNCHANGED forge /\ ApplyFails(p)
  BY <1>0, <1>1, MovesKeep, NoPublicationKeeps DEF ApplyFails
<1>2. CASE /\ ~forge[k].branch
           /\ forge' = [forge EXCEPT ![k].branch = TRUE]
           /\ Goto(p, "apply_pr") \/ ApplyFails(p)
  <2>1. forge[k].prs = 0 /\ \A q \in Procs : ~Opening(q, k)
    BY <1>0, <1>2 DEF ForgeInv
  <2>2. /\ forge'[k].branch /\ forge'[k].prs = forge[k].prs
        /\ \A j \in Jobs \ {k} : forge'[j] = forge[j]
    BY <1>0, <1>2
  <2>3. \A q \in Procs : q # p => procs'[q] = procs[q]
    BY <1>0, <1>2 DEF Goto, ApplyFails, CallFinalize
  <2>4. procs'[p].job = k
    BY <1>0, <1>2 DEF Goto, ApplyFails, CallFinalize, Proc
  <2> HIDE DEF k
  <2>5. \A q \in Procs, j \in Jobs : (Opening(q, j))' => (q = p /\ j = k) \/ (Opening(q, j) /\ j # k)
    BY <2>1, <2>3, <2>4 DEF Opening
  <2> QED BY <1>0, <2>1, <2>2, <2>5 DEF ForgeInv
<1> QED BY <1>1, <1>2 DEF ApplyBranch

\* The one flow at the pull request opens it, and leaves.
LEMMA PrKeeps ==
  ASSUME TypeInv, ForgeInv, NEW p \in Procs, ApplyPr(p)
  PROVE  ForgeInv'
<1> DEFINE k == procs[p].job
<1>0. k \in Jobs /\ procs \in [Procs -> Proc] /\ forge \in [Jobs -> [branch : BOOLEAN, prs : Nat]]
      /\ Opening(p, k)
  BY JobTyped DEF TypeInv, GoodProc, ApplyPr, At, LoopPc, Opening
<1>1. forge[k].branch /\ forge[k].prs = 0 /\ \A q \in Procs : Opening(q, k) => q = p
  BY <1>0 DEF ForgeInv
<1>2. /\ forge'[k].branch /\ forge'[k].prs \in {0, 1}
      /\ \A j \in Jobs \ {k} : forge'[j] = forge[j]
  <2>1. forge' = forge \/ forge' = [forge EXCEPT ![k].prs = forge[k].prs + 1]
    BY DEF ApplyPr
  <2>2. forge[k].prs + 1 = 1
    BY <1>1
  <2> HIDE DEF k
  <2> QED BY <1>0, <1>1, <2>1, <2>2
<1>3. \A q \in Procs : q # p => procs'[q] = procs[q]
  BY <1>0 DEF ApplyPr, ApplyFails, CallFinalize
<1>4. procs'[p].pc # "apply_pr"
  BY <1>0 DEF ApplyPr, ApplyFails, CallFinalize, Proc
<1> HIDE DEF k
<1>5. \A q \in Procs, j \in Jobs : (Opening(q, j))' => Opening(q, j) /\ j # k
  BY <1>1, <1>3, <1>4 DEF Opening
<1> QED BY <1>0, <1>1, <1>2, <1>5 DEF ForgeInv

\* ForgeInv holds of every reachable state (forge.applyDiff refuses an existing branch).
LEMMA ForgeHolds == Spec => []ForgeInv
<1>1. Init => ForgeInv
  <2>1. Init => \A p \in Procs : procs[p].pc = "idle"
    BY IdleTyped DEF Init
  <2> QED BY <2>1 DEF Init, ForgeInv, Opening
<1>2. TypeInv /\ ForgeInv /\ [Next]_vars => ForgeInv'
  <2> SUFFICES ASSUME TypeInv, ForgeInv, [Next]_vars
               PROVE  ForgeInv'
    OBVIOUS
  <2>0. Replicas \subseteq Procs /\ Handlers \subseteq Procs
    BY DEF Procs
  <2>1. ASSUME NEW p \in Procs, FlowStep(p)
        PROVE  ForgeInv'
    BY <2>1, BranchKeeps, PrKeeps, ApplyKeeps, FinalizeKeeps, NoPublicationKeeps DEF FlowStep
  <2>2. CASE \E w \in Replicas : WorkerFlow(w)
    BY <2>0, <2>1, <2>2, WorkerKeeps, NoPublicationKeeps DEF WorkerFlow
  <2>3. CASE \E h \in Handlers : HandlerStep(h)
    BY <2>0, <2>1, <2>3, ReplyKeeps, GateKeeps, NoPublicationKeeps DEF HandlerStep
  <2>4. CASE \E c \in Claims : RunnerCalls(c) \/ Heartbeat(c)
    BY <2>4, ArrivalKeeps, NoPublicationKeeps
  <2>5. CASE People \/ Environment
    BY <2>5, ArrivalKeeps, NoPublicationKeeps
  <2>6. CASE UNCHANGED vars
    BY <2>6 DEF vars, ForgeInv, Opening
  <2> QED BY <2>2, <2>3, <2>4, <2>5, <2>6 DEF Next
<1> QED BY <1>1, <1>2, TypesHold, PTL DEF Spec

\* However many applies of a job race, crash, are repeated or lose an answer, it
\* has at most one pull request: the branch is created, never updated, and only
\* the flow that created it goes on to open one.
THEOREM OnePullRequest == Spec => []OnePullRequestPerJob
<1>1. ForgeInv => OnePullRequestPerJob
  BY DEF ForgeInv, OnePullRequestPerJob
<1> QED BY <1>1, ForgeHolds, PTL

(***************************************************************************)
(* A step of a flow moves no other flow.                                   *)
(***************************************************************************)
Alone(p) == \A q \in Procs \ {p} : procs'[q] = procs[q]

LEMMA AloneMoves ==
  ASSUME TypeInv, NEW p \in Procs
  PROVE  /\ \A x : procs' = [procs EXCEPT ![p] = x] => Alone(p)
         /\ \A pc : Goto(p, pc) => Alone(p)
         /\ \A to, pr, next : CallFinalize(p, to, pr, next) => Alone(p)
         /\ Leave(p) => Alone(p)
         /\ Return(p) => Alone(p)
         /\ \A pc, after, js : Walk(p, pc, after, js) => Alone(p)
         /\ \A j, rep, approved, todo, back : EnterApply(p, j, rep, approved, todo, back) => Alone(p)
         /\ NextClaim(p) => Alone(p)
         /\ UNCHANGED procs => Alone(p)
<1>0. procs \in [Procs -> Proc]
  BY DEF TypeInv, GoodProc
<1>1. /\ \A x : procs' = [procs EXCEPT ![p] = x] => Alone(p)
      /\ UNCHANGED procs => Alone(p)
  BY <1>0 DEF Alone
<1>2. /\ Leave(p) => Alone(p)
      /\ NextClaim(p) => Alone(p)
      /\ \A pc, after, js : Walk(p, pc, after, js) => Alone(p)
  BY <1>1 DEF Leave, NextClaim, Walk
<1>3. /\ \A pc : Goto(p, pc) => Alone(p)
      /\ \A to, pr, next : CallFinalize(p, to, pr, next) => Alone(p)
      /\ Return(p) => Alone(p)
  BY <1>0 DEF Goto, CallFinalize, Return, Alone
<1>4. \A j, rep, approved, todo, back : EnterApply(p, j, rep, approved, todo, back) => Alone(p)
  BY <1>0 DEF EnterApply, Alone
<1> QED BY <1>1, <1>2, <1>3, <1>4

LEMMA FlowAlone ==
  ASSUME TypeInv, NEW p \in Procs, FlowStep(p)
  PROVE  Alone(p)
<1>0. procs \in [Procs -> Proc]
  BY DEF TypeInv, GoodProc
<1>1. CASE ApplyStep(p)
  BY <1>1, AloneMoves DEF ApplyStep, ApplyLoad, ApplyJudge, ApplyBranch, ApplyPr, ApplyGate, ApplyPark,
     ApplyExit, ApplyFails
<1>2. CASE FinalizeStep(p)
  <2>1. \A stop : procs' = [procs EXCEPT ![p].pc = "fin_flip", ![p].stop = stop] => Alone(p)
    BY <1>0 DEF Alone
  <2>2. \A stop : procs' = [procs EXCEPT ![p].pc = "fin_stop", ![p].stop = stop] => Alone(p)
    BY <1>0 DEF Alone
  <2> QED BY <1>2, <2>1, <2>2, AloneMoves DEF FinalizeStep, FinalizeRead, FinalizeFlip, FinalizeStop
<1> QED BY <1>1, <1>2 DEF FlowStep

LEMMA WorkerAlone ==
  ASSUME TypeInv, NEW w \in Replicas, WorkerStep(w)
  PROVE  Alone(w)
<1>0. procs \in [Procs -> Proc] /\ w \in Procs
  BY DEF TypeInv, GoodProc, Procs
<1>1. CASE TickStart(w) \/ ApplyNext(w) \/ WallClockList(w) \/ StallList(w) \/ ReapList(w) \/ CountSlots(w)
             \/ TickEnd(w) \/ Prepare(w) \/ Provision(w) \/ Release(w) \/ Attach(w) \/ Orphan(w)
  BY <1>0, <1>1, AloneMoves
  DEF TickStart, ApplyNext, WallClockList, StallList, ReapList, CountSlots, TickEnd, Prepare, Provision,
      Start, Adopt, AtCapacity, Refused, Answered, Release, Attach, Orphan
<1>2. \A pc, to, after : SweepNext(w, pc, to, after) => Alone(w)
  <2> SUFFICES ASSUME NEW pc, NEW to, NEW after, SweepNext(w, pc, to, after)
               PROVE  Alone(w)
    OBVIOUS
  <2>1. ASSUME NEW j \in procs[w].todo,
               procs' = [procs EXCEPT ![w].pc = "fin_read", ![w].job = j, ![w].to = to,
                           ![w].pr = FALSE, ![w].next = pc, ![w].todo = @ \ {j}]
        PROVE  Alone(w)
    BY <1>0, <2>1 DEF Alone
  <2> QED BY <1>0, <2>1, AloneMoves DEF SweepNext
<1>3. CASE ReapNext(w)
  <2>1. ASSUME NEW c \in procs[w].dead, NEW j,
               procs' = [procs EXCEPT ![w].pc = "fin_read", ![w].job = j,
                           ![w].to = "stalled", ![w].pr = FALSE,
                           ![w].next = "reap_next", ![w].dead = @ \ {c}]
        PROVE  Alone(w)
    BY <1>0, <2>1 DEF Alone
  <2>2. ASSUME NEW c \in procs[w].dead, procs' = [procs EXCEPT ![w].dead = @ \ {c}]
        PROVE  Alone(w)
    BY <1>0, <2>2 DEF Alone
  <2> QED BY <1>0, <1>3, <2>1, <2>2, AloneMoves DEF ReapNext
<1>4. CASE Claim(w)
  <2>1. ASSUME NEW j \in Jobs,
               procs' = [procs EXCEPT ![w].pc = "prepare", ![w].job = j,
                           ![w].claim = claims + 1, ![w].slots = @ - 1]
        PROVE  Alone(w)
    BY <1>0, <2>1 DEF Alone
  <2> QED BY <1>4, <2>1 DEF Claim
<1> QED BY <1>1, <1>2, <1>3, <1>4 DEF WorkerStep, Enforce, WallClockNext, StallNext, Reap, ClaimAndProvision

\* What a handler does, and what makes it begin.
Handles(h) ==
  \/ ReplyStep(h) \/ GateStep(h) \/ HeldOpen(h)
  \/ \E c \in Claims, at \in Replicas : RunnerApiStep(c, h, at)
  \/ \E j \in Jobs, at \in Replicas : AdminArrival(h, j, at)
  \/ \E g \in GateIds, at \in Replicas : GateArrival(h, g, at)

LEMMA HandlerAlone ==
  ASSUME TypeInv, NEW h \in Handlers, Handles(h)
  PROVE  Alone(h)
<1>0. procs \in [Procs -> Proc] /\ h \in Procs
  BY DEF TypeInv, GoodProc, Procs
<1>1. CASE HeldOpen(h) \/ ReplyStep(h)
  <2>1. \A t : Carry(h, t) => Alone(h)
    BY <1>0 DEF Carry, Alone
  <2> QED BY <1>0, <1>1, <2>1, AloneMoves
          DEF HeldOpen, ReplyStep, SpecReply, ResultRecord, ReplyExit, PhaseJudge, PhaseAdvance,
              ParkAdvance, ParkOpen, ParkRow
<1>2. CASE GateStep(h)
  <2>1. \A goal : procs' = [procs EXCEPT ![h].pc = "resolve_stuck", ![h].goal = goal] => Alone(h)
    BY <1>0 DEF Alone
  <2>2. procs' = [procs EXCEPT ![h].pc = "apply_load", ![h].approved = TRUE] => Alone(h)
    BY <1>0 DEF Alone
  <2>3. ResolveFlip(h) => Alone(h)
    BY <1>0, <2>1, AloneMoves DEF ResolveFlip
  <2> QED BY <1>0, <1>2, <2>2, <2>3, AloneMoves
          DEF GateStep, ResolveStuck, DriveBrief, DriveRequeue, ResumeGuard, ResumeFlip, HandlerEnd
<1>3. ASSUME NEW c \in Claims, NEW at \in Replicas, RunnerApiStep(c, h, at)
      PROVE  Alone(h)
  <2>1. \A stage, pc, goal : Call(c, h, at, stage, pc, goal) => Alone(h)
    BY <1>0, AloneMoves DEF Call, Serve
  <2> QED BY <1>3, <2>1 DEF RunnerApiStep, SpecCall, ResultCall, PhaseCall
<1>4. ASSUME NEW j \in Jobs, NEW at \in Replicas, AdminArrival(h, j, at)
      PROVE  Alone(h)
  BY <1>0, <1>4, AloneMoves DEF AdminArrival, CreateHeld, Begin, Cancel, Apply
<1>5. ASSUME NEW g \in GateIds, NEW at \in Replicas, GateArrival(h, g, at)
      PROVE  Alone(h)
  BY <1>0, <1>5, AloneMoves DEF GateArrival, Resolve, GateExpires
<1> QED BY <1>1, <1>2, <1>3, <1>4, <1>5 DEF Handles

\* Whose step it is.
LEMMA MoversSorted ==
  ASSUME TypeInv, [Next]_vars
  PROVE  \/ UNCHANGED procs /\ UNCHANGED claims
         \/ \E p \in Procs : Alone(p) /\ FlowStep(p)
         \/ \E w \in Replicas : Alone(w) /\ WorkerStep(w)
         \/ \E h \in Handlers : Alone(h) /\ Handles(h)
         \/ \E r \in Replicas : Crash(r)
<1>0. Replicas \subseteq Procs /\ Handlers \subseteq Procs
  BY DEF Procs
<1>1. CASE \E w \in Replicas : WorkerFlow(w)
  BY <1>0, <1>1, WorkerAlone, FlowAlone DEF WorkerFlow
<1>2. CASE \E h \in Handlers : HandlerStep(h)
  BY <1>0, <1>2, HandlerAlone, FlowAlone DEF HandlerStep, Handles
<1>3. CASE \E c \in Claims : RunnerCalls(c) \/ Heartbeat(c)
  BY <1>3, HandlerAlone DEF RunnerCalls, Heartbeat, Handles
<1>4. CASE People
  <2>1. ASSUME NEW j \in Jobs, Create(j) \/ Delete(j) \/ \E k \in Jobs : Retry(j, k)
        PROVE  UNCHANGED procs /\ UNCHANGED claims
    BY <2>1 DEF Create, Delete, Retry
  <2> QED BY <1>4, <2>1, HandlerAlone DEF People, Handles
<1>5. CASE Environment
  BY <1>5 DEF Environment, TimePasses, RunnerDies, Reclaimed
<1>6. CASE UNCHANGED vars
  BY <1>6 DEF vars
<1> QED BY <1>1, <1>2, <1>3, <1>4, <1>5, <1>6 DEF Next

(***************************************************************************)
(* The concurrency cap.                                                    *)
(***************************************************************************)
Busy(r) == r.status \in {"provisioning", "running"}
BusyJobs == {j \in Jobs : Busy(jobs[j])}

\* The slots of all replicas, and those their ticks have left.
Slots == Replicas \X (1..MaxConcurrent)
Left(w) == procs[w].slots
SlotsLeft == {t \in Slots : t[2] <= Left(t[1])}

\* What the ticks may still claim and what is busy is within the slots there are: jobs
\* leave in the meantime, and only a tick with a slot adds one.
CapInv ==
  Cardinality(BusyJobs) + Cardinality(SlotsLeft) <= Cardinality(Slots)

\* A step that claims no job and counts no slot.
SlotsKept == \A w \in Replicas : procs'[w].slots = procs[w].slots \/ procs'[w].slots = 0
Uncounted == claims' = claims /\ SlotsKept

LEMMA SlotMoves ==
  ASSUME TypeInv, NEW p \in Procs
  PROVE  /\ \A pc : Goto(p, pc) => SlotsKept
         /\ \A to, pr, next : CallFinalize(p, to, pr, next) => SlotsKept
         /\ Leave(p) => SlotsKept
         /\ Return(p) => SlotsKept
         /\ \A pc, after, js : Walk(p, pc, after, js) => SlotsKept
         /\ \A j, rep, approved, todo, back : EnterApply(p, j, rep, approved, todo, back) => SlotsKept
         /\ NextClaim(p) => SlotsKept
         /\ UNCHANGED procs => SlotsKept
<1>0. procs \in [Procs -> Proc] /\ Replicas \subseteq Procs /\ Idle.slots = 0
  BY DEF TypeInv, GoodProc, Procs, Idle
<1>1. \A x : procs' = [procs EXCEPT ![p] = x] /\ (x.slots = procs[p].slots \/ x.slots = 0) => SlotsKept
  BY <1>0 DEF SlotsKept
<1>2. \A pc, js : [Idle EXCEPT !.pc = pc, !.todo = js].slots = 0
  BY <1>0 DEF Idle
<1>3. [Idle EXCEPT !.pc = "claim", !.slots = procs[p].slots].slots = procs[p].slots
  BY DEF Idle
<1>4. \A pc : Goto(p, pc) => SlotsKept
  BY <1>0 DEF Goto, Proc, SlotsKept
<1>5. \A to, pr, next : CallFinalize(p, to, pr, next) => SlotsKept
  BY <1>0 DEF CallFinalize, Proc, SlotsKept
<1>6. Leave(p) => SlotsKept
  BY <1>0, <1>1 DEF Leave
<1>7. Return(p) => SlotsKept
  BY <1>0 DEF Return, Proc, SlotsKept
<1>8. \A pc, after, js : Walk(p, pc, after, js) => SlotsKept
  BY <1>1, <1>2 DEF Walk
<1>9. \A j, rep, approved, todo, back : EnterApply(p, j, rep, approved, todo, back) => SlotsKept
  BY <1>0 DEF EnterApply, Proc, SlotsKept
<1>10. NextClaim(p) => SlotsKept
  BY <1>1, <1>3 DEF NextClaim
<1>11. UNCHANGED procs => SlotsKept
  BY DEF SlotsKept
<1> QED BY <1>4, <1>5, <1>6, <1>7, <1>8, <1>9, <1>10, <1>11

LEMMA FlowUncounted ==
  ASSUME TypeInv, NEW p \in Procs, FlowStep(p)
  PROVE  Uncounted
<1>0. procs \in [Procs -> Proc] /\ Replicas \subseteq Procs
  BY DEF TypeInv, GoodProc, Procs
<1>1. CASE ApplyLoad(p) \/ ApplyJudge(p) \/ ApplyBranch(p) \/ ApplyPr(p) \/ ApplyGate(p) \/ ApplyPark(p)
  BY <1>1, SlotMoves DEF ApplyLoad, ApplyJudge, ApplyBranch, ApplyPr, ApplyGate, ApplyPark, ApplyFails, Uncounted
<1>2. CASE ApplyExit(p)
  <2>1. [Idle EXCEPT !.pc = procs[p].back, !.todo = procs[p].todo].slots = 0
    BY DEF Idle
  <2>2. CASE Leave(p)
    BY <1>2, <2>2, SlotMoves DEF ApplyExit, Uncounted
  <2>3. CASE procs' = [procs EXCEPT ![p] = [Idle EXCEPT !.pc = procs[p].back, !.todo = procs[p].todo]]
    BY <1>0, <1>2, <2>1, <2>3 DEF ApplyExit, Uncounted, SlotsKept
  <2> QED BY <1>2, <2>2, <2>3 DEF ApplyExit
<1>3. CASE FinalizeRead(p)
  <2>1. CASE procs' = [procs EXCEPT ![p].pc = "fin_flip", ![p].stop = JobOf(p).handle]
    BY <1>0, <1>3, <2>1 DEF FinalizeRead, Uncounted, SlotsKept, Proc
  <2> QED BY <1>3, <2>1, SlotMoves DEF FinalizeRead, Uncounted
<1>4. CASE FinalizeFlip(p)
  <2>1. CASE procs' = [procs EXCEPT ![p].pc = "fin_stop",
                      ![p].stop = HandleToStop(procs[p].stop, JobOf(p).handle)]
    BY <1>0, <1>4, <2>1 DEF FinalizeFlip, Uncounted, SlotsKept, Proc
  <2> QED BY <1>4, <2>1, SlotMoves DEF FinalizeFlip, Uncounted
<1>5. CASE FinalizeStop(p)
  BY <1>5, SlotMoves DEF FinalizeStop, Uncounted
<1> QED BY <1>1, <1>2, <1>3, <1>4, <1>5 DEF FlowStep, ApplyStep, FinalizeStep

LEMMA WorkerUncounted ==
  ASSUME TypeInv, NEW w \in Replicas, WorkerStep(w)
  PROVE  Claim(w) \/ CountSlots(w) \/ Uncounted
<1>0. procs \in [Procs -> Proc] /\ Replicas \subseteq Procs /\ w \in Procs
  BY DEF TypeInv, GoodProc, Procs
<1>1. CASE TickStart(w) \/ WallClockList(w) \/ StallList(w) \/ TickEnd(w)
  BY <1>0, <1>1, SlotMoves DEF TickStart, WallClockList, StallList, TickEnd, Unmoved, Uncounted
<1>2. CASE ApplyNext(w)
  <2>1. UNCHANGED claims
    BY <1>2 DEF ApplyNext
  <2> QED BY <1>0, <1>2, <2>1, SlotMoves DEF ApplyNext, Uncounted
<1>3. CASE WallClockNext(w) \/ StallNext(w)
  <2>1. PICK pc, to, after : SweepNext(w, pc, to, after)
    BY <1>3 DEF WallClockNext, StallNext
  <2>2. CASE Goto(w, after)
    BY <1>0, <2>1, <2>2, SlotMoves DEF SweepNext, Unmoved, Uncounted
  <2>3. CASE \E j \in procs[w].todo :
               procs' = [procs EXCEPT ![w].pc = "fin_read", ![w].job = j, ![w].to = to,
                        ![w].pr = FALSE, ![w].next = pc, ![w].todo = @ \ {j}]
    <3>1. PICK j \in procs[w].todo :
               procs' = [procs EXCEPT ![w].pc = "fin_read", ![w].job = j, ![w].to = to,
                        ![w].pr = FALSE, ![w].next = pc, ![w].todo = @ \ {j}]
      BY <2>3
    <3>2. procs[w] \in Proc
      BY <1>0
    <3>3. SlotsKept
      BY <1>0, <3>1, <3>2 DEF SlotsKept, Proc
    <3> QED BY <2>1, <3>3 DEF SweepNext, Unmoved, Uncounted
  <2> QED BY <2>1, <2>2, <2>3 DEF SweepNext
<1>4. CASE ReapList(w)
  <2>1. PICK lost : procs' = [procs EXCEPT ![w] = [Idle EXCEPT !.dead = lost,
                                   !.pc = IF lost = {} THEN "count" ELSE "reap_next"]]
    BY <1>4 DEF ReapList
  <2>2. [Idle EXCEPT !.dead = lost, !.pc = IF lost = {} THEN "count" ELSE "reap_next"].slots = 0
    BY DEF Idle
  <2> QED BY <1>0, <1>4, <2>1, <2>2 DEF ReapList, Uncounted, SlotsKept
<1>5. CASE ReapNext(w)
  <2>1. UNCHANGED claims
    BY <1>5 DEF ReapNext, Unmoved
  <2>2. CASE Goto(w, "count")
    BY <1>0, <2>1, <2>2, SlotMoves DEF Uncounted
  <2>3. CASE \E c \in procs[w].dead : procs' = [procs EXCEPT ![w].dead = @ \ {c}]
    BY <1>0, <2>1, <2>3 DEF Uncounted, SlotsKept, Proc
  <2>4. CASE \E c \in procs[w].dead, j \in Jobs :
               procs' = [procs EXCEPT ![w].pc = "fin_read", ![w].job = j,
                               ![w].to = "stalled", ![w].pr = FALSE,
                               ![w].next = "reap_next", ![w].dead = @ \ {c}]
    BY <1>0, <2>1, <2>4 DEF Uncounted, SlotsKept, Proc
  <2> QED BY <1>5, <2>2, <2>3, <2>4 DEF ReapNext, HandleOwners
<1>6. CASE Prepare(w) \/ Release(w) \/ Attach(w) \/ Orphan(w)
  BY <1>0, <1>6, SlotMoves DEF Prepare, Release, Attach, Orphan, Uncounted
<1>7. CASE Provision(w)
  BY <1>0, <1>7, SlotMoves DEF Provision, Start, Adopt, AtCapacity, Refused, Answered, Uncounted
<1> QED BY <1>1, <1>2, <1>3, <1>4, <1>5, <1>6, <1>7 DEF WorkerStep, Enforce, Reap, ClaimAndProvision

\* A handler is no replica and claims nothing.
LEMMA HandlerUncounted ==
  ASSUME NEW h \in Handlers, Alone(h), Handles(h)
  PROVE  Uncounted
<1>1. SlotsKept
  BY SortsAssumption DEF Alone, SlotsKept, Procs
<1>2. ReplyStep(h) \/ GateStep(h) \/ HeldOpen(h) => UNCHANGED claims
  BY DEF ReplyStep, SpecReply, ResultRecord, ReplyExit, PhaseJudge, PhaseAdvance, ParkAdvance, ParkOpen,
     ParkRow, GateStep, ResolveFlip, ResolveStuck, DriveBrief, DriveRequeue, ResumeGuard, ResumeFlip,
     HandlerEnd, HeldOpen
<1>3. \A c \in Claims, at \in Replicas : RunnerApiStep(c, h, at) => UNCHANGED claims
  BY DEF RunnerApiStep, SpecCall, ResultCall, PhaseCall, Call
<1>4. \A at \in Replicas : /\ \A j \in Jobs : AdminArrival(h, j, at) => UNCHANGED claims
                           /\ \A g \in GateIds : GateArrival(h, g, at) => UNCHANGED claims
  BY DEF AdminArrival, CreateHeld, Cancel, Apply, GateArrival, Resolve, GateExpires
<1> QED BY <1>1, <1>2, <1>3, <1>4 DEF Handles, Uncounted

\* A row is provisioning or running only by a claim, or because it was.
LEMMA BusyStatement ==
  ASSUME NEW r \in Row, NEW s, Statement(r, s), Busy(s), ~Busy(r)
  PROVE  claims' = claims + 1
<1> USE DEF Busy
<1>1. s # r
  OBVIOUS
<1>2. ASSUME NEW status \in {"queued", "waiting"}, NEW phase, NEW kind, NEW backend, NEW policy, NEW resumed,
             s = CreateJob(status, phase, kind, backend, policy, resumed)
      PROVE  FALSE
  BY <1>2 DEF CreateJob, EmptyRow
<1>3. (\E c \in Nat : s = Prepared(r, c)) => s.status = r.status
  BY DEF Prepared, Row
<1>4. (\E c \in Nat : s = Reissued(r, c)) => s.status = r.status
  BY DEF Reissued, Row
<1>5. s = Released(r) => s.status = "queued"
  BY DEF Released, Row
<1>6. (\E c \in Nat : s = Attached(r, c)) => s.status = r.status
  BY DEF Attached, Row
<1>7. s = Touched(r) => s.status = r.status
  BY DEF Touched, Row
<1>8. ~CanMarkRunning(r)
  BY DEF CanMarkRunning
<1>9. (\E to \in Phase : s = Advanced(r, to)) => s.status = r.status
  BY DEF Advanced, Row
<1>10. (\E n \in Nat, f \in Fingerprint : s = ReviewSet(r, n, f)) => s.status = r.status
  BY DEF ReviewSet, Row
<1>11. s \in {Parked(r), ParkedForApply(r)} => s.status = "waiting"
  BY DEF Parked, ParkedForApply, Row
<1>12. s = RequeuedAt(r, "implement") => s.status = "queued"
  BY DEF RequeuedAt, Row
<1>13. s = ResumedApply(r) => s.status = "applying"
  BY DEF ResumedApply, Row
<1>14. (\E g \in Nat : s = BriefAppended(r, g)) => s.status = r.status
  BY DEF BriefAppended, Row
<1>15. (\E outcome \in Goal : s = ResultRecorded(r, outcome)) => s.status \in {"applying", r.status}
  BY DEF ResultRecorded, Row
<1>16. (\E to \in Terminal, pr \in BOOLEAN : s = Finished(r, to, pr)) => s.status \in Terminal
  BY DEF Finished, Row
<1>17. s = Deleted(r) => s.status = "deleted"
  BY EmptyTyped DEF Deleted, Row
<1>18. (\E clock \in Clock : s = Older(r, clock)) => s.status = r.status
  BY DEF Older, Row
<1> QED BY <1>1, <1>2, <1>3, <1>4, <1>5, <1>6, <1>7, <1>8, <1>9, <1>10, <1>11, <1>12, <1>13,
           <1>14, <1>15, <1>16, <1>17, <1>18 DEF Statement, Terminal

LEMMA BusyIsFinite == IsFiniteSet(BusyJobs) /\ Cardinality(BusyJobs) \in Nat
<1>1. BusyJobs \subseteq Jobs
  BY DEF BusyJobs
<1> QED BY <1>1, SortsAssumption, FS_Subset, FS_CardinalityType

LEMMA SlotsAreFinite ==
  /\ IsFiniteSet(Slots) /\ Cardinality(Slots) = Cardinality(Replicas) * MaxConcurrent
  /\ IsFiniteSet(SlotsLeft) /\ Cardinality(Slots) \in Nat /\ Cardinality(SlotsLeft) \in Nat
<1>1. IsFiniteSet(1..MaxConcurrent) /\ Cardinality(1..MaxConcurrent) = MaxConcurrent
  BY BoundsAssumption, FS_Interval
<1>2. IsFiniteSet(Slots) /\ Cardinality(Slots) = Cardinality(Replicas) * MaxConcurrent
  BY <1>1, SortsAssumption, FS_Product DEF Slots
<1>3. SlotsLeft \subseteq Slots
  BY DEF SlotsLeft
<1> QED BY <1>2, <1>3, FS_Subset, FS_CardinalityType

\* A replica has n slots, up to the n-th.
LEMMA SlotsOfOne ==
  ASSUME NEW w, NEW n \in Nat
  PROVE  IsFiniteSet({w} \X (1..n)) /\ Cardinality({w} \X (1..n)) = n
<1>1. IsFiniteSet(1..n) /\ Cardinality(1..n) = n
  BY FS_Interval
<1>2. IsFiniteSet({w}) /\ Cardinality({w}) = 1
  BY FS_Singleton
<1> QED BY <1>1, <1>2, FS_Product

\* What is counted once stays within the cap: a step that claims nothing leaves no
\* more jobs busy, and every tick the slots it had.
LEMMA UncountedWithinCap ==
  ASSUME TypeInv, CapInv, [Next]_vars, Uncounted
  PROVE  CapInv'
<1>1. \A j \in Jobs : jobs[j] \in Row /\ (jobs'[j] = jobs[j] \/ Statement(jobs[j], jobs'[j]))
  BY NextIsOneStatement DEF TypeInv, OneStatement
<1>2. claims \in Nat
  BY BoundsAssumption DEF TypeInv
<1>3. BusyJobs' \subseteq BusyJobs
  BY <1>1, <1>2, BusyStatement DEF BusyJobs, Busy, Uncounted
<1>4. Cardinality(BusyJobs') \in Nat /\ Cardinality(BusyJobs') <= Cardinality(BusyJobs)
  BY <1>3, BusyIsFinite, FS_Subset, FS_CardinalityType
<1>5. SlotsLeft' \subseteq SlotsLeft
  <2>1. SUFFICES ASSUME NEW t \in Slots, t[2] <= procs'[t[1]].slots PROVE t[2] <= procs[t[1]].slots
    BY DEF SlotsLeft, Slots, Left
  <2>2. t[1] \in Replicas /\ t[2] \in 1..MaxConcurrent
    BY DEF Slots
  <2>3. procs'[t[1]].slots = procs[t[1]].slots \/ procs'[t[1]].slots = 0
    BY <2>2 DEF Uncounted, SlotsKept
  <2> QED BY <2>1, <2>2, <2>3, BoundsAssumption
<1>6. Cardinality(SlotsLeft') \in Nat /\ Cardinality(SlotsLeft') <= Cardinality(SlotsLeft)
  BY <1>5, SlotsAreFinite, FS_Subset, FS_CardinalityType
<1>7. Slots' = Slots
  BY DEF Slots
<1> QED BY <1>4, <1>6, <1>7, BusyIsFinite, SlotsAreFinite DEF CapInv

\* No tick has more slots than there are.
SlotsCounted == \A w \in Replicas : procs[w].slots <= MaxConcurrent

\* A claim takes a slot for the job it makes busy.
LEMMA ClaimWithinCap ==
  ASSUME NEW w \in Replicas, TypeInv, SlotsCounted, CapInv, Claim(w)
  PROVE  CapInv'
<1>1. PICK j \in Jobs : /\ CanClaim(jobs[j])
                        /\ Write(j, CanClaim(jobs[j]), Claimed(jobs[j], claims + 1))
                        /\ procs' = [procs EXCEPT ![w].pc = "prepare", ![w].job = j,
                                       ![w].claim = claims + 1, ![w].slots = @ - 1]
  BY DEF Claim
<1>2. procs \in [Procs -> Proc] /\ w \in Procs /\ Replicas \subseteq Procs /\ jobs \in [Jobs -> Row]
  BY DEF TypeInv, GoodProc, Procs
<1>3. procs[w].slots \in Int /\ procs[w].slots > 0 /\ procs'[w].slots = procs[w].slots - 1
  BY <1>1, <1>2 DEF Proc, Claim
<1>4. jobs' = [jobs EXCEPT ![j] = Claimed(jobs[j], claims + 1)]
  BY <1>1 DEF Write, Update
<1>5. Claimed(jobs[j], claims + 1).status = "provisioning"
  BY <1>2 DEF Claimed, Row
<1>6. j \notin BusyJobs
  BY <1>1 DEF BusyJobs, Busy, CanClaim
<1>7. BusyJobs' = BusyJobs \cup {j}
  BY <1>2, <1>4, <1>5 DEF BusyJobs, Busy
<1>8. Cardinality(BusyJobs') = Cardinality(BusyJobs) + 1
  BY <1>6, <1>7, BusyIsFinite, FS_AddElement
<1> DEFINE t == <<w, procs[w].slots>>
<1>9. t \in SlotsLeft
  BY <1>3, BoundsAssumption DEF SlotsCounted, SlotsLeft, Slots, Left
<1>10. SlotsLeft' \subseteq SlotsLeft \ {t}
  <2>1. SUFFICES ASSUME NEW u \in Slots, u[2] <= procs'[u[1]].slots
                 PROVE  u[2] <= procs[u[1]].slots /\ u # t
    BY DEF SlotsLeft, Slots, Left
  <2>2. u[1] \in Replicas /\ u[2] \in Int
    BY DEF Slots
  <2>3. CASE u[1] = w
    BY <1>3, <2>1, <2>2, <2>3
  <2>4. CASE u[1] # w
    BY <1>1, <1>2, <2>1, <2>2, <2>4
  <2> QED BY <2>3, <2>4
<1>11. Cardinality(SlotsLeft') \in Nat /\ Cardinality(SlotsLeft') <= Cardinality(SlotsLeft) - 1
  <2>1. IsFiniteSet(SlotsLeft \ {t}) /\ Cardinality(SlotsLeft \ {t}) = Cardinality(SlotsLeft) - 1
    BY <1>9, SlotsAreFinite, FS_RemoveElement
  <2> QED BY <1>10, <2>1, FS_Subset, FS_CardinalityType
<1>12. Slots' = Slots
  BY DEF Slots
<1> QED BY <1>8, <1>11, <1>12, BusyIsFinite, SlotsAreFinite DEF CapInv

\* A count leaves room for the jobs that are active, within the slots of its replica.
LEMMA CountWithinCap ==
  ASSUME NEW w \in Replicas, TypeInv, CapInv, CountSlots(w)
  PROVE  CapInv'
<1> DEFINE x == [Idle EXCEPT !.pc = "claim", !.slots = MaxConcurrent - Cardinality(ActiveJobs)]
           n == MaxConcurrent - Cardinality(ActiveJobs)
<1>1. procs' = [procs EXCEPT ![w] = x] /\ UNCHANGED jobs
  BY DEF CountSlots, Unmoved
<1>2. x.slots = MaxConcurrent - Cardinality(ActiveJobs)
  BY DEF Idle
<1> HIDE DEF x
<1>3. procs'[w].slots = n /\ \A v \in Replicas \ {w} : procs'[v] = procs[v]
  BY <1>1, <1>2 DEF TypeInv, Procs
<1>4. BusyJobs' = BusyJobs
  BY <1>1 DEF BusyJobs
<1>5. BusyJobs \subseteq ActiveJobs /\ ActiveJobs \subseteq Jobs
  BY DEF BusyJobs, Busy, ActiveJobs, Active
<1>6. IsFiniteSet(ActiveJobs) /\ Cardinality(ActiveJobs) \in Nat
  BY <1>5, SortsAssumption, FS_Subset, FS_CardinalityType
<1>7. Cardinality(BusyJobs) <= Cardinality(ActiveJobs)
  BY <1>5, <1>6, FS_Subset
<1> DEFINE own == {w} \X (1..MaxConcurrent)
           room == Slots \ own
<1>8. own \subseteq Slots
  BY DEF Slots
<1>9. IsFiniteSet(room) /\ Cardinality(room) \in Nat /\ Cardinality(room) = Cardinality(Slots) - MaxConcurrent
  <2>1. Slots \cap own = own
    BY <1>8
  <2>2. Cardinality(own) = MaxConcurrent
    BY SlotsOfOne, BoundsAssumption
  <2>3. IsFiniteSet(room) /\ Cardinality(room) = Cardinality(Slots) - Cardinality(Slots \cap own)
    BY SlotsAreFinite, FS_Difference
  <2> QED BY <2>1, <2>2, <2>3, FS_CardinalityType
<1>10. \A t \in SlotsLeft' : t \in Slots /\ (t[1] = w => t[2] <= n) /\ (t[1] # w => t \in SlotsLeft)
  <2> SUFFICES ASSUME NEW t \in Slots, t[2] <= procs'[t[1]].slots
               PROVE  (t[1] = w => t[2] <= n) /\ (t[1] # w => t[2] <= procs[t[1]].slots)
    BY DEF SlotsLeft, Slots, Left
  <2>1. t[1] \in Replicas
    BY DEF Slots
  <2> QED BY <1>3, <2>1
<1> HIDE DEF n
<1>11. CASE n \in Nat
  <2> DEFINE few == {w} \X (1..n)
  <2>1. SlotsLeft' \subseteq room \cup few
    <3> SUFFICES ASSUME NEW t \in SlotsLeft', t \notin room PROVE t \in few
      OBVIOUS
    <3>1. t \in Slots /\ t \in own
      BY <1>10
    <3>2. PICK k \in 1..MaxConcurrent : t = <<w, k>>
      BY <3>1
    <3>3. t[1] = w /\ t[2] = k
      BY <3>2
    <3>4. k <= n
      BY <1>10, <3>3
    <3>5. k \in 1..n
      BY <1>11, <3>2, <3>4, BoundsAssumption
    <3> QED BY <3>2, <3>5
  <2>2. IsFiniteSet(few) /\ Cardinality(few) = n
    BY <1>11, SlotsOfOne
  <2> HIDE DEF few, room, own
  <2>3. IsFiniteSet(room \cup few) /\ Cardinality(room \cup few) <= Cardinality(room) + n
    <3>1. IsFiniteSet(room \cap few) /\ Cardinality(room \cap few) \in Nat
      BY <1>9, FS_Intersection, FS_CardinalityType
    <3>2. /\ IsFiniteSet(room \cup few)
          /\ Cardinality(room \cup few) = Cardinality(room) + Cardinality(few) - Cardinality(room \cap few)
      BY <1>9, <2>2, FS_Union
    <3>3. ASSUME NEW a \in Nat, NEW b \in Nat, NEW c, c = Cardinality(room) + b - a, b = n
          PROVE  c <= Cardinality(room) + n
      BY <1>9, <1>11, <3>3
    <3> QED BY <1>11, <2>2, <3>1, <3>2, <3>3
  <2>4. Cardinality(SlotsLeft') \in Nat /\ Cardinality(SlotsLeft') <= Cardinality(room) + n
    <3>1. IsFiniteSet(SlotsLeft') /\ Cardinality(SlotsLeft') <= Cardinality(room \cup few)
      BY <2>1, <2>3, FS_Subset
    <3> QED BY <1>9, <1>11, <2>3, <3>1, FS_CardinalityType
  <2>5. Cardinality(BusyJobs) + n <= MaxConcurrent
    BY <1>6, <1>7, BusyIsFinite, BoundsAssumption DEF n
  <2> HIDE DEF n
  <2>6. Cardinality(BusyJobs) + Cardinality(SlotsLeft') <= Cardinality(Slots)
    BY <1>9, <1>11, <2>4, <2>5, BusyIsFinite, SlotsAreFinite, BoundsAssumption
  <2>7. Slots' = Slots
    BY DEF Slots
  <2> QED BY <1>4, <2>6, <2>7 DEF CapInv
<1>12. CASE n \notin Nat
  <2>1. n \in Int /\ n < 0
    BY <1>6, <1>12, BoundsAssumption DEF n
  <2>2. SlotsLeft' \subseteq SlotsLeft
    <3> SUFFICES ASSUME NEW t \in SlotsLeft' PROVE t \in SlotsLeft
      OBVIOUS
    <3>1. t[2] \in 1..MaxConcurrent
      BY <1>10 DEF Slots
    <3> QED BY <1>10, <2>1, <3>1
  <2>3. Cardinality(SlotsLeft') \in Nat /\ Cardinality(SlotsLeft') <= Cardinality(SlotsLeft)
    BY <2>2, SlotsAreFinite, FS_Subset, FS_CardinalityType
  <2>4. Slots' = Slots
    BY DEF Slots
  <2> QED BY <1>4, <2>3, <2>4, BusyIsFinite, SlotsAreFinite DEF CapInv
<1> QED BY <1>11, <1>12

LEMMA SlotsStayCounted ==
  ASSUME TypeInv, SlotsCounted,
         (\E w \in Replicas : Claim(w) \/ CountSlots(w)) \/ Uncounted
  PROVE  SlotsCounted'
<1>0. /\ procs \in [Procs -> Proc] /\ Replicas \subseteq Procs
      /\ \A w \in Replicas : procs[w].slots \in Int
  BY DEF TypeInv, GoodProc, Proc, Procs
<1>1. ASSUME NEW w \in Replicas, Claim(w)
      PROVE  SlotsCounted'
  <2>1. PICK j \in Jobs : procs' = [procs EXCEPT ![w].pc = "prepare", ![w].job = j,
                                       ![w].claim = claims + 1, ![w].slots = @ - 1]
    BY <1>1 DEF Claim
  <2>2. procs'[w].slots = procs[w].slots - 1 /\ \A v \in Replicas \ {w} : procs'[v] = procs[v]
    BY <1>0, <2>1 DEF Proc
  <2> QED BY <1>0, <2>2, BoundsAssumption DEF SlotsCounted
<1>2. ASSUME NEW w \in Replicas, CountSlots(w)
      PROVE  SlotsCounted'
  <2> DEFINE x == [Idle EXCEPT !.pc = "claim", !.slots = MaxConcurrent - Cardinality(ActiveJobs)]
  <2>1. procs' = [procs EXCEPT ![w] = x]
    BY <1>2 DEF CountSlots
  <2>2. x.slots = MaxConcurrent - Cardinality(ActiveJobs)
    BY DEF Idle
  <2> HIDE DEF x
  <2>3. Cardinality(ActiveJobs) \in Nat
    <3>1. ActiveJobs \subseteq Jobs
      BY DEF ActiveJobs
    <3> QED BY <3>1, SortsAssumption, FS_Subset, FS_CardinalityType
  <2>4. procs'[w].slots <= MaxConcurrent
    BY <1>0, <2>1, <2>2, <2>3, BoundsAssumption
  <2>5. \A v \in Replicas \ {w} : procs'[v] = procs[v]
    BY <1>0, <2>1
  <2> QED BY <2>4, <2>5 DEF SlotsCounted
<1>3. CASE Uncounted
  <2>1. \A w \in Replicas : procs'[w].slots = procs[w].slots \/ procs'[w].slots = 0
    BY <1>3 DEF Uncounted, SlotsKept
  <2> QED BY <1>0, <2>1, BoundsAssumption DEF SlotsCounted
<1> QED BY <1>1, <1>2, <1>3

\* Each step is a claim, a count or neither.
LEMMA CapKeeps ==
  ASSUME TypeInv, SlotsCounted, CapInv, [Next]_vars
  PROVE  SlotsCounted' /\ CapInv'
<1>1. CASE \E w \in Replicas : Claim(w) \/ CountSlots(w)
  BY <1>1, SlotsStayCounted, ClaimWithinCap, CountWithinCap
<1>2. CASE Uncounted
  BY <1>2, SlotsStayCounted, UncountedWithinCap
<1>3. ASSUME NEW w \in Replicas, WorkerStep(w)
      PROVE  Claim(w) \/ CountSlots(w) \/ Uncounted
  BY <1>3, WorkerUncounted
<1>4. ASSUME NEW r \in Replicas, Crash(r)
      PROVE  Uncounted
  BY <1>4 DEF Crash, Uncounted, SlotsKept, Idle, Procs
<1>5. UNCHANGED procs /\ UNCHANGED claims => Uncounted
  BY DEF Uncounted, SlotsKept
<1> QED BY <1>1, <1>2, <1>3, <1>4, <1>5, FlowUncounted, HandlerUncounted, MoversSorted

\* WithinConcurrencyCap, of countActiveJobs and claimAndProvision: no tick starts
\* more jobs than the cap leaves, though it counts only once and rows are claimed,
\* released, finished and parked meanwhile.  A job counts as soon as it is claimed.
\* Replicas that count at the same time exceed the cap, by what each may claim.
THEOREM CapIsKept == Spec => []WithinConcurrencyCap
<1>1. Init => SlotsCounted /\ CapInv
  <2> SUFFICES ASSUME Init PROVE SlotsCounted /\ CapInv
    OBVIOUS
  <2>1. BusyJobs = {}
    BY DEF Init, BusyJobs, Busy, EmptyRow
  <2>2. \A w \in Replicas : procs[w].slots = 0
    BY DEF Init, Idle, Procs
  <2>3. SlotsLeft = {}
    BY <2>2, BoundsAssumption DEF SlotsLeft, Slots, Left
  <2> QED BY <2>1, <2>2, <2>3, FS_EmptySet, SlotsAreFinite, BoundsAssumption DEF CapInv, SlotsCounted
<1>2. TypeInv /\ (SlotsCounted /\ CapInv) /\ [Next]_vars => (SlotsCounted /\ CapInv)'
  BY CapKeeps
<1>3. SlotsCounted /\ CapInv => WithinConcurrencyCap
  <2> SUFFICES ASSUME CapInv PROVE WithinConcurrencyCap
    OBVIOUS
  <2>1. Cardinality(BusyJobs) <= Cardinality(Slots)
    BY BusyIsFinite, SlotsAreFinite DEF CapInv
  <2> QED BY <2>1, SlotsAreFinite DEF WithinConcurrencyCap, BusyJobs, Busy
<1> QED BY <1>1, <1>2, <1>3, TypesHold, PTL DEF Spec
=============================================================================
