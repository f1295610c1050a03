---------------------------- MODULE DevJobTypes ----------------------------
(***************************************************************************)
(* Type correctness of the dev-job lifecycle, for every number of jobs,    *)
(* replicas, handlers, claims and gates.                                   *)
(*                                                                         *)
(* TypeOK alone is not inductive: a handler that serves a runner takes the *)
(* job from the runner, the resolve route takes it from the gate, and an   *)
(* apply adds it to the in-flight set, so the job must be a real one       *)
(* wherever a flow, a live runner or an open gate refers to it.            *)
(***************************************************************************)
EXTENDS DevJobProperties, FiniteSetTheorems, TLAPS

GoodProc == {x \in Proc :
  /\ x.pc \notin LoopPc => x.job \in Jobs
  /\ x.pc = "advance" => x.goal \in Phase
  /\ x.pc = "resolve" => x.goal \in GateDecision}
GoodRunner == {x \in Runner : x.stage \in {"boot", "work", "call"} => x.job \in Jobs}
GoodGate == {x \in Gate : x.status \notin {"unopened", "deleted"} => x.job \in Jobs}

TypeInv ==
  /\ jobs \in [Jobs -> Row]
  /\ gates \in [GateIds -> GoodGate]
  /\ claims \in 0..MaxClaims
  /\ runners \in [Claims -> GoodRunner]
  /\ forge \in [Jobs -> [branch : BOOLEAN, prs : Nat]]
  /\ procs \in [Procs -> GoodProc]
  /\ applying \in [Replicas -> SUBSET Jobs]
  /\ crashes \in 0..MaxCrashes

\* A statement of DevJobStore writes a well-typed row.
LEMMA StatementsTyped ==
  ASSUME NEW r \in Row
  PROVE  /\ \A c \in Nat : Claimed(r, c) \in Row /\ Prepared(r, c) \in Row /\ Attached(r, c) \in Row
         /\ \A c \in Nat : Reissued(r, c) \in Row
         /\ Released(r) \in Row /\ Touched(r) \in Row /\ MarkedRunning(r) \in Row
         /\ \A to \in Phase : Advanced(r, to) \in Row /\ RequeuedAt(r, to) \in Row
         /\ \A n \in Nat, f \in Fingerprint : ReviewSet(r, n, f) \in Row
         /\ Parked(r) \in Row /\ ParkedForApply(r) \in Row /\ ResumedApply(r) \in Row
         /\ \A g \in Nat : BriefAppended(r, g) \in Row
         /\ \A outcome : ResultRecorded(r, outcome) \in Row
         /\ \A to \in Terminal, pr \in BOOLEAN : Finished(r, to, pr) \in Row
         /\ \A clock : Older(r, clock) \in Row
<1>1. \A c \in Nat : Claimed(r, c) \in Row /\ Prepared(r, c) \in Row /\ Attached(r, c) \in Row
                    /\ Reissued(r, c) \in Row
  <2> TAKE c \in Nat
  <2>1. Claimed(r, c) \in Row
    BY DEF Claimed, Row, Status, Active, Age
  <2>2. Prepared(r, c) \in Row /\ Reissued(r, c) \in Row
    BY DEF Prepared, Reissued, Row
  <2>3. Attached(r, c) \in Row
    BY DEF Attached, Row, Beat
  <2> QED BY <2>1, <2>2, <2>3
<1>2. Released(r) \in Row /\ Touched(r) \in Row /\ MarkedRunning(r) \in Row
  BY DEF Released, Touched, MarkedRunning, Row, Status, Active, Beat, Age
<1>3. \A to \in Phase : Advanced(r, to) \in Row /\ RequeuedAt(r, to) \in Row
  <2>1. r.provision + 1 \in Nat
    BY DEF Row
  <2>2. \A to \in Phase : Advanced(r, to) \in Row
    BY DEF Advanced, Row
  <2>3. \A to \in Phase : RequeuedAt(r, to) \in Row
    BY <2>1 DEF RequeuedAt, Row, Status
  <2> QED BY <2>2, <2>3
<1>4. \A n \in Nat, f \in Fingerprint : ReviewSet(r, n, f) \in Row
  BY DEF ReviewSet, Row
<1>5. Parked(r) \in Row /\ ParkedForApply(r) \in Row /\ ResumedApply(r) \in Row
  BY DEF Parked, ParkedForApply, ResumedApply, Row, Status, Active
<1>6. \A g \in Nat : BriefAppended(r, g) \in Row
  BY DEF BriefAppended, Row
<1>7. \A outcome : ResultRecorded(r, outcome) \in Row
  BY DEF ResultRecorded, Row, Status, Active
<1>8. \A to \in Terminal, pr \in BOOLEAN : Finished(r, to, pr) \in Row
  BY DEF Finished, Row, Status
<1>9. \A clock : Older(r, clock) \in Row
  BY DEF Older, Row, Beat, Age
<1> QED BY <1>1, <1>2, <1>3, <1>4, <1>5, <1>6, <1>7, <1>8, <1>9

\* A row that is inserted, and a deleted one, are well typed.
LEMMA EmptyTyped ==
  /\ EmptyRow \in Row
  /\ \A r \in Row : Deleted(r) \in Row
  /\ \A status \in Status, phase \in Phase, kind \in Kind, backend \in Backend,
        policy \in Policy, resumed \in BOOLEAN :
       CreateJob(status, phase, kind, backend, policy, resumed) \in Row
<1>1. EmptyRow \in Row
  BY DEF EmptyRow, Row, NoRow, Status, Phase, Kind, Mode, Backend, Fingerprint, Beat, Age, Policy
<1>2. \A r \in Row : Deleted(r) \in Row
  BY <1>1 DEF Deleted, Row, NoRow
<1>3. \A status \in Status, phase \in Phase, kind \in Kind, backend \in Backend,
        policy \in Policy, resumed \in BOOLEAN :
       CreateJob(status, phase, kind, backend, policy, resumed) \in Row
  <2> TAKE status \in Status, phase \in Phase, kind \in Kind, backend \in Backend,
           policy \in Policy, resumed \in BOOLEAN
  <2> DEFINE opened == [EmptyRow EXCEPT !.status = status, !.phase = phase]
             placed == [opened EXCEPT !.kind = kind, !.backend = backend]
  <2>1. opened \in Row
    BY <1>1 DEF Row
  <2>2. placed \in Row
    <3> HIDE DEF opened
    <3> QED BY <2>1 DEF Row
  <2>3. [placed EXCEPT !.policy = policy, !.resumed = resumed] \in Row
    <3> HIDE DEF placed
    <3> QED BY <2>2 DEF Row
  <2> QED BY <2>3 DEF CreateJob
<1> QED BY <1>1, <1>2, <1>3

\* A guarded statement keeps the table well typed.
LEMMA WriteTyped ==
  ASSUME jobs \in [Jobs -> Row], NEW j, NEW guard, NEW new,
         j \in Jobs => new \in Row, Write(j, guard, new)
  PROVE  jobs' \in [Jobs -> Row]
BY DEF Write, Update

(***************************************************************************)
(* Plumbing: the ways a step changes its own local variables.              *)
(***************************************************************************)
\* The rest position of a flow is well typed.
LEMMA IdleTyped == Idle \in GoodProc /\ Idle.pc = "idle" /\ Idle.job = NoJob
<1>0. EmptyRow \in Row
  BY EmptyTyped
<1>1. Idle \in Proc
  BY <1>0 DEF Idle, Proc, Terminal, Pc, LoopPc, NextPc, BackPc, Goal
<1>2. Idle.pc = "idle" /\ Idle.job = NoJob
  BY DEF Idle
<1> QED BY <1>1, <1>2 DEF GoodProc, LoopPc

\* A flow that keeps its job may go on anywhere but to "advance".
LEMMA GotoTyped ==
  ASSUME procs \in [Procs -> GoodProc], NEW p \in Procs, NEW pc \in Pc,
         pc \notin {"advance", "resolve"}, pc \notin LoopPc => procs[p].job \in Jobs, Goto(p, pc)
  PROVE  procs' \in [Procs -> GoodProc]
<1> DEFINE x == [procs[p] EXCEPT !.pc = pc]
<1>1. procs[p] \in Proc
  BY DEF GoodProc
<1>2. x \in Proc /\ x.pc = pc /\ x.job = procs[p].job
  BY <1>1 DEF Proc
<1>3. x \in GoodProc
  BY <1>2 DEF GoodProc
<1>4. procs' = [procs EXCEPT ![p] = x]
  BY DEF Goto
<1> QED BY <1>3, <1>4

LEMMA LeaveTyped ==
  ASSUME procs \in [Procs -> GoodProc], NEW p \in Procs, Leave(p)
  PROVE  procs' \in [Procs -> GoodProc]
BY IdleTyped DEF Leave

\* Calling finalizeDevJob and returning from it.
LEMMA CallFinalizeTyped ==
  ASSUME procs \in [Procs -> GoodProc], NEW p \in Procs, procs[p].job \in Jobs,
         NEW to \in Terminal, NEW pr \in BOOLEAN, NEW next \in NextPc,
         CallFinalize(p, to, pr, next)
  PROVE  procs' \in [Procs -> GoodProc]
<1>1. "fin_read" \in Pc
  BY DEF Pc, FinalizePc
<1> DEFINE x == [procs[p] EXCEPT !.pc = "fin_read", !.to = to, !.pr = pr, !.next = next]
<1>2. procs[p] \in Proc
  BY DEF GoodProc
<1>3. x \in Proc /\ x.pc = "fin_read" /\ x.job = procs[p].job
  BY <1>1, <1>2 DEF Proc
<1>4. x \in GoodProc
  BY <1>3 DEF GoodProc
<1>5. procs' = [procs EXCEPT ![p] = x]
  BY DEF CallFinalize
<1> QED BY <1>4, <1>5

LEMMA ReturnTyped ==
  ASSUME procs \in [Procs -> GoodProc], NEW p \in Procs, procs[p].job \in Jobs, Return(p)
  PROVE  procs' \in [Procs -> GoodProc]
<1>1. procs[p].next \in Pc /\ procs[p].next \notin {"advance", "resolve"} /\ "idle" \in NextPc
  BY DEF GoodProc, Proc, NextPc, Pc, LoopPc, ApplyPc
<1>2. "failed" \in Terminal
  BY DEF Terminal
<1> DEFINE x == [procs[p] EXCEPT !.pc = procs[p].next, !.next = "idle", !.to = "failed",
                                 !.pr = FALSE, !.stop = 0]
<1>3. procs[p] \in Proc
  BY DEF GoodProc
<1>4. x \in Proc /\ x.pc = procs[p].next /\ x.job = procs[p].job
  BY <1>1, <1>2, <1>3 DEF Proc
<1>5. x \in GoodProc
  BY <1>1, <1>4 DEF GoodProc
<1>6. procs' = [procs EXCEPT ![p] = x]
  BY DEF Return
<1> QED BY <1>5, <1>6

\* The tables stay well typed when one row, one runner, one gate or one flow does.
LEMMA FlowTyped ==
  ASSUME procs \in [Procs -> GoodProc], NEW p \in Procs, NEW x \in Proc,
         x.pc \notin LoopPc => x.job \in Jobs, x.pc = "advance" => x.goal \in Phase,
         x.pc = "resolve" => x.goal \in GateDecision,
         procs' = [procs EXCEPT ![p] = x]
  PROVE  procs' \in [Procs -> GoodProc]
BY DEF GoodProc

\* A runner that ends, or goes on, is well typed.
LEMMA RunnerTyped ==
  ASSUME NEW rn \in GoodRunner
  PROVE  /\ Over(rn) \in GoodRunner /\ Torn(rn) \in GoodRunner
         /\ rn.stage \in {"boot", "work", "call"} => [rn EXCEPT !.stage = "call"] \in GoodRunner
         /\ \A phase \in Phase :
              rn.stage = "call" => [rn EXCEPT !.stage = "work", !.phase = phase] \in GoodRunner
BY DEF GoodRunner, Runner, RunnerStage, Over, Torn, Phase

\* A teardown leaves the runners well typed.
LEMMA TearDownTyped ==
  ASSUME runners \in [Claims -> GoodRunner], NEW j, NEW handle, TearDown(j, handle)
  PROVE  runners' \in [Claims -> GoodRunner]
BY RunnerTyped DEF TearDown

\* gates.open leaves the gate table well typed.
LEMMA OpenGateTyped ==
  ASSUME gates \in [GateIds -> GoodGate], NEW j \in Jobs, NEW kind \in GateKind,
         OpenGate(j, kind)
  PROVE  gates' \in [GateIds -> GoodGate]
<1>1. [status |-> "waiting", kind |-> kind, job |-> j] \in GoodGate
  BY DEF GoodGate, Gate, GateStatus
<1> QED BY <1>1 DEF OpenGate

(***************************************************************************)
(* finalizeDevJob.                                                         *)
(***************************************************************************)
LEMMA FinalizeTyped ==
  ASSUME TypeInv, NEW p \in Procs, FinalizeStep(p)
  PROVE  TypeInv'
<1>1. CASE FinalizeRead(p)
  <2>1. procs[p].job \in Jobs /\ JobOf(p).handle \in Nat /\ procs[p] \in Proc
    BY <1>1 DEF TypeInv, FinalizeRead, At, JobOf, GoodProc, LoopPc, Row
  <2>2. CASE Live(JobOf(p))
    <3> DEFINE x == [procs[p] EXCEPT !.pc = "fin_flip", !.stop = JobOf(p).handle]
    <3>1. x \in Proc /\ x.job \in Jobs /\ x.pc \notin {"advance", "resolve"}
      BY <2>1 DEF Proc, Pc, FinalizePc
    <3>2. procs' = [procs EXCEPT ![p] = x]
      BY <1>1, <2>2 DEF FinalizeRead
    <3> HIDE DEF x
    <3> QED BY <1>1, <3>1, <3>2, FlowTyped DEF TypeInv, FinalizeRead
  <2>3. CASE ~Live(JobOf(p))
    BY <1>1, <2>1, <2>3, ReturnTyped DEF TypeInv, FinalizeRead
  <2> QED BY <2>2, <2>3
<1>2. CASE FinalizeFlip(p)
  <2>1. procs[p].job \in Jobs /\ JobOf(p) \in Row /\ procs[p] \in Proc
    BY <1>2 DEF TypeInv, FinalizeFlip, At, JobOf, GoodProc, LoopPc
  <2>2. jobs' \in [Jobs -> Row]
    <3>1. Finished(JobOf(p), procs[p].to, procs[p].pr) \in Row
      BY <2>1, StatementsTyped DEF Proc
    <3> QED BY <1>2, <3>1, WriteTyped DEF TypeInv, FinalizeFlip
  <2>3. CASE CanFinish(JobOf(p))
    <3> DEFINE x == [procs[p] EXCEPT !.pc = "fin_stop",
                       !.stop = HandleToStop(procs[p].stop, JobOf(p).handle)]
    <3>1. HandleToStop(procs[p].stop, JobOf(p).handle) \in Nat
      BY <2>1 DEF HandleToStop, Proc, Row
    <3>2. x \in Proc /\ x.job \in Jobs /\ x.pc \notin {"advance", "resolve"}
      BY <2>1, <3>1 DEF Proc, Pc, FinalizePc
    <3>3. procs' = [procs EXCEPT ![p] = x]
      BY <1>2, <2>3 DEF FinalizeFlip
    <3> HIDE DEF x
    <3> QED BY <1>2, <2>2, <3>2, <3>3, FlowTyped DEF TypeInv, FinalizeFlip
  <2>4. CASE ~CanFinish(JobOf(p))
    BY <1>2, <2>1, <2>2, <2>4, ReturnTyped DEF TypeInv, FinalizeFlip
  <2> QED BY <2>3, <2>4
<1>3. CASE FinalizeStop(p)
  <2>1. procs[p].job \in Jobs
    BY <1>3 DEF TypeInv, FinalizeStop, At, GoodProc, LoopPc
  <2>2. procs' \in [Procs -> GoodProc]
    BY <1>3, <2>1, ReturnTyped DEF TypeInv, FinalizeStop
  <2>3. runners' \in [Claims -> GoodRunner]
    BY <1>3, TearDownTyped DEF TypeInv, FinalizeStop
  <2> QED BY <1>3, <2>2, <2>3 DEF TypeInv, FinalizeStop
<1> QED BY <1>1, <1>2, <1>3 DEF FinalizeStep

(***************************************************************************)
(* The apply.                                                              *)
(***************************************************************************)
\* A flow that works on a job holds a well-typed one.
LEMMA JobTyped ==
  ASSUME TypeInv, NEW p \in Procs, procs[p].pc \notin LoopPc
  PROVE  procs[p].job \in Jobs /\ JobOf(p) \in Row /\ procs[p] \in Proc
BY DEF TypeInv, GoodProc, JobOf

\* An apply that fails calls finalizeDevJob.
LEMMA ApplyFailsTyped ==
  ASSUME TypeInv, NEW p \in Procs, procs[p].job \in Jobs, ApplyFails(p)
  PROVE  procs' \in [Procs -> GoodProc]
BY CallFinalizeTyped DEF TypeInv, ApplyFails, Terminal, NextPc

LEMMA ApplyTyped ==
  ASSUME TypeInv, NEW p \in Procs, ApplyStep(p)
  PROVE  TypeInv'
<1> USE DEF At
<1>0. /\ \A pc \in ApplyPc : pc \notin LoopPc /\ pc \in Pc /\ pc \notin {"advance", "resolve"}
      /\ procs \in [Procs -> GoodProc]
  BY DEF ApplyPc, LoopPc, Pc, TypeInv
<1>1. CASE ApplyLoad(p)
  <2>1. procs[p].job \in Jobs
    BY <1>0, <1>1, JobTyped DEF ApplyLoad, ApplyPc
  <2>2. procs' \in [Procs -> GoodProc]
    BY <1>0, <1>1, <2>1, GotoTyped DEF ApplyLoad, ApplyPc
  <2> QED BY <1>1, <2>2 DEF TypeInv, ApplyLoad
<1>2. CASE ApplyJudge(p)
  <2>1. procs[p].job \in Jobs /\ JobOf(p).policy \in Policy
    BY <1>0, <1>2, JobTyped DEF ApplyJudge, ApplyPc, Row
  <2>2. procs' \in [Procs -> GoodProc]
    <3> DEFINE approved == procs[p].approved \/ ApprovedGate(procs[p].job, "diff_policy")
               verdict == PolicyVerdict(JobOf(p).policy, approved)
    <3>1. verdict \in {"allow", "gate", "deny"}
      BY <2>1 DEF Policy, PolicyVerdict
    <3>2. CASE Goto(p, CASE verdict = "allow" -> "apply_branch"
                         [] verdict = "gate" -> "apply_gate"
                         [] verdict = "deny" -> "apply_exit")
      BY <1>0, <2>1, <3>1, <3>2, GotoTyped DEF ApplyPc
    <3>3. CASE ApplyFails(p)
      BY <2>1, <3>3, ApplyFailsTyped
    <3> QED BY <1>2, <3>2, <3>3 DEF ApplyJudge
  <2> QED BY <1>2, <2>2 DEF TypeInv, ApplyJudge
<1>3. CASE ApplyBranch(p)
  <2>1. procs[p].job \in Jobs
    BY <1>0, <1>3, JobTyped DEF ApplyBranch, ApplyPc
  <2>2. procs' \in [Procs -> GoodProc]
    BY <1>0, <1>3, <2>1, GotoTyped, ApplyFailsTyped DEF ApplyBranch, ApplyPc
  <2>3. forge' \in [Jobs -> [branch : BOOLEAN, prs : Nat]]
    <3> DEFINE own == [forge[procs[p].job] EXCEPT !.branch = TRUE]
    <3>1. own \in [branch : BOOLEAN, prs : Nat]
      BY <2>1 DEF TypeInv
    <3>2. UNCHANGED forge \/ forge' = [forge EXCEPT ![procs[p].job] = own]
      BY <1>3 DEF ApplyBranch
    <3> HIDE DEF own
    <3> QED BY <3>1, <3>2 DEF TypeInv
  <2> QED BY <1>3, <2>2, <2>3 DEF TypeInv, ApplyBranch
<1>4. CASE ApplyPr(p)
  <2>1. procs[p].job \in Jobs
    BY <1>0, <1>4, JobTyped DEF ApplyPr, ApplyPc
  <2>2. procs' \in [Procs -> GoodProc]
    <3>1. ASSUME CallFinalize(p, "done", TRUE, "apply_exit")
          PROVE  procs' \in [Procs -> GoodProc]
      BY <1>0, <2>1, <3>1, CallFinalizeTyped DEF Terminal, NextPc
    <3> QED BY <1>4, <2>1, <3>1, ApplyFailsTyped DEF ApplyPr
  <2>3. forge' \in [Jobs -> [branch : BOOLEAN, prs : Nat]]
    <3> DEFINE own == [forge[procs[p].job] EXCEPT !.prs = forge[procs[p].job].prs + 1]
    <3>1. own \in [branch : BOOLEAN, prs : Nat]
      BY <2>1 DEF TypeInv
    <3>2. UNCHANGED forge \/ forge' = [forge EXCEPT ![procs[p].job] = own]
      BY <1>4 DEF ApplyPr
    <3> HIDE DEF own
    <3> QED BY <3>1, <3>2 DEF TypeInv
  <2> QED BY <1>4, <2>2, <2>3 DEF TypeInv, ApplyPr
<1>5. CASE ApplyGate(p)
  <2>1. procs[p].job \in Jobs
    BY <1>0, <1>5, JobTyped DEF ApplyGate, ApplyPc
  <2>2. procs' \in [Procs -> GoodProc]
    BY <1>0, <1>5, <2>1, GotoTyped DEF ApplyGate, ApplyPc
  <2>3. gates' \in [GateIds -> GoodGate]
    BY <1>5, <2>1, OpenGateTyped DEF TypeInv, ApplyGate, GateKind
  <2> QED BY <1>5, <2>2, <2>3 DEF TypeInv, ApplyGate
<1>6. CASE ApplyPark(p)
  <2>1. procs[p].job \in Jobs /\ JobOf(p) \in Row
    BY <1>0, <1>6, JobTyped DEF ApplyPark, ApplyPc
  <2>2. procs' \in [Procs -> GoodProc]
    BY <1>0, <1>6, <2>1, GotoTyped DEF ApplyPark, ApplyPc
  <2>3. jobs' \in [Jobs -> Row]
    BY <1>6, <2>1, StatementsTyped, WriteTyped DEF TypeInv, ApplyPark
  <2> QED BY <1>6, <2>2, <2>3 DEF TypeInv, ApplyPark
<1>7. CASE ApplyExit(p)
  <2>1. procs' \in [Procs -> GoodProc]
    <3>1. procs[p].back \in BackPc /\ procs[p].todo \in SUBSET Jobs
      BY DEF TypeInv, GoodProc, Proc
    <3> DEFINE back == [Idle EXCEPT !.pc = procs[p].back]
               x == [Idle EXCEPT !.pc = procs[p].back, !.todo = procs[p].todo]
    <3>2. x \in Proc /\ x.pc \in BackPc
      <4>1. Idle \in Proc /\ procs[p].back \in Pc
        BY <3>1, IdleTyped DEF GoodProc, BackPc, Pc, LoopPc
      <4>2. back \in Proc /\ back.pc = procs[p].back
        BY <4>1 DEF Proc
      <4>3. [back EXCEPT !.todo = procs[p].todo] \in Proc
            /\ [back EXCEPT !.todo = procs[p].todo].pc = back.pc
        <5> HIDE DEF back
        <5> QED BY <3>1, <4>2 DEF Proc
      <4>4. [back EXCEPT !.todo = procs[p].todo] = x
        BY <4>1 DEF Proc
      <4> QED BY <3>1, <4>2, <4>3, <4>4
    <3>3. x.pc \in LoopPc /\ x.pc \notin {"advance", "resolve"}
      BY <3>2 DEF BackPc, LoopPc
    <3>4. procs[p].back # "idle" => procs' = [procs EXCEPT ![p] = x]
      BY <1>7 DEF ApplyExit
    <3> HIDE DEF x
    <3>5. CASE procs[p].back # "idle"
      BY <1>0, <3>2, <3>3, <3>4, <3>5, FlowTyped
    <3>6. CASE procs[p].back = "idle"
      BY <1>0, <1>7, <3>6, LeaveTyped DEF ApplyExit
    <3> QED BY <3>5, <3>6
  <2>2. applying' \in [Replicas -> SUBSET Jobs]
    BY <1>7 DEF TypeInv, ApplyExit
  <2> QED BY <1>7, <2>1, <2>2 DEF TypeInv, ApplyExit
<1> QED BY <1>1, <1>2, <1>3, <1>4, <1>5, <1>6, <1>7 DEF ApplyStep

\* An apply is entered for a real job.
LEMMA EnterApplyTyped ==
  ASSUME TypeInv, NEW p \in Procs, NEW j \in Jobs, NEW rep \in Replicas,
         NEW approved \in BOOLEAN, NEW todo \in SUBSET Jobs, NEW back \in BackPc,
         EnterApply(p, j, rep, approved, todo, back)
  PROVE  procs' \in [Procs -> GoodProc] /\ applying' \in [Replicas -> SUBSET Jobs]
<1>1. applying' \in [Replicas -> SUBSET Jobs]
  BY DEF TypeInv, EnterApply
<1>2. procs' \in [Procs -> GoodProc]
  <2> DEFINE x == [procs[p] EXCEPT !.pc = "apply_load", !.job = j, !.at = rep,
                     !.approved = approved, !.todo = todo, !.back = back]
  <2>1. procs[p] \in Proc /\ "apply_load" \in Pc
    BY DEF TypeInv, GoodProc, Pc, ApplyPc
  <2>2. x \in Proc /\ x.job \in Jobs /\ x.pc \notin {"advance", "resolve"}
    BY <2>1 DEF Proc
  <2>3. procs' = [procs EXCEPT ![p] = x]
    BY DEF EnterApply
  <2> HIDE DEF x
  <2> QED BY <2>2, <2>3, FlowTyped DEF TypeInv
<1> QED BY <1>1, <1>2

(***************************************************************************)
(* The worker's loop.                                                      *)
(***************************************************************************)
\* Local variables that start over from Idle, between two jobs.
LEMMA WalkTyped ==
  ASSUME TypeInv, NEW w \in Procs, NEW pc \in LoopPc, NEW after \in LoopPc,
         NEW js \in SUBSET Jobs, Walk(w, pc, after, js)
  PROVE  procs' \in [Procs -> GoodProc]
<1> DEFINE x == [Idle EXCEPT !.pc = IF js = {} THEN after ELSE pc, !.todo = js]
<1>0. (IF js = {} THEN after ELSE pc) \in LoopPc /\ LoopPc \subseteq Pc /\ {"advance", "resolve"} \cap LoopPc = {}
  BY DEF Pc, LoopPc
<1>1. x \in Proc /\ x.pc \in LoopPc /\ x.pc \notin {"advance", "resolve"}
  BY <1>0, IdleTyped DEF GoodProc, Proc
<1>2. procs' = [procs EXCEPT ![w] = x]
  BY DEF Walk
<1> HIDE DEF x
<1> QED BY <1>1, <1>2, FlowTyped DEF TypeInv

LEMMA NextClaimTyped ==
  ASSUME TypeInv, NEW w \in Procs, NextClaim(w)
  PROVE  procs' \in [Procs -> GoodProc]
<1> DEFINE x == [Idle EXCEPT !.pc = "claim", !.slots = procs[w].slots]
<1>0. procs[w].slots \in Int /\ "claim" \in Pc /\ "claim" \in LoopPc
  BY DEF TypeInv, GoodProc, Proc, Pc, LoopPc
<1>1. x \in Proc /\ x.pc = "claim"
  BY <1>0, IdleTyped DEF GoodProc, Proc
<1>2. procs' = [procs EXCEPT ![w] = x]
  BY DEF NextClaim
<1> HIDE DEF x
<1> QED BY <1>0, <1>1, <1>2, FlowTyped DEF TypeInv

LEMMA SweepNextTyped ==
  ASSUME TypeInv, NEW w \in Procs, NEW pc \in NextPc, NEW to \in Terminal,
         NEW after \in LoopPc, SweepNext(w, pc, to, after)
  PROVE  TypeInv'
<1>1. CASE procs[w].todo = {}
  <2>1. after \in Pc /\ after \notin {"advance", "resolve"}
    BY DEF Pc, LoopPc
  <2> QED BY <1>1, <2>1, GotoTyped DEF TypeInv, SweepNext, Unmoved
<1>2. ASSUME NEW j \in procs[w].todo,
             procs' = [procs EXCEPT ![w].pc = "fin_read", ![w].job = j, ![w].to = to,
                        ![w].pr = FALSE, ![w].next = pc, ![w].todo = @ \ {j}]
      PROVE  procs' \in [Procs -> GoodProc]
  <2> DEFINE x == [procs[w] EXCEPT !.pc = "fin_read", !.job = j, !.to = to, !.pr = FALSE,
                     !.next = pc, !.todo = procs[w].todo \ {j}]
  <2>1. procs[w] \in Proc /\ j \in Jobs /\ "fin_read" \in Pc
    BY DEF TypeInv, GoodProc, Proc, Pc, FinalizePc
  <2>2. x \in Proc /\ x.job \in Jobs /\ x.pc \notin {"advance", "resolve"}
    BY <2>1 DEF Proc
  <2>3. procs' = [procs EXCEPT ![w] = x]
    BY <1>2
  <2> HIDE DEF x
  <2> QED BY <2>2, <2>3, FlowTyped DEF TypeInv
<1>3. CASE procs[w].todo # {}
  BY <1>2, <1>3 DEF TypeInv, SweepNext, Unmoved
<1> QED BY <1>1, <1>3

LEMMA TickTyped ==
  ASSUME TypeInv, NEW w \in Replicas, TickStart(w) \/ ApplyNext(w) \/ Enforce(w)
  PROVE  TypeInv'
<1>0. w \in Procs /\ {"apply_next", "wall_list", "wall_next", "stall_list", "stall_next",
                      "reap_list"} \subseteq LoopPc
      /\ {"wall_next", "stall_next"} \subseteq NextPc
      /\ {"budget_exceeded", "stalled"} \subseteq Terminal
  BY DEF Procs, LoopPc, NextPc, Terminal
<1>1. CASE TickStart(w)
  BY <1>0, <1>1, WalkTyped DEF TypeInv, TickStart, Unmoved
<1>2. CASE ApplyNext(w)
  <2>1. CASE procs[w].todo = {}
    <3>1. "wall_list" \in Pc
      BY DEF Pc, LoopPc
    <3> QED BY <1>0, <1>2, <2>1, <3>1, GotoTyped DEF TypeInv, ApplyNext
  <2>2. ASSUME NEW j \in procs[w].todo,
               j \in applying[w] => Walk(w, "apply_next", "wall_list", procs[w].todo \ {j})
                                      /\ UNCHANGED applying,
               j \notin applying[w] =>
                 EnterApply(w, j, w, FALSE, procs[w].todo \ {j}, "apply_next")
        PROVE  procs' \in [Procs -> GoodProc] /\ applying' \in [Replicas -> SUBSET Jobs]
    <3>1. j \in Jobs /\ procs[w].todo \ {j} \in SUBSET Jobs /\ "apply_next" \in BackPc
      BY <1>0 DEF TypeInv, GoodProc, Proc, BackPc
    <3> QED BY <1>0, <2>2, <3>1, WalkTyped, EnterApplyTyped DEF TypeInv
  <2>3. CASE procs[w].todo # {}
    BY <1>2, <2>2, <2>3 DEF TypeInv, ApplyNext
  <2> QED BY <2>1, <2>3
<1>3. CASE WallClockList(w)
  BY <1>0, <1>3, WalkTyped DEF TypeInv, WallClockList, Unmoved
<1>4. CASE WallClockNext(w)
  BY <1>0, <1>4, SweepNextTyped DEF WallClockNext
<1>5. CASE StallList(w)
  BY <1>0, <1>5, WalkTyped DEF TypeInv, StallList, Unmoved
<1>6. CASE StallNext(w)
  BY <1>0, <1>6, SweepNextTyped DEF StallNext
<1> QED BY <1>1, <1>2, <1>3, <1>4, <1>5, <1>6 DEF Enforce

LEMMA ReapTyped ==
  ASSUME TypeInv, NEW w \in Replicas, Reap(w)
  PROVE  TypeInv'
<1>0. w \in Procs /\ {"count", "reap_next"} \subseteq LoopPc /\ LoopPc \subseteq Pc
      /\ {"advance", "resolve"} \cap LoopPc = {} /\ "fin_read" \in Pc /\ "reap_next" \in NextPc
      /\ "stalled" \in Terminal
  BY DEF Procs, LoopPc, Pc, NextPc, FinalizePc, Terminal
<1>1. CASE ReapList(w)
  <2>1. PICK lost \in SUBSET {c \in Claims : Reapable(c)} :
          /\ procs' = [procs EXCEPT ![w] = [Idle EXCEPT !.dead = lost,
                         !.pc = IF lost = {} THEN "count" ELSE "reap_next"]]
          /\ runners' = [c \in Claims |-> IF c \in lost THEN Torn(runners[c]) ELSE runners[c]]
    BY <1>1 DEF ReapList
  <2> DEFINE x == [Idle EXCEPT !.dead = lost,
                     !.pc = IF lost = {} THEN "count" ELSE "reap_next"]
  <2>2. lost \in SUBSET Nat /\ (IF lost = {} THEN "count" ELSE "reap_next") \in LoopPc
    BY <1>0, BoundsAssumption DEF Claims
  <2>3. x \in Proc /\ x.pc \in LoopPc /\ x.pc \notin {"advance", "resolve"}
    BY <1>0, <2>2, IdleTyped DEF GoodProc, Proc
  <2>4. procs' = [procs EXCEPT ![w] = x]
    BY <2>1
  <2> HIDE DEF x
  <2>5. procs' \in [Procs -> GoodProc]
    BY <1>0, <2>3, <2>4, FlowTyped DEF TypeInv
  <2>6. runners' \in [Claims -> GoodRunner]
    BY <2>1, RunnerTyped DEF TypeInv
  <2> QED BY <1>1, <2>5, <2>6 DEF TypeInv, ReapList
<1>2. CASE ReapNext(w)
  <2>1. CASE procs[w].dead = {}
    BY <1>0, <1>2, <2>1, GotoTyped DEF TypeInv, ReapNext, Unmoved
  <2>2. ASSUME NEW c \in procs[w].dead, procs' = [procs EXCEPT ![w].dead = @ \ {c}]
        PROVE  procs' \in [Procs -> GoodProc]
    <3> DEFINE x == [procs[w] EXCEPT !.dead = procs[w].dead \ {c}]
    <3>1. procs[w] \in GoodProc /\ procs[w] \in Proc
      BY <1>0 DEF TypeInv, GoodProc
    <3>2. x \in Proc /\ x.pc = procs[w].pc /\ x.job = procs[w].job /\ x.goal = procs[w].goal
      BY <3>1 DEF Proc
    <3>3. procs' = [procs EXCEPT ![w] = x]
      BY <2>2
    <3> HIDE DEF x
    <3> QED BY <1>0, <3>1, <3>2, <3>3, FlowTyped DEF TypeInv, GoodProc
  <2>3. ASSUME NEW c \in procs[w].dead, NEW j \in HandleOwners(c),
               procs' = [procs EXCEPT ![w].pc = "fin_read", ![w].job = j,
                               ![w].to = "stalled", ![w].pr = FALSE,
                               ![w].next = "reap_next", ![w].dead = @ \ {c}]
        PROVE  procs' \in [Procs -> GoodProc]
    <3> DEFINE x == [procs[w] EXCEPT !.pc = "fin_read", !.job = j, !.to = "stalled",
                       !.pr = FALSE, !.next = "reap_next", !.dead = procs[w].dead \ {c}]
    <3>1. procs[w] \in Proc /\ j \in Jobs
      BY <1>0 DEF TypeInv, GoodProc, HandleOwners
    <3>2. x \in Proc /\ x.job \in Jobs /\ x.pc \notin {"advance", "resolve"}
      BY <1>0, <3>1 DEF Proc
    <3>3. procs' = [procs EXCEPT ![w] = x]
      BY <2>3
    <3> HIDE DEF x
    <3> QED BY <1>0, <3>2, <3>3, FlowTyped DEF TypeInv
  <2>4. CASE procs[w].dead # {}
    BY <1>2, <2>2, <2>3, <2>4 DEF TypeInv, ReapNext, Unmoved
  <2> QED BY <2>1, <2>4
<1> QED BY <1>1, <1>2 DEF Reap

(***************************************************************************)
(* Claiming and provisioning.                                              *)
(***************************************************************************)
LEMMA ClaimTyped ==
  ASSUME TypeInv, NEW w \in Replicas, CountSlots(w) \/ Claim(w) \/ TickEnd(w)
  PROVE  TypeInv'
<1>0. w \in Procs /\ {"claim", "prepare"} \subseteq Pc /\ "claim" \in LoopPc
  BY DEF Procs, Pc, LoopPc, ProvisionPc
<1>1. CASE CountSlots(w)
  <2> DEFINE free == MaxConcurrent - Cardinality(ActiveJobs)
             x == [Idle EXCEPT !.pc = "claim", !.slots = free]
  <2>1. free \in Int
    <3>1. IsFiniteSet(ActiveJobs)
      BY SortsAssumption, FS_Subset DEF ActiveJobs
    <3>2. Cardinality(ActiveJobs) \in Nat
      BY <3>1, FS_CardinalityType
    <3> QED BY <3>2, BoundsAssumption
  <2>2. procs' = [procs EXCEPT ![w] = x]
    BY <1>1 DEF CountSlots
  <2> HIDE DEF free
  <2>3. x \in Proc /\ x.pc = "claim"
    BY <1>0, <2>1, IdleTyped DEF GoodProc, Proc
  <2> HIDE DEF x
  <2>4. procs' \in [Procs -> GoodProc]
    BY <1>0, <2>2, <2>3, FlowTyped DEF TypeInv
  <2> QED BY <1>1, <2>4 DEF TypeInv, CountSlots, Unmoved
<1>2. CASE Claim(w)
  <2>0. claims + 1 \in Nat /\ claims + 1 \in 0..MaxClaims
    <3>1. claims < MaxClaims
      BY <1>2 DEF Claim
    <3>2. claims \in 0..MaxClaims
      BY DEF TypeInv
    <3> QED BY <3>1, <3>2, BoundsAssumption
  <2>1. PICK j \in Jobs :
          /\ Write(j, CanClaim(jobs[j]), Claimed(jobs[j], claims + 1))
          /\ procs' = [procs EXCEPT ![w].pc = "prepare", ![w].job = j,
                         ![w].claim = claims + 1, ![w].slots = @ - 1]
    BY <1>2 DEF Claim
  <2>2. jobs' \in [Jobs -> Row]
    BY <2>0, <2>1, StatementsTyped, WriteTyped DEF TypeInv
  <2> DEFINE x == [procs[w] EXCEPT !.pc = "prepare", !.job = j, !.claim = claims + 1,
                     !.slots = procs[w].slots - 1]
  <2>3. procs[w] \in Proc /\ procs[w].slots - 1 \in Int
    BY <1>0 DEF TypeInv, GoodProc, Proc
  <2>4. x \in Proc /\ x.job \in Jobs /\ x.pc \notin {"advance", "resolve"}
    BY <1>0, <2>0, <2>3 DEF Proc
  <2>5. procs' = [procs EXCEPT ![w] = x]
    BY <2>1
  <2> HIDE DEF x
  <2>6. procs' \in [Procs -> GoodProc]
    BY <1>0, <2>4, <2>5, FlowTyped DEF TypeInv
  <2> QED BY <1>2, <2>0, <2>2, <2>6 DEF TypeInv, Claim
<1>3. CASE TickEnd(w)
  BY <1>0, <1>3, LeaveTyped DEF TypeInv, TickEnd, Unmoved
<1> QED BY <1>1, <1>2, <1>3

LEMMA ProvisionTyped ==
  ASSUME TypeInv, NEW w \in Replicas,
         Prepare(w) \/ Provision(w) \/ Release(w) \/ Attach(w) \/ Orphan(w)
  PROVE  TypeInv'
<1> USE DEF At
<1>0. /\ w \in Procs /\ procs \in [Procs -> GoodProc]
      /\ \A pc \in ProvisionPc : pc \in Pc /\ pc \notin LoopPc /\ pc \notin {"advance", "resolve"}
      /\ "failed" \in Terminal /\ "claim" \in NextPc
  BY DEF Procs, TypeInv, Pc, LoopPc, ProvisionPc, NextPc, Terminal
<1>1. /\ procs[w].job \in Jobs /\ JobOf(w) \in Row /\ procs[w].claim \in Nat
      /\ procs[w].pc \in ProvisionPc
  <2>1. procs[w].pc \in ProvisionPc
    BY DEF Prepare, Provision, Release, Attach, Orphan, ProvisionPc
  <2> QED BY <1>0, <2>1, JobTyped DEF Proc
<1>2. ASSUME CallFinalize(w, "failed", FALSE, "claim")
      PROVE  procs' \in [Procs -> GoodProc]
  BY <1>0, <1>1, <1>2, CallFinalizeTyped
<1>3. CASE Prepare(w)
  <2>1. procs' \in [Procs -> GoodProc]
    BY <1>0, <1>1, <1>2, <1>3, GotoTyped DEF Prepare, ProvisionPc
  <2>2. jobs' \in [Jobs -> Row]
    BY <1>1, <1>3, StatementsTyped, WriteTyped DEF TypeInv, Prepare
  <2> QED BY <1>3, <2>1, <2>2 DEF TypeInv, Prepare
<1>4. CASE Provision(w)
  <2>1. procs' \in [Procs -> GoodProc]
    BY <1>0, <1>1, <1>2, <1>4, GotoTyped
       DEF Provision, Start, Adopt, AtCapacity, Refused, Answered, ProvisionPc
  <2> DEFINE rn == [NoRunner EXCEPT !.stage = "boot", !.shim = Shim(JobOf(w)),
                                    !.job = procs[w].job]
  <2>2. rn \in GoodRunner
    <3>1. NoRunner \in Runner
      BY DEF NoRunner, Runner, RunnerStage, Phase
    <3>2. Shim(JobOf(w)) \in {"phased", "single"}
      BY DEF Shim
    <3>3. rn \in Runner /\ rn.job = procs[w].job
      BY <1>1, <3>1, <3>2 DEF Runner, RunnerStage
    <3> HIDE DEF rn
    <3> QED BY <1>1, <3>3 DEF GoodRunner
  <2>3. runners' = [runners EXCEPT ![procs[w].claim] = rn] \/ UNCHANGED runners
    BY <1>4 DEF Provision, Start, Adopt, AtCapacity, Refused
  <2> HIDE DEF rn
  <2>4. runners' \in [Claims -> GoodRunner]
    BY <2>2, <2>3 DEF TypeInv
  <2>5. jobs' \in [Jobs -> Row]
    <3>1. FetchPolicy(w) \/ UNCHANGED jobs
      BY <1>4 DEF Provision, Start, Adopt, AtCapacity, Refused
    <3>2. Reissued(JobOf(w), procs[w].claim) \in Row
      BY <1>1, StatementsTyped
    <3> QED BY <3>1, <3>2, WriteTyped DEF TypeInv, FetchPolicy
  <2> QED BY <1>4, <2>1, <2>4, <2>5 DEF TypeInv, Provision
<1>5. CASE Release(w)
  <2>1. jobs' \in [Jobs -> Row]
    BY <1>1, <1>5, StatementsTyped, WriteTyped DEF TypeInv, Release
  <2> QED BY <1>0, <1>5, <2>1, NextClaimTyped DEF TypeInv, Release
<1>6. CASE Attach(w)
  <2>1. procs' \in [Procs -> GoodProc]
    BY <1>0, <1>1, <1>6, GotoTyped, NextClaimTyped DEF Attach, ProvisionPc
  <2>2. jobs' \in [Jobs -> Row]
    BY <1>1, <1>6, StatementsTyped, WriteTyped DEF TypeInv, Attach
  <2> QED BY <1>6, <2>1, <2>2 DEF TypeInv, Attach
<1>7. CASE Orphan(w)
  <2>1. runners' \in [Claims -> GoodRunner]
    BY <1>7, TearDownTyped DEF TypeInv, Orphan
  <2> QED BY <1>0, <1>7, <2>1, NextClaimTyped DEF TypeInv, Orphan
<1> QED BY <1>3, <1>4, <1>5, <1>6, <1>7

LEMMA WorkerTyped ==
  ASSUME TypeInv, NEW w \in Replicas, WorkerStep(w)
  PROVE  TypeInv'
BY TickTyped, ReapTyped, ClaimTyped, ProvisionTyped DEF WorkerStep, ClaimAndProvision

(***************************************************************************)
(* The runner API.                                                         *)
(***************************************************************************)
\* Answering a runner.
LEMMA AnswerTyped ==
  ASSUME TypeInv, NEW h \in Procs
  PROVE  /\ \A phase \in Phase : Answer(h, phase) => runners' \in [Claims -> GoodRunner]
         /\ Dismiss(h) => runners' \in [Claims -> GoodRunner]
<1>1. ASSUME NEW phase \in Phase, Answer(h, phase)
      PROVE  runners' \in [Claims -> GoodRunner]
  BY <1>1, RunnerTyped DEF TypeInv, Answer
<1>2. ASSUME Dismiss(h)
      PROVE  runners' \in [Claims -> GoodRunner]
  BY <1>2, RunnerTyped DEF TypeInv, Dismiss
<1> QED BY <1>1, <1>2

\* A runner's call is served on behalf of its job.
LEMMA CallTyped ==
  ASSUME TypeInv, NEW c \in Claims, NEW h \in Handlers, NEW at \in Replicas,
         NEW stage \in {"boot", "work"}, NEW pc \in ReplyPc \ {"advance", "resolve"}, NEW goal \in Goal,
         Call(c, h, at, stage, pc, goal)
  PROVE  TypeInv'
<1>0. h \in Procs /\ c \in Nat /\ pc \in Pc /\ "call" \in RunnerStage
      /\ runners[c] \in GoodRunner /\ runners[c].job \in Jobs /\ RunnerJob(c) \in Row
  BY BoundsAssumption DEF TypeInv, Call, GoodRunner, RunnerJob, Procs, Claims, Pc, RunnerStage
<1>1. CASE Authentic(c) /\ InRun(RunnerJob(c))
  <2>1. runners' \in [Claims -> GoodRunner]
    <3>1. [runners[c] EXCEPT !.stage = "call"] \in GoodRunner
      BY <1>0, RunnerTyped DEF Call
    <3>2. runners' = [runners EXCEPT ![c] = [runners[c] EXCEPT !.stage = "call"]]
      BY <1>1 DEF Call
    <3> QED BY <3>1, <3>2 DEF TypeInv
  <2>2. procs' \in [Procs -> GoodProc]
    <3> DEFINE x == [Idle EXCEPT !.pc = pc, !.at = at, !.claim = c,
                       !.job = runners[c].job, !.row = RunnerJob(c), !.goal = goal]
    <3>1. x \in Proc /\ x.job \in Jobs /\ x.pc \notin {"advance", "resolve"}
      BY <1>0, IdleTyped DEF GoodProc, Proc
    <3>2. procs' = [procs EXCEPT ![h] = x]
      BY <1>1 DEF Call, Serve
    <3> HIDE DEF x
    <3> QED BY <1>0, <3>1, <3>2, FlowTyped DEF TypeInv
  <2> QED BY <2>1, <2>2 DEF TypeInv, Call
<1>2. CASE ~(Authentic(c) /\ InRun(RunnerJob(c)))
  BY <1>0, <1>2, RunnerTyped DEF TypeInv, Call
<1> QED BY <1>1, <1>2

LEMMA RunnerTypedSteps ==
  ASSUME TypeInv, NEW c \in Claims
  PROVE  /\ Heartbeat(c) => TypeInv'
         /\ RunnerCalls(c) => TypeInv'
<1>1. ASSUME Heartbeat(c)
      PROVE  TypeInv'
  <2>1. jobs' \in [Jobs -> Row]
    BY <1>1, StatementsTyped, WriteTyped DEF TypeInv, Heartbeat, RunnerJob
  <2> QED BY <1>1, <2>1 DEF TypeInv, Heartbeat
<1>2. ASSUME NEW h \in Handlers, NEW at \in Replicas, RunnerApiStep(c, h, at)
      PROVE  TypeInv'
  <2>1. /\ {"spec", "result", "phase"} \subseteq ReplyPc \ {"advance", "resolve"}
        /\ "none" \in Goal /\ Outcome \subseteq Goal
    BY DEF ReplyPc, Goal
  <2>2. CASE SpecCall(c, h, at)
    BY <2>1, <2>2, CallTyped DEF SpecCall
  <2>3. CASE ResultCall(c, h, at)
    BY <2>1, <2>3, CallTyped DEF ResultCall
  <2>4. CASE PhaseCall(c, h, at)
    BY <2>1, <2>4, CallTyped DEF PhaseCall
  <2> QED BY <1>2, <2>2, <2>3, <2>4 DEF RunnerApiStep
<1> QED BY <1>1, <1>2 DEF RunnerCalls

\* The decision tables of the pipeline are total: a result of a phase has a
\* transition, a verdict has an action, and neither leaves its range.
Act == {"advance", "retry_implement", "park", "requeue", "fail", "done"}

LEMMA TransitionTyped ==
  ASSUME NEW phase \in Phase, NEW ok \in BOOLEAN, NEW review \in ReviewAction,
         NEW mode \in Mode, NEW kind \in Kind
  PROVE  LET t == ComputeTransition(phase, ok, review, mode, kind)
         IN t.act \in Act /\ t.to \in Phase
<1> DEFINE t == ComputeTransition(phase, ok, review, mode, kind)
<1>1. \A act, to : To(act, to).act = act /\ To(act, to).to = to
  BY DEF To
<1>2. \E act \in Act, to \in Phase : t = To(act, to)
  <2>1. CASE ~ok \/ kind = "analyze"
    BY <2>1 DEF ComputeTransition, Act
  <2>2. CASE ok /\ kind # "analyze" /\ phase = "review"
    BY <2>2 DEF ComputeTransition, AfterReview, ReviewAction, Act, Phase
  <2>3. CASE ok /\ kind # "analyze" /\ phase # "review"
    BY <2>3 DEF ComputeTransition, Act, Phase
  <2> QED BY <2>1, <2>2, <2>3
<1> HIDE DEF t
<1>3. t.act \in Act /\ t.to \in Phase
  BY <1>1, <1>2
<1> QED BY <1>3 DEF t

LEMMA DecideReviewTyped ==
  ASSUME NEW v \in Verdict \cup {Malformed, NoVerdict}, NEW attempt \in Nat,
         NEW previous \in Fingerprint
  PROVE  LET d == DecideReview(v, attempt, previous)
         IN d.action \in ReviewAction /\ d.attempt \in Nat /\ d.fp \in Fingerprint
<1> DEFINE d == DecideReview(v, attempt, previous)
<1>0. v.fp \in Fingerprint
  BY DEF Verdict, Malformed, NoVerdict, Fingerprint
<1>1. \A a, n, f : Judgment(a, n, f).action = a /\ Judgment(a, n, f).attempt = n
                     /\ Judgment(a, n, f).fp = f
  BY DEF Judgment
<1>2. \E a \in ReviewAction, n \in Nat, f \in Fingerprint : d = Judgment(a, n, f)
  <2>1. CASE NormalizedAsk(v) = "approve"
    BY <2>1 DEF DecideReview, ReviewAction
  <2>2. CASE NormalizedAsk(v) # "approve"
    <3>1. attempt + 1 \in Nat
      OBVIOUS
    <3>2. CASE previous = v.fp
      BY <2>2, <3>2 DEF DecideReview, ReviewAction
    <3>3. CASE previous # v.fp /\ attempt >= MAX_REVIEW_ATTEMPTS
      BY <1>0, <2>2, <3>3 DEF DecideReview, ReviewAction
    <3>4. CASE previous # v.fp /\ ~(attempt >= MAX_REVIEW_ATTEMPTS)
      BY <1>0, <2>2, <3>1, <3>4 DEF DecideReview, ReviewAction
    <3> QED BY <3>2, <3>3, <3>4
  <2> QED BY <2>1, <2>2
<1> HIDE DEF d
<1>3. d.action \in ReviewAction /\ d.attempt \in Nat /\ d.fp \in Fingerprint
  BY <1>1, <1>2
<1> QED BY <1>3 DEF d

\* Carrying out a transition.
LEMMA CarryTyped ==
  ASSUME TypeInv, NEW h \in Procs, procs[h].job \in Jobs, NEW t, t.act \in Act, t.to \in Phase,
         Carry(h, t)
  PROVE  procs' \in [Procs -> GoodProc]
<1> DEFINE to == IF t.act = "done" THEN "done" ELSE "failed"
           next == IF PcOf(t.act) = "fin_read" THEN "reply_exit" ELSE "idle"
           x == [procs[h] EXCEPT !.pc = PcOf(t.act), !.goal = t.to, !.to = to, !.next = next]
<1>1. PcOf(t.act) \in Pc /\ PcOf(t.act) # "resolve"
  BY DEF PcOf, Act, Pc, ReplyPc, FinalizePc
<1>2. to \in Terminal /\ next \in NextPc /\ t.to \in Goal /\ procs[h] \in Proc
  BY DEF Terminal, NextPc, Goal, TypeInv, GoodProc
<1>3. procs' = [procs EXCEPT ![h] = x]
  BY DEF Carry
<1> HIDE DEF to, next
<1>4. x \in Proc /\ x.job = procs[h].job /\ x.goal = t.to /\ x.pc = PcOf(t.act)
  BY <1>1, <1>2 DEF Proc
<1> HIDE DEF x
<1> QED BY <1>1, <1>3, <1>4, FlowTyped DEF TypeInv

LEMMA PhaseJudgeTyped ==
  ASSUME TypeInv, NEW h \in Handlers, PhaseJudge(h)
  PROVE  TypeInv'
<1> DEFINE row == procs[h].row
           phase == runners[procs[h].claim].phase
<1>0. h \in Procs /\ procs[h].job \in Jobs /\ JobOf(h) \in Row /\ procs[h] \in Proc /\ row \in Row
  <2>1. h \in Procs /\ procs[h].pc \notin LoopPc
    BY DEF Procs, PhaseJudge, At, LoopPc
  <2> QED BY <2>1, JobTyped DEF Proc
<1>1. CASE phase # row.phase
  <2>1. Dismiss(h) /\ Leave(h) /\ UNCHANGED jobs
    BY <1>1 DEF PhaseJudge
  <2> QED BY <1>0, <2>1, AnswerTyped, LeaveTyped DEF TypeInv, PhaseJudge
<1>2. CASE phase = row.phase
  <2>1. PICK ok \in {FALSE} \cup (IF phase \in Runnable THEN {TRUE} ELSE {}) :
          \E v \in Verdicts(phase, ok) :
            LET d == DecideReview(v, row.attempt, row.fp)
                review == IF v.ask \in {"approve", "request_changes"} THEN d.action ELSE "approve"
            IN /\ Write(procs[h].job, review # "approve" /\ CanSetReview(JobOf(h)),
                        ReviewSet(JobOf(h), d.attempt, d.fp))
               /\ Carry(h, IF v = Malformed THEN To("fail", phase)
                           ELSE ComputeTransition(phase, ok, review, row.mode, row.kind))
    BY <1>2 DEF PhaseJudge
  <2>2. PICK v \in Verdicts(phase, ok) :
            LET d == DecideReview(v, row.attempt, row.fp)
                review == IF v.ask \in {"approve", "request_changes"} THEN d.action ELSE "approve"
            IN /\ Write(procs[h].job, review # "approve" /\ CanSetReview(JobOf(h)),
                        ReviewSet(JobOf(h), d.attempt, d.fp))
               /\ Carry(h, IF v = Malformed THEN To("fail", phase)
                           ELSE ComputeTransition(phase, ok, review, row.mode, row.kind))
    BY <2>1
  <2> DEFINE d == DecideReview(v, row.attempt, row.fp)
             review == IF v.ask \in {"approve", "request_changes"} THEN d.action ELSE "approve"
             t == IF v = Malformed THEN To("fail", phase)
                  ELSE ComputeTransition(phase, ok, review, row.mode, row.kind)
  <2>3. /\ row.attempt \in Nat /\ row.fp \in Fingerprint /\ row.phase \in Phase
        /\ row.mode \in Mode /\ row.kind \in Kind
    BY <1>0 DEF Row
  <2>4. v \in Verdict \cup {Malformed, NoVerdict}
    BY DEF Verdicts
  <2>5. d.action \in ReviewAction /\ d.attempt \in Nat /\ d.fp \in Fingerprint
    BY <2>3, <2>4, DecideReviewTyped
  <2>6. Write(procs[h].job, review # "approve" /\ CanSetReview(JobOf(h)),
              ReviewSet(JobOf(h), d.attempt, d.fp)) /\ Carry(h, t)
    BY <2>2
  <2> HIDE DEF d
  <2>7. review \in ReviewAction
    BY <2>5 DEF ReviewAction
  <2> HIDE DEF review
  <2>8. jobs' \in [Jobs -> Row]
    BY <1>0, <2>5, <2>6, StatementsTyped, WriteTyped DEF TypeInv
  <2>9. t.act \in Act /\ t.to \in Phase
    <3>1. phase \in Phase /\ ok \in BOOLEAN
      BY <1>2, <2>1, <2>3
    <3>2. CASE v = Malformed
      BY <3>1, <3>2 DEF To, Act
    <3>3. CASE v # Malformed
      BY <2>3, <2>7, <3>1, <3>3, TransitionTyped
    <3> QED BY <3>2, <3>3
  <2> HIDE DEF t
  <2>10. procs' \in [Procs -> GoodProc]
    BY <1>0, <2>6, <2>9, CarryTyped
  <2>11. UNCHANGED <<gates, claims, forge, applying, crashes, runners>>
    BY <1>2 DEF PhaseJudge
  <2> QED BY <2>8, <2>10, <2>11 DEF TypeInv
<1> QED BY <1>1, <1>2

LEMMA ReplyTyped ==
  ASSUME TypeInv, NEW h \in Handlers, ReplyStep(h)
  PROVE  TypeInv'
<1> USE DEF At
<1>0. /\ h \in Procs /\ procs \in [Procs -> GoodProc]
      /\ \A pc \in ReplyPc \cup {"reply_exit"} : pc \in Pc /\ pc \notin LoopPc
      /\ {"failed", "done"} \subseteq Terminal /\ "reply_exit" \in NextPc
  BY DEF Procs, TypeInv, Pc, LoopPc, ReplyPc, NextPc, Terminal
<1>1. /\ procs[h].job \in Jobs /\ JobOf(h) \in Row /\ procs[h].row \in Row
      /\ procs[h].pc \in ReplyPc \cup {"reply_exit"}
  <2>1. procs[h].pc \in ReplyPc \cup {"reply_exit"}
    BY DEF ReplyStep, SpecReply, ResultRecord, ReplyExit, PhaseJudge, PhaseAdvance,
           ParkAdvance, ParkOpen, ParkRow, ReplyPc
  <2> QED BY <1>0, <2>1, JobTyped DEF Proc
<1>2. CASE SpecReply(h)
  <2>1. jobs' \in [Jobs -> Row]
    BY <1>1, <1>2, StatementsTyped, WriteTyped DEF TypeInv, SpecReply
  <2>2. runners' \in [Claims -> GoodRunner]
    BY <1>0, <1>1, <1>2, AnswerTyped DEF SpecReply, Row
  <2> QED BY <1>0, <1>2, <2>1, <2>2, LeaveTyped DEF TypeInv, SpecReply
<1>3. CASE ResultRecord(h)
  <2>1. jobs' \in [Jobs -> Row]
    BY <1>1, <1>3, StatementsTyped, WriteTyped DEF TypeInv, ResultRecord
  <2>2. procs' \in [Procs -> GoodProc]
    BY <1>0, <1>1, <1>3, LeaveTyped, CallFinalizeTyped DEF ResultRecord
  <2>3. runners' \in [Claims -> GoodRunner]
    BY <1>0, <1>3, AnswerTyped DEF TypeInv, ResultRecord
  <2> QED BY <1>3, <2>1, <2>2, <2>3 DEF TypeInv, ResultRecord
<1>4. CASE ReplyExit(h)
  BY <1>0, <1>4, AnswerTyped, LeaveTyped DEF TypeInv, ReplyExit
<1>5. CASE PhaseJudge(h)
  BY <1>5, PhaseJudgeTyped
<1>6. CASE PhaseAdvance(h)
  <2>1. procs[h].goal \in Phase
    BY <1>0, <1>6 DEF PhaseAdvance, GoodProc
  <2>2. jobs' \in [Jobs -> Row]
    BY <1>1, <1>6, <2>1, StatementsTyped, WriteTyped DEF TypeInv, PhaseAdvance
  <2>3. runners' \in [Claims -> GoodRunner]
    BY <1>0, <1>6, <2>1, AnswerTyped DEF PhaseAdvance
  <2> QED BY <1>0, <1>6, <2>2, <2>3, LeaveTyped DEF TypeInv, PhaseAdvance
<1>7. CASE ParkAdvance(h)
  <2>1. jobs' \in [Jobs -> Row]
    BY <1>1, <1>7, StatementsTyped, WriteTyped DEF TypeInv, ParkAdvance, Phase
  <2>2. procs' \in [Procs -> GoodProc] /\ runners' \in [Claims -> GoodRunner]
    BY <1>0, <1>1, <1>7, GotoTyped, LeaveTyped, AnswerTyped DEF TypeInv, ParkAdvance, ReplyPc
  <2> QED BY <1>7, <2>1, <2>2 DEF TypeInv, ParkAdvance
<1>8. CASE ParkOpen(h)
  <2>1. procs' \in [Procs -> GoodProc]
    BY <1>0, <1>1, <1>8, GotoTyped DEF ParkOpen, ReplyPc
  <2>2. gates' \in [GateIds -> GoodGate]
    BY <1>1, <1>8, OpenGateTyped DEF TypeInv, ParkOpen, GateKind
  <2> QED BY <1>8, <2>1, <2>2 DEF TypeInv, ParkOpen
<1>9. CASE ParkRow(h)
  <2>1. procs' \in [Procs -> GoodProc]
    BY <1>0, <1>1, <1>9, GotoTyped DEF ParkRow
  <2>2. jobs' \in [Jobs -> Row]
    BY <1>1, <1>9, StatementsTyped, WriteTyped DEF TypeInv, ParkRow
  <2> QED BY <1>9, <2>1, <2>2 DEF TypeInv, ParkRow
<1> QED BY <1>2, <1>3, <1>4, <1>5, <1>6, <1>7, <1>8, <1>9 DEF ReplyStep

(***************************************************************************)
(* The gates and the operator's routes.                                    *)
(***************************************************************************)
\* A compare-and-swap on a gate.
LEMMA FlipGateTyped ==
  ASSUME gates \in [GateIds -> GoodGate], NEW g,
         NEW status \in GateStatus, FlipGate(g, status)
  PROVE  gates' \in [GateIds -> GoodGate]
BY DEF FlipGate, GoodGate, Gate

LEMMA GateArrivalTyped ==
  ASSUME TypeInv, NEW h \in Handlers, NEW g \in GateIds, NEW at \in Replicas,
         GateArrival(h, g, at)
  PROVE  TypeInv'
<1>0. /\ h \in Procs /\ g \in Nat /\ "cancelled" \in Terminal /\ "leave" \in NextPc
      /\ {"resolve", "fin_read"} \subseteq Pc /\ GateDecision \subseteq Goal
  BY BoundsAssumption DEF Procs, GateIds, Terminal, NextPc, Pc, GatePc, FinalizePc, Goal
<1>1. CASE Resolve(h, g, at)
  <2>1. PICK decision \in GateDecision :
          procs' = [procs EXCEPT ![h] = [Idle EXCEPT !.pc = "resolve", !.at = at,
                      !.gate = g, !.job = gates[g].job, !.goal = decision]]
    BY <1>1 DEF Resolve
  <2> DEFINE x == [Idle EXCEPT !.pc = "resolve", !.at = at, !.gate = g,
                     !.job = gates[g].job, !.goal = decision]
  <2>2. gates[g].job \in Jobs
    BY <1>1 DEF TypeInv, Resolve, GoodGate, GateDecision
  <2>3. x \in Proc /\ x.job \in Jobs /\ x.pc = "resolve" /\ x.goal \in GateDecision
    BY <1>0, <2>2, IdleTyped DEF GoodProc, Proc
  <2>4. procs' = [procs EXCEPT ![h] = x]
    BY <2>1
  <2> HIDE DEF x
  <2>5. procs' \in [Procs -> GoodProc]
    BY <1>0, <2>3, <2>4, FlowTyped DEF TypeInv
  <2> QED BY <1>1, <2>5 DEF TypeInv, Resolve
<1>2. CASE GateExpires(h, g, at)
  <2> DEFINE x == [Idle EXCEPT !.pc = "fin_read", !.at = at, !.gate = g,
                     !.job = gates[g].job, !.to = "cancelled", !.next = "leave"]
  <2>1. gates[g].job \in Jobs
    BY <1>2 DEF TypeInv, GateExpires, GoodGate
  <2>2. x \in Proc /\ x.job \in Jobs /\ x.pc \notin {"advance", "resolve"}
    BY <1>0, <2>1, IdleTyped DEF GoodProc, Proc
  <2>3. procs' = [procs EXCEPT ![h] = x]
    BY <1>2 DEF GateExpires
  <2> HIDE DEF x
  <2>4. procs' \in [Procs -> GoodProc]
    BY <1>0, <2>2, <2>3, FlowTyped DEF TypeInv
  <2>5. gates' \in [GateIds -> GoodGate]
    BY <1>2, FlipGateTyped DEF TypeInv, GateExpires, GateStatus
  <2> QED BY <1>2, <2>4, <2>5 DEF TypeInv, GateExpires
<1> QED BY <1>1, <1>2 DEF GateArrival

LEMMA GateStepTyped ==
  ASSUME TypeInv, NEW h \in Handlers, GateStep(h)
  PROVE  TypeInv'
<1> USE DEF At
<1>0. /\ h \in Procs /\ procs \in [Procs -> GoodProc]
      /\ \A pc \in GatePc \cup ApplyPc \cup {"leave"} :
           pc \in Pc /\ pc \notin LoopPc /\ (pc # "resolve" => pc \notin {"advance", "resolve"})
      /\ "cancelled" \in Terminal /\ "leave" \in NextPc
  BY DEF Procs, TypeInv, Pc, LoopPc, GatePc, ApplyPc, NextPc, Terminal
<1>1. /\ procs[h].job \in Jobs /\ JobOf(h) \in Row /\ procs[h] \in Proc
      /\ procs[h].pc \in GatePc \cup ApplyPc \cup {"leave"}
  <2>1. procs[h].pc \in GatePc \cup ApplyPc \cup {"leave"}
    BY DEF GateStep, ResolveFlip, ResolveStuck, DriveBrief, DriveRequeue, ResumeGuard,
           ResumeFlip, HandlerEnd, GatePc, ApplyPc
  <2> QED BY <1>0, <2>1, JobTyped
<1>2. \A status, kind : DrivePc(status, kind) \in {"resume_guard", "brief"}
  BY DEF DrivePc
<1>3. CASE ResolveFlip(h)
  <2>1. gates' \in [GateIds -> GoodGate]
    <3>1. procs[h].goal \in GateStatus
      BY <1>0, <1>3 DEF ResolveFlip, GoodProc, GateDecision, GateStatus
    <3> QED BY <1>3, <3>1, FlipGateTyped DEF TypeInv, ResolveFlip
  <2>2. CASE GateOf(h).status = "waiting"
    <3>1. Goto(h, DrivePc(procs[h].goal, GateOf(h).kind))
      BY <1>3, <2>2 DEF ResolveFlip, GateDecision
    <3>2. procs' \in [Procs -> GoodProc]
      BY <1>0, <1>1, <1>2, <3>1, GotoTyped DEF GatePc
    <3> QED BY <1>3, <2>1, <3>2 DEF TypeInv, ResolveFlip
  <2>3. CASE GateOf(h).status \in GateDecision
    <3> DEFINE x == [procs[h] EXCEPT !.pc = "resolve_stuck", !.goal = GateOf(h).status]
    <3>1. procs' = [procs EXCEPT ![h] = x]
      BY <1>3, <2>3 DEF ResolveFlip, GateDecision
    <3>2. GateOf(h).status \in Goal /\ "resolve_stuck" \in Pc
      BY <2>3 DEF Goal, Pc, GatePc
    <3>3. x \in Proc /\ x.job \in Jobs /\ x.pc \notin {"advance", "resolve"}
      BY <1>1, <3>2 DEF Proc
    <3> HIDE DEF x
    <3>4. procs' \in [Procs -> GoodProc]
      BY <1>0, <3>1, <3>3, FlowTyped
    <3> QED BY <1>3, <2>1, <3>4 DEF TypeInv, ResolveFlip
  <2>4. CASE GateOf(h).status \notin {"waiting"} \cup GateDecision
    <3>1. Leave(h)
      BY <1>3, <2>4 DEF ResolveFlip
    <3> QED BY <1>0, <1>3, <2>1, <3>1, LeaveTyped DEF TypeInv, ResolveFlip
  <2> QED BY <2>2, <2>3, <2>4
<1>4. CASE ResolveStuck(h)
  <2>1. procs' \in [Procs -> GoodProc]
    BY <1>0, <1>1, <1>2, <1>4, GotoTyped, LeaveTyped DEF ResolveStuck, GatePc
  <2> QED BY <1>4, <2>1 DEF TypeInv, ResolveStuck
<1>5. CASE DriveBrief(h)
  <2>1. jobs' \in [Jobs -> Row]
    BY <1>1, <1>5, StatementsTyped, WriteTyped DEF TypeInv, DriveBrief, Proc
  <2>2. procs' \in [Procs -> GoodProc]
    BY <1>0, <1>1, <1>5, GotoTyped, CallFinalizeTyped DEF DriveBrief, GatePc
  <2> QED BY <1>5, <2>1, <2>2 DEF TypeInv, DriveBrief
<1>6. CASE DriveRequeue(h)
  <2>1. jobs' \in [Jobs -> Row]
    BY <1>1, <1>6, StatementsTyped, WriteTyped DEF TypeInv, DriveRequeue, Phase
  <2> QED BY <1>0, <1>6, <2>1, LeaveTyped DEF TypeInv, DriveRequeue
<1>7. CASE ResumeGuard(h)
  <2>1. procs' \in [Procs -> GoodProc]
    BY <1>0, <1>1, <1>7, GotoTyped, LeaveTyped DEF ResumeGuard, ApplyPc
  <2>2. applying' \in [Replicas -> SUBSET Jobs]
    BY <1>1, <1>7 DEF TypeInv, ResumeGuard
  <2> QED BY <1>7, <2>1, <2>2 DEF TypeInv, ResumeGuard
<1>8. CASE ResumeFlip(h)
  <2>1. jobs' \in [Jobs -> Row]
    BY <1>1, <1>8, StatementsTyped, WriteTyped DEF TypeInv, ResumeFlip
  <2>2. procs' \in [Procs -> GoodProc]
    <3> DEFINE x == [procs[h] EXCEPT !.pc = "apply_load", !.approved = TRUE]
    <3>1. x \in Proc /\ x.job \in Jobs /\ x.pc \notin {"advance", "resolve"}
      BY <1>0, <1>1 DEF Proc, ApplyPc
    <3>2. CanResumeApply(JobOf(h)) => procs' = [procs EXCEPT ![h] = x]
      BY <1>8 DEF ResumeFlip
    <3> HIDE DEF x
    <3>3. CASE CanResumeApply(JobOf(h))
      BY <1>0, <3>1, <3>2, <3>3, FlowTyped
    <3>4. CASE ~CanResumeApply(JobOf(h))
      BY <1>0, <1>1, <1>8, <3>4, GotoTyped DEF ResumeFlip, ApplyPc
    <3> QED BY <3>3, <3>4
  <2> QED BY <1>8, <2>1, <2>2 DEF TypeInv, ResumeFlip
<1>9. CASE HandlerEnd(h)
  BY <1>0, <1>9, LeaveTyped DEF TypeInv, HandlerEnd
<1> QED BY <1>3, <1>4, <1>5, <1>6, <1>7, <1>8, <1>9 DEF GateStep

\* The job a request names becomes the job of its handler.
LEMMA BeginTyped ==
  ASSUME TypeInv, NEW h \in Handlers, NEW at \in Replicas, NEW j \in Jobs,
         Begin(h, at, "held_open", j)
  PROVE  procs' \in [Procs -> GoodProc]
<1> DEFINE x == [Idle EXCEPT !.pc = "held_open", !.at = at, !.job = j]
<1>1. h \in Procs /\ "held_open" \in Pc
  BY DEF Procs, Pc, GatePc
<1>2. x \in Proc /\ x.job \in Jobs /\ x.pc \notin {"advance", "resolve"}
  BY <1>1, IdleTyped DEF GoodProc, Proc
<1>3. procs' = [procs EXCEPT ![h] = x]
  BY DEF Begin
<1> HIDE DEF x
<1> QED BY <1>1, <1>2, <1>3, FlowTyped DEF TypeInv

LEMMA AdminTyped ==
  ASSUME TypeInv
  PROVE  /\ \A j \in Jobs : Create(j) \/ Delete(j) => TypeInv'
         /\ \A j, k \in Jobs : Retry(j, k) => TypeInv'
         /\ \A h \in Handlers, at \in Replicas, j \in Jobs : AdminArrival(h, j, at) => TypeInv'
<1>0. {"queued", "waiting"} \subseteq Status /\ {"analyze", "await_human"} \subseteq Phase
  BY DEF Status, Phase
<1>1. ASSUME NEW j \in Jobs, Create(j)
      PROVE  TypeInv'
  <2>1. jobs' \in [Jobs -> Row]
    <3>1. PICK kind \in Kinds, backend \in Backends, policy \in Policies :
            Insert(j, CreateJob("queued", "analyze", kind, backend, policy, FALSE))
      BY <1>1 DEF Create
    <3>2. CreateJob("queued", "analyze", kind, backend, policy, FALSE) \in Row
      BY <1>0, EmptyTyped, SortsAssumption
    <3> QED BY <3>1, <3>2 DEF TypeInv, Insert
  <2> QED BY <1>1, <2>1 DEF TypeInv, Create
<1>2. ASSUME NEW j \in Jobs, Delete(j)
      PROVE  TypeInv'
  <2>1. jobs' \in [Jobs -> Row]
    BY <1>2, EmptyTyped, WriteTyped DEF TypeInv, Delete
  <2>2. gates' \in [GateIds -> GoodGate]
    <3>1. NoGate \in Gate
      BY DEF NoGate, Gate, GateStatus, GateKind
    <3>2. [NoGate EXCEPT !.status = "deleted"] \in GoodGate
      BY <3>1 DEF GoodGate, Gate, GateStatus
    <3> QED BY <1>2, <3>2 DEF TypeInv, Delete
  <2> QED BY <1>2, <2>1, <2>2 DEF TypeInv, Delete
<1>3. ASSUME NEW j \in Jobs, NEW k \in Jobs, Retry(j, k)
      PROVE  TypeInv'
  <2>1. jobs[j].phase \in Phase /\ jobs[j].kind \in Kind /\ jobs[j].backend \in Backend
    BY DEF TypeInv, Row
  <2>2. PICK resume \in BOOLEAN, policy \in Policies :
          Insert(k, CreateJob("queued", IF resume THEN jobs[j].phase ELSE "analyze",
                              jobs[j].kind, jobs[j].backend, policy, resume))
    BY <1>3 DEF Retry
  <2>3. jobs' \in [Jobs -> Row]
    BY <1>0, <2>1, <2>2, EmptyTyped, SortsAssumption DEF TypeInv, Insert
  <2> QED BY <1>3, <2>3 DEF TypeInv, Retry
<1>4. ASSUME NEW h \in Handlers, NEW at \in Replicas, NEW j \in Jobs, CreateHeld(h, j, at)
      PROVE  TypeInv'
  <2>1. jobs' \in [Jobs -> Row]
    <3>1. PICK kind \in Kinds, backend \in Backends \ {"local"}, policy \in Policies :
            Insert(j, CreateJob("waiting", "await_human", kind, backend, policy, FALSE))
      BY <1>4 DEF CreateHeld
    <3>2. CreateJob("waiting", "await_human", kind, backend, policy, FALSE) \in Row
      BY <1>0, EmptyTyped, SortsAssumption
    <3> QED BY <3>1, <3>2 DEF TypeInv, Insert
  <2> QED BY <1>4, <2>1, BeginTyped DEF TypeInv, CreateHeld
<1>5. ASSUME NEW h \in Handlers, NEW at \in Replicas, NEW j \in Jobs, Cancel(h, j, at)
      PROVE  TypeInv'
  <2> DEFINE x == [Idle EXCEPT !.pc = "fin_read", !.at = at, !.job = j,
                     !.to = "cancelled", !.next = "leave"]
  <2>1. h \in Procs /\ "fin_read" \in Pc /\ "cancelled" \in Terminal /\ "leave" \in NextPc
    BY DEF Procs, Pc, FinalizePc, Terminal, NextPc
  <2>2. x \in Proc /\ x.job \in Jobs /\ x.pc \notin {"advance", "resolve"}
    BY <2>1, IdleTyped DEF GoodProc, Proc
  <2>3. procs' = [procs EXCEPT ![h] = x]
    BY <1>5 DEF Cancel
  <2> HIDE DEF x
  <2>4. procs' \in [Procs -> GoodProc]
    BY <2>1, <2>2, <2>3, FlowTyped DEF TypeInv
  <2> QED BY <1>5, <2>4 DEF TypeInv, Cancel
<1>6. ASSUME NEW h \in Handlers, NEW at \in Replicas, NEW j \in Jobs, Apply(h, j, at)
      PROVE  TypeInv'
  <2>1. h \in Procs /\ "idle" \in BackPc /\ {} \in SUBSET Jobs
    BY DEF Procs, BackPc
  <2> QED BY <1>6, <2>1, EnterApplyTyped DEF TypeInv, Apply
<1> QED BY <1>1, <1>2, <1>3, <1>4, <1>5, <1>6 DEF AdminArrival

LEMMA HeldOpenTyped ==
  ASSUME TypeInv, NEW h \in Handlers, HeldOpen(h)
  PROVE  TypeInv'
<1>1. h \in Procs /\ procs[h].pc \notin LoopPc
  BY DEF Procs, HeldOpen, At, LoopPc
<1>2. gates' \in [GateIds -> GoodGate]
  BY <1>1, JobTyped, OpenGateTyped DEF TypeInv, HeldOpen, GateKind
<1> QED BY <1>1, <1>2, LeaveTyped DEF TypeInv, HeldOpen

(***************************************************************************)
(* The environment, and the theorem.                                       *)
(***************************************************************************)
LEMMA EnvironmentTyped ==
  ASSUME TypeInv, Environment
  PROVE  TypeInv'
<1>1. ASSUME NEW j \in Jobs, NEW clock \in Clocks, TimePasses(j, clock)
      PROVE  TypeInv'
  <2>1. jobs' \in [Jobs -> Row]
    BY <1>1, StatementsTyped DEF TypeInv, TimePasses
  <2> QED BY <1>1, <2>1 DEF TypeInv, TimePasses
<1>2. ASSUME NEW c \in Claims, RunnerDies(c)
      PROVE  TypeInv'
  <2>1. runners' \in [Claims -> GoodRunner]
    BY <1>2, RunnerTyped DEF TypeInv, RunnerDies
  <2> QED BY <1>2, <2>1 DEF TypeInv, RunnerDies
<1>4. ASSUME NEW c \in Claims, Reclaimed(c)
      PROVE  TypeInv'
  <2>1. runners' \in [Claims -> GoodRunner]
    BY <1>4, RunnerTyped DEF TypeInv, Reclaimed
  <2> QED BY <1>4, <2>1 DEF TypeInv, Reclaimed
<1>3. ASSUME NEW r \in Replicas, Crash(r)
      PROVE  TypeInv'
  <2>1. procs' \in [Procs -> GoodProc]
    BY <1>3, IdleTyped DEF TypeInv, Crash
  <2>2. runners' \in [Claims -> GoodRunner]
    BY <1>3, RunnerTyped DEF TypeInv, Crash
  <2>3. applying' \in [Replicas -> SUBSET Jobs]
    BY <1>3 DEF TypeInv, Crash
  <2>4. crashes' \in 0..MaxCrashes
    <3>1. crashes < MaxCrashes /\ crashes' = crashes + 1
      BY <1>3 DEF Crash
    <3>2. crashes \in 0..MaxCrashes
      BY DEF TypeInv
    <3> QED BY <3>1, <3>2, BoundsAssumption
  <2> QED BY <1>3, <2>1, <2>2, <2>3, <2>4 DEF TypeInv, Crash
<1> QED BY <1>1, <1>2, <1>3, <1>4 DEF Environment

LEMMA InitTyped ==
  ASSUME Init
  PROVE  TypeInv
<1>1. jobs \in [Jobs -> Row]
  BY EmptyTyped DEF Init
<1>2. gates \in [GateIds -> GoodGate]
  <2>1. NoGate \in GoodGate
    BY DEF NoGate, GoodGate, Gate, GateStatus, GateKind
  <2> QED BY <2>1 DEF Init
<1>3. runners \in [Claims -> GoodRunner]
  <2>1. NoRunner \in GoodRunner
    BY DEF NoRunner, GoodRunner, Runner, RunnerStage, Phase
  <2> QED BY <2>1 DEF Init
<1>4. procs \in [Procs -> GoodProc]
  BY IdleTyped DEF Init
<1>5. claims \in 0..MaxClaims /\ crashes \in 0..MaxCrashes
  BY BoundsAssumption DEF Init
<1> QED BY <1>1, <1>2, <1>3, <1>4, <1>5 DEF Init, TypeInv

LEMMA NextTyped ==
  ASSUME TypeInv, [Next]_vars
  PROVE  TypeInv'
<1>1. CASE \E w \in Replicas : WorkerFlow(w)
  <2>1. Replicas \subseteq Procs
    BY DEF Procs
  <2> QED BY <1>1, <2>1, WorkerTyped, ApplyTyped, FinalizeTyped DEF WorkerFlow, FlowStep
<1>2. CASE \E h \in Handlers : HandlerStep(h)
  <2>1. Handlers \subseteq Procs
    BY DEF Procs
  <2> QED BY <1>2, <2>1, ApplyTyped, FinalizeTyped, ReplyTyped, GateStepTyped, HeldOpenTyped
          DEF HandlerStep, FlowStep
<1>3. CASE \E c \in Claims : RunnerCalls(c) \/ Heartbeat(c)
  BY <1>3, RunnerTypedSteps
<1>4. CASE People
  BY <1>4, AdminTyped, GateArrivalTyped DEF People
<1>5. CASE Environment
  BY <1>5, EnvironmentTyped
<1>6. CASE UNCHANGED vars
  BY <1>6 DEF TypeInv, vars
<1> QED BY <1>1, <1>2, <1>3, <1>4, <1>5, <1>6 DEF Next

\* TypeInv holds of every reachable state.
THEOREM TypesHold == Spec => []TypeInv
<1>1. Init => TypeInv
  BY InitTyped
<1>2. TypeInv /\ [Next]_vars => TypeInv'
  BY NextTyped
<1> QED BY <1>1, <1>2, PTL DEF Spec

\* Every variable keeps its type, whatever the workers, runners, people, clocks
\* and crashes do: the type invariant of all runs.
THEOREM TypeCorrect == Spec => []TypeOK
<1>1. TypeInv => TypeOK
  BY DEF TypeInv, TypeOK, GoodProc, GoodRunner, GoodGate
<1> QED BY <1>1, TypesHold, PTL
=============================================================================
