---------------------------- MODULE DevJobFencing ----------------------------
(***************************************************************************)
(* Who may act for a job: at any time the row's lease, the worker that     *)
(* provisions under it, the runner that was started with it and the        *)
(* handler that serves that runner are of one claim, and what older claims *)
(* left behind has nothing more to say.                                    *)
(***************************************************************************)
EXTENDS DevJobSteps

(***************************************************************************)
(* Claims, numbered: a worker that has not started its runner yet is alone *)
(* with its claim.                                                         *)
(***************************************************************************)
EarlyPc == {"prepare", "provision", "release"}
Early(w) == procs[w].pc \in EarlyPc

Numbered ==
  /\ \A w \in Replicas : Early(w) =>
       procs[w].claim \in Claims /\ procs[w].claim <= claims /\ ~Started(procs[w].claim)
  /\ \A w, v \in Replicas : Early(w) /\ Early(v) /\ procs[w].claim = procs[v].claim => w = v
  /\ \A c \in Claims : Started(c) => c <= claims

\* Where an apply goes.
LEMMA ApplyMoves ==
  ASSUME TypeInv, NEW p \in Procs, Applies(p)
  PROVE  procs'[p].pc \in {"apply_judge", "apply_branch", "apply_pr", "apply_gate", "apply_park",
                          "apply_exit", "fin_read"}
<1>0. procs \in [Procs -> Proc]
  BY DEF TypeInv, GoodProc
<1>1. \A pc : Goto(p, pc) => procs'[p].pc = pc
  BY <1>0 DEF Goto, Proc
<1>2. ApplyFails(p) => procs'[p].pc = "fin_read"
  BY <1>0 DEF ApplyFails, CallFinalize, Proc
<1>3. CASE ApplyJudge(p)
  <2>1. procs[p].pc \notin LoopPc
    BY <1>3 DEF ApplyJudge, At, LoopPc
  <2>2. \A approved \in BOOLEAN : PolicyVerdict(JobOf(p).policy, approved) \in {"allow", "gate", "deny"}
    BY <2>1, JobTyped DEF PolicyVerdict, Row, Policy
  <2>3. (procs[p].approved \/ ApprovedGate(procs[p].job, "diff_policy")) \in BOOLEAN
    BY <1>0 DEF Proc, ApprovedGate
  <2>4. Goto(p, "apply_branch") \/ Goto(p, "apply_gate") \/ Goto(p, "apply_exit") \/ ApplyFails(p)
    BY <1>3, <2>2, <2>3 DEF ApplyJudge
  <2> QED BY <1>1, <1>2, <2>4
<1>4. CASE ApplyLoad(p)
  BY <1>1, <1>4 DEF ApplyLoad
<1>5. CASE ApplyBranch(p) \/ ApplyGate(p) \/ ApplyPark(p)
  BY <1>1, <1>2, <1>5 DEF ApplyBranch, ApplyGate, ApplyPark
<1> QED BY <1>3, <1>4, <1>5 DEF Applies

\* Where a decision goes.
LEMMA DecideMoves ==
  ASSUME TypeInv, NEW h \in Procs, Decides(h)
  PROVE  procs'[h].pc \in {"idle", "resolve_stuck", "brief", "requeue", "resume_guard", "resume",
                          "apply_load", "apply_exit", "fin_read"}
<1>0. procs \in [Procs -> Proc] /\ Idle.pc = "idle"
  BY IdleTyped DEF TypeInv, GoodProc
<1>1. /\ \A pc : Goto(h, pc) => procs'[h].pc = pc
      /\ \A to, pr, next : CallFinalize(h, to, pr, next) => procs'[h].pc = "fin_read"
      /\ Leave(h) => procs'[h].pc = "idle"
  <2>1. \A pc : Goto(h, pc) => procs'[h].pc = pc
    BY <1>0 DEF Goto, Proc
  <2>2. \A to, pr, next : CallFinalize(h, to, pr, next) => procs'[h].pc = "fin_read"
    BY <1>0 DEF CallFinalize, Proc
  <2>3. Leave(h) => procs'[h].pc = "idle"
    BY <1>0 DEF Leave
  <2> QED BY <2>1, <2>2, <2>3
<1>2. DrivePc(procs[h].goal, GateOf(h).kind) \in {"brief", "resume_guard"}
  BY DEF DrivePc
<1>3. CASE ResolveFlip(h)
  <2>1. procs' = [procs EXCEPT ![h].pc = "resolve_stuck", ![h].goal = GateOf(h).status]
          => procs'[h].pc = "resolve_stuck"
    BY <1>0 DEF Proc
  <2> QED BY <1>1, <1>2, <1>3, <2>1 DEF ResolveFlip
<1>4. CASE ResumeFlip(h)
  BY <1>0, <1>1, <1>4 DEF ResumeFlip, Proc
<1>5. CASE ResolveStuck(h) \/ DriveBrief(h) \/ DriveRequeue(h) \/ ResumeGuard(h)
  BY <1>1, <1>2, <1>5 DEF ResolveStuck, DriveBrief, DriveRequeue, ResumeGuard
<1> QED BY <1>3, <1>4, <1>5 DEF Decides

\* How a flow comes to be early.
LEMMA EarlySteps ==
  ASSUME TypeInv, BornInv, [Next]_vars, NEW w \in Replicas, (Early(w))'
  PROVE  \/ procs'[w] = procs[w]
         \/ Claim(w)
         \/ /\ Early(w) /\ (Prepare(w) \/ (Provision(w) /\ UNCHANGED runners))
            /\ procs'[w].job = procs[w].job /\ procs'[w].claim = procs[w].claim
<1>0. procs \in [Procs -> Proc] /\ Replicas \subseteq Procs /\ Replicas \cap Handlers = {}
      /\ Idle.pc \notin EarlyPc
  BY SortsAssumption DEF TypeInv, GoodProc, Procs, Idle, EarlyPc
<1>1. CASE Calm
  BY <1>0, <1>1 DEF Calm, CalmFlow, CalmPc, LoopPc, FinalizePc, Early, EarlyPc
<1>2. CASE Acts(w)
  <2>1. CASE Applies(w)
    BY <1>0, <2>1, ApplyMoves DEF Early, EarlyPc
  <2>2. CASE Prepare(w) \/ Provision(w)
    <3>1. procs'[w].job = procs[w].job /\ procs'[w].claim = procs[w].claim
      BY <1>0, <2>2, NamedOnward DEF Onward, Early
    <3>2. Early(w)
      BY <2>2 DEF Prepare, Provision, At, Early, EarlyPc
    <3>3. Answered(w) => procs'[w].pc \in {"attach", "fin_read"}
      BY <1>0 DEF Answered, Goto, CallFinalize, Proc
    <3>4. Provision(w) => UNCHANGED runners
      BY <3>3 DEF Provision, Start, Adopt, AtCapacity, Refused, Early, EarlyPc
    <3> QED BY <2>2, <3>1, <3>2, <3>4
  <2>3. CASE Release(w)
    <3>1. [Idle EXCEPT !.pc = "claim", !.slots = procs[w].slots].pc = "claim"
      BY DEF Idle
    <3>2. procs'[w].pc = "claim"
      BY <1>0, <2>3, <3>1 DEF Release, NextClaim
    <3> QED BY <3>2 DEF Early, EarlyPc
  <2> QED BY <1>0, <1>2, <2>1, <2>2, <2>3 DEF Acts, Provisions
<1>3. ASSUME NEW j \in Jobs, TableOnly(j)
      PROVE  procs'[w] = procs[w]
  BY <1>3 DEF TableOnly, Create, Delete, Retry
<1> QED BY <1>0, <1>1, <1>2, <1>3, StepsSorted, ActorsSorted

\* What may happen to a runner.
LEMMA RunnerSteps ==
  ASSUME TypeInv, BornInv, [Next]_vars, NEW c \in Claims
  PROVE  \/ CalmRunner(c)
         \/ \E w \in Replicas : Provision(w) /\ Start(w) /\ c = procs[w].claim
         \/ /\ \E h \in Handlers : Calls(c, h)
            /\ runners[c].stage \in {"boot", "work"} /\ runners'[c].stage = "call"
            /\ runners'[c].job = runners[c].job
         \/ /\ \E h \in Handlers : (SpecReply(h) \/ PhaseAdvance(h)) /\ c = procs[h].claim
            /\ runners[c].stage = "call" /\ runners'[c].stage = "work"
            /\ runners'[c].job = runners[c].job
<1>0. /\ runners \in [Claims -> GoodRunner] /\ \A d \in Claims : runners[d] \in Runner
      /\ Handlers \subseteq Procs
  BY DEF TypeInv, GoodRunner, Procs
<1>1. CASE Calm
  BY <1>1 DEF Calm
<1>2. CASE UNCHANGED runners
  BY <1>2 DEF CalmRunner
<1>3. ASSUME NEW a \in Handlers, Replies(a), runners' # runners
      PROVE  \/ CalmRunner(c)
             \/ /\ \E h \in Handlers : (SpecReply(h) \/ PhaseAdvance(h)) /\ c = procs[h].claim
                /\ runners[c].stage = "call" /\ runners'[c].stage = "work"
                /\ runners'[c].job = runners[c].job
  <2>1. a \in Procs
    BY <1>0
  <2>2. ASSUME Dismiss(a)
        PROVE  CalmRunner(c)
    BY <2>1, <2>2, ReplyMoves DEF CalmRunner, Started
  <2>3. ASSUME NEW phase, Answer(a, phase), SpecReply(a) \/ PhaseAdvance(a)
        PROVE  \/ CalmRunner(c)
               \/ /\ \E h \in Handlers : (SpecReply(h) \/ PhaseAdvance(h)) /\ c = procs[h].claim
                  /\ runners[c].stage = "call" /\ runners'[c].stage = "work"
                  /\ runners'[c].job = runners[c].job
    BY <2>1, <2>3, ReplyMoves DEF CalmRunner
  <2>4. Dismiss(a) \/ \E phase : Answer(a, phase) /\ (SpecReply(a) \/ PhaseAdvance(a))
    <3>1. SpecReply(a) => \E phase : Answer(a, phase)
      BY DEF SpecReply
    <3>2. PhaseAdvance(a) => Dismiss(a) \/ \E phase : Answer(a, phase)
      BY DEF PhaseAdvance
    <3> QED BY <1>3, <3>1, <3>2 DEF Replies, ResultRecord, PhaseJudge, ParkAdvance, ParkOpen, ParkRow
  <2> QED BY <2>2, <2>3, <2>4
<1>4. ASSUME NEW w \in Replicas, Provisions(w), runners' # runners
      PROVE  CalmRunner(c) \/ (Provision(w) /\ Start(w) /\ c = procs[w].claim)
  <2>1. Provision(w) /\ Start(w)
    BY <1>4 DEF Provisions, Claim, Prepare, Provision, Release, Adopt, AtCapacity, Refused
  <2>2. c # procs[w].claim => runners'[c] = runners[c]
    BY <1>0, <2>1 DEF Start
  <2> QED BY <2>1, <2>2 DEF CalmRunner
<1>5. ASSUME NEW d \in Claims, NEW h \in Handlers, Calls(d, h)
      PROVE  \/ CalmRunner(c)
             \/ /\ c = d /\ runners[c].stage \in {"boot", "work"} /\ runners'[c].stage = "call"
                /\ runners'[c].job = runners[c].job
  <2>1. /\ runners[d].stage \in {"boot", "work"}
        /\ \/ runners' = [runners EXCEPT ![d].stage = "call"]
           \/ runners' = [runners EXCEPT ![d] = Over(@)]
    BY <1>5 DEF Calls, RunnerApiStep, SpecCall, ResultCall, PhaseCall, Call
  <2>2. /\ Over(runners[d]).stage = "gone" /\ Over(runners[d]).job = runners[d].job
        /\ Over(runners[d]).shim = runners[d].shim
    BY <1>0 DEF Over, Runner
  <2>3. CASE runners' = [runners EXCEPT ![d].stage = "call"]
    BY <1>0, <2>1, <2>3 DEF CalmRunner, Runner
  <2>4. CASE runners' = [runners EXCEPT ![d] = Over(@)]
    BY <1>0, <2>1, <2>2, <2>4 DEF CalmRunner, Started
  <2> QED BY <2>1, <2>3, <2>4

<1>6. ASSUME NEW a \in Procs, Acts(a)
      PROVE  \/ UNCHANGED runners
             \/ a \in Replicas /\ Provisions(a)
             \/ a \in Handlers /\ (Replies(a) \/ \E d \in Claims : Calls(d, a))
  BY <1>6 DEF Acts, Decides, HeldOpen, CreateHeld, GateArrival, Applies, ApplyLoad, ApplyJudge,
     ApplyBranch, ApplyGate, ApplyPark, ResolveFlip, ResolveStuck, DriveBrief, DriveRequeue,
     ResumeGuard, ResumeFlip, Resolve, GateExpires
<1>7. ASSUME NEW j \in Jobs, TableOnly(j)
      PROVE  UNCHANGED runners
  BY <1>7 DEF TableOnly, Create, Delete, Retry
<1> QED BY <1>1, <1>2, <1>3, <1>4, <1>5, <1>6, <1>7, StepsSorted, ActorsSorted

LEMMA NumbersKeep ==
  ASSUME TypeInv, BornInv, Numbered, [Next]_vars
  PROVE  Numbered'
<1>0. /\ claims \in Nat /\ claims' \in Nat /\ claims <= claims' /\ Replicas \subseteq Procs
      /\ procs \in [Procs -> Proc]
  BY BoundsAssumption, ClaimsGrow DEF TypeInv, GoodProc, Procs
<1>1. ASSUME NEW w \in Replicas, Claim(w)
      PROVE  /\ claims' = claims + 1 /\ claims' \in Claims /\ UNCHANGED runners
             /\ procs'[w].claim = claims' /\ \A v \in Replicas \ {w} : procs'[v] = procs[v]
  <2>1. PICK k \in Jobs :
          procs' = [procs EXCEPT ![w].pc = "prepare", ![w].job = k,
                         ![w].claim = claims + 1, ![w].slots = @ - 1]
    BY <1>1 DEF Claim
  <2>2. claims' = claims + 1 /\ claims < MaxClaims /\ UNCHANGED runners
    BY <1>1 DEF Claim
  <2>3. procs'[w].claim = claims + 1 /\ \A v \in Replicas \ {w} : procs'[v] = procs[v]
    BY <1>0, <2>1 DEF Proc
  <2> QED BY <1>0, <2>2, <2>3, BoundsAssumption DEF Claims
<1>2. \A c \in Claims : (Started(c))' =>
        \/ Started(c)
        \/ \E w \in Replicas : Provision(w) /\ Start(w) /\ c = procs[w].claim
  BY RunnerSteps DEF CalmRunner, Started
<1>3. ASSUME NEW v \in Replicas, Provision(v), Start(v), NEW w \in Replicas, (Early(w))'
      PROVE  w # v /\ procs'[w] = procs[w]
  <2>1. procs'[v].pc \in {"attach", "fin_read"} /\ \A q \in Procs \ {v} : procs'[q] = procs[q]
    <3>1. Answered(v) => procs'[v].pc \in {"attach", "fin_read"}
      BY <1>0 DEF Answered, Goto, CallFinalize, Proc
    <3> QED BY <1>0, <1>3, <3>1, NamedOnward DEF Start, Onward
  <2> QED BY <1>0, <1>3, <2>1 DEF Early, EarlyPc
<1>4. \A c \in Claims : (Started(c))' => c <= claims'
  <2>1. ASSUME NEW c \in Claims, Started(c) \/ \E w \in Replicas : Provision(w) /\ c = procs[w].claim
        PROVE  c <= claims
    BY <2>1 DEF Numbered, Early, EarlyPc, Provision, At
  <2> QED BY <1>0, <1>2, <2>1 DEF Claims
<1>5. ASSUME NEW w \in Replicas, (Early(w))'
      PROVE  /\ (procs[w].claim \in Claims /\ procs[w].claim <= claims /\ ~Started(procs[w].claim))'
             /\ Claim(w) \/ (Early(w) /\ procs'[w].claim = procs[w].claim)
  <2>1. CASE Claim(w)
    BY <1>0, <1>1, <2>1 DEF Numbered, Started, Claims
  <2>2. CASE Early(w) /\ procs'[w].claim = procs[w].claim
    <3>1. procs[w].claim \in Claims /\ procs[w].claim <= claims /\ ~Started(procs[w].claim)
      BY <2>2 DEF Numbered
    <3>2. ASSUME NEW v \in Replicas, Provision(v), Start(v)
          PROVE  procs[w].claim # procs[v].claim
      <4>1. w # v /\ Early(v)
        BY <1>3, <1>5, <3>2 DEF Early, EarlyPc, Provision, At
      <4> QED BY <2>2, <4>1 DEF Numbered
    <3>3. ~(Started(procs[w].claim))'
      BY <1>2, <2>2, <3>1, <3>2
    <3> QED BY <1>0, <2>2, <3>1, <3>3 DEF Claims, Started
  <2>3. procs'[w] = procs[w] => Early(w) /\ procs'[w].claim = procs[w].claim
    BY <1>5 DEF Early
  <2> QED BY <1>5, <2>1, <2>2, <2>3, EarlySteps
<1>6. ASSUME NEW w \in Replicas, NEW v \in Replicas, (Early(w) /\ Early(v))',
             procs'[w].claim = procs'[v].claim
      PROVE  w = v
  <2>1. CASE Early(w) /\ Early(v) /\ procs'[w].claim = procs[w].claim /\ procs'[v].claim = procs[v].claim
    BY <1>6, <2>1 DEF Numbered
  <2>2. ASSUME NEW u \in Replicas, NEW x \in Replicas, Claim(u), Early(x), u # x,
               procs'[x].claim = procs'[u].claim
        PROVE  FALSE
    BY <1>0, <1>1, <2>2 DEF Numbered, Claims
  <2>3. Claim(w) /\ Claim(v) => w = v
    <3>1. Claim(w) /\ w # v => procs'[v] = procs[v]
      BY <1>1
    <3>2. Claim(v) => ~Early(v)
      BY DEF Claim, At, Early, EarlyPc
    <3> QED BY <1>6, <3>1, <3>2 DEF Early
  <2> QED BY <1>5, <1>6, <2>1, <2>2, <2>3
<1> QED BY <1>4, <1>5, <1>6 DEF Numbered

(***************************************************************************)
(* Calls, served: a handler that serves a runner is alone with it, and the *)
(* runner waits for the answer or is no more.                              *)
(***************************************************************************)
Replying(h) == procs[h].pc \in ReplyPc

Serving ==
  /\ \A h \in Handlers : Replying(h) =>
       /\ procs[h].claim \in Claims
       /\ runners[procs[h].claim].job = procs[h].job
       /\ runners[procs[h].claim].stage \in {"call", "gone", "removed"}
  /\ \A h, k \in Handlers : Replying(h) /\ Replying(k) /\ procs[h].claim = procs[k].claim => h = k

\* How a handler comes to serve.
LEMMA ReplySteps ==
  ASSUME TypeInv, BornInv, [Next]_vars, NEW h \in Handlers, (Replying(h))'
  PROVE  \/ procs'[h] = procs[h]
         \/ \E c \in Claims :
              /\ Calls(c, h) /\ runners[c].stage \in {"boot", "work"}
              /\ Authentic(c) /\ InRun(RunnerJob(c))
              /\ runners'[c].stage = "call" /\ runners'[c].job = runners[c].job
              /\ \A d \in Claims \ {c} : runners'[d] = runners[d]
              /\ procs'[h].claim = c /\ procs'[h].job = runners[c].job
              /\ procs'[h].row = RunnerJob(c) /\ procs'[h].pc \in {"spec", "result", "phase"}
         \/ /\ Replying(h) /\ (PhaseJudge(h) \/ ParkAdvance(h) \/ ParkOpen(h))
            /\ UNCHANGED runners
            /\ procs'[h].job = procs[h].job /\ procs'[h].claim = procs[h].claim
            /\ procs'[h].row = procs[h].row
<1>0. procs \in [Procs -> Proc] /\ h \in Procs /\ Replicas \cap Handlers = {}
      /\ Idle.pc \notin ReplyPc /\ runners \in [Claims -> GoodRunner]
      /\ \A c \in Claims : runners[c] \in Runner
  BY SortsAssumption DEF TypeInv, GoodProc, GoodRunner, Procs, Idle, ReplyPc
<1>m. /\ \A pc : Goto(h, pc) => procs'[h].pc = pc
      /\ \A to, pr, next : CallFinalize(h, to, pr, next) => procs'[h].pc = "fin_read"
      /\ Leave(h) => procs'[h].pc \notin ReplyPc
  <2>1. \A pc : Goto(h, pc) => procs'[h].pc = pc
    BY <1>0 DEF Goto, Proc
  <2>2. \A to, pr, next : CallFinalize(h, to, pr, next) => procs'[h].pc = "fin_read"
    BY <1>0 DEF CallFinalize, Proc
  <2>3. Leave(h) => procs'[h].pc \notin ReplyPc
    BY <1>0 DEF Leave
  <2> QED BY <2>1, <2>2, <2>3
<1>1. CASE Calm
  BY <1>0, <1>1 DEF Calm, CalmFlow, CalmPc, LoopPc, FinalizePc, Replying, ReplyPc
<1>2. ~(Applies(h) \/ HeldOpen(h))
  BY <1>m, ApplyMoves, <1>0 DEF HeldOpen, Replying, ReplyPc
<1>3. ~Decides(h)
  BY <1>0, DecideMoves DEF Replying, ReplyPc
<1>4. ASSUME NEW j \in Jobs, NEW at \in Replicas
      PROVE  ~CreateHeld(h, j, at)
  <2>1. [Idle EXCEPT !.pc = "held_open", !.at = at, !.job = j].pc \notin ReplyPc
    BY DEF Idle, ReplyPc
  <2> QED BY <1>0, <2>1 DEF CreateHeld, Begin, Replying
<1>5. ASSUME NEW g \in GateIds, NEW at \in Replicas
      PROVE  ~GateArrival(h, g, at)
  <2>1. \A goal : [Idle EXCEPT !.pc = "resolve", !.at = at, !.gate = g, !.job = gates[g].job,
                               !.goal = goal].pc \notin ReplyPc
    BY DEF Idle, ReplyPc
  <2>2. [Idle EXCEPT !.pc = "fin_read", !.at = at, !.gate = g, !.job = gates[g].job,
                     !.to = "cancelled", !.next = "leave"].pc \notin ReplyPc
    BY DEF Idle, ReplyPc
  <2> QED BY <1>0, <2>1, <2>2 DEF GateArrival, Resolve, GateExpires, Replying
<1>6. ASSUME Replies(h)
      PROVE  /\ Replying(h) /\ (PhaseJudge(h) \/ ParkAdvance(h) \/ ParkOpen(h))
             /\ UNCHANGED runners
             /\ procs'[h].job = procs[h].job /\ procs'[h].claim = procs[h].claim
             /\ procs'[h].row = procs[h].row
  <2>1. Replying(h)
    BY <1>6 DEF Replies, SpecReply, ResultRecord, PhaseJudge, PhaseAdvance, ParkAdvance, ParkOpen,
       ParkRow, At, Replying, ReplyPc
  <2>2. PhaseJudge(h) \/ ParkAdvance(h) \/ ParkOpen(h)
    BY <1>6, <1>m DEF Replies, SpecReply, ResultRecord, PhaseAdvance, ParkRow, Replying, ReplyPc
  <2>3. UNCHANGED runners
    BY <1>m, <2>2 DEF PhaseJudge, ParkAdvance, ParkOpen, Replying
  <2>4. procs'[h] # Idle
    BY <1>0 DEF Replying
  <2> QED BY <1>0, <1>6, <2>1, <2>2, <2>3, <2>4, NamedOnward DEF Onward
<1>7. ASSUME NEW c \in Claims, Calls(c, h), procs'[h] # procs[h]
      PROVE  /\ runners[c].stage \in {"boot", "work"}
             /\ Authentic(c) /\ InRun(RunnerJob(c))
             /\ runners'[c].stage = "call" /\ runners'[c].job = runners[c].job
             /\ \A d \in Claims \ {c} : runners'[d] = runners[d]
             /\ procs'[h].claim = c /\ procs'[h].job = runners[c].job
             /\ procs'[h].row = RunnerJob(c) /\ procs'[h].pc \in {"spec", "result", "phase"}
  <2>1. PICK at \in Replicas, stage \in {"boot", "work"}, pc \in {"spec", "result", "phase"}, goal \in Goal :
          Call(c, h, at, stage, pc, goal)
    BY <1>7 DEF Calls, RunnerApiStep, SpecCall, ResultCall, PhaseCall, Goal
  <2> DEFINE x == [Idle EXCEPT !.pc = pc, !.at = at, !.claim = c,
                       !.job = runners[c].job, !.row = RunnerJob(c), !.goal = goal]
  <2>2. x.pc = pc /\ x.claim = c /\ x.job = runners[c].job /\ x.row = RunnerJob(c)
    BY DEF Idle
  <2>3. /\ runners[c].stage = stage /\ Authentic(c) /\ InRun(RunnerJob(c))
        /\ runners' = [runners EXCEPT ![c].stage = "call"] /\ procs' = [procs EXCEPT ![h] = x]
    BY <1>7, <2>1 DEF Call, Serve
  <2> HIDE DEF x
  <2>4. procs'[h] = x
    BY <1>0, <2>3
  <2>5. runners'[c].stage = "call" /\ runners'[c].job = runners[c].job
        /\ \A d \in Claims \ {c} : runners'[d] = runners[d]
    BY <1>0, <2>3 DEF Runner
  <2> QED BY <2>2, <2>3, <2>4, <2>5
<1>8. Acts(h) => \/ procs'[h] = procs[h]
                 \/ Replies(h) \/ \E c \in Claims : Calls(c, h) /\ procs'[h] # procs[h]
  BY <1>0, <1>2, <1>3, <1>4, <1>5 DEF Acts
<1>9. ASSUME NEW j \in Jobs, TableOnly(j)
      PROVE  procs'[h] = procs[h]
  BY <1>9 DEF TableOnly, Create, Delete, Retry
<1> QED BY <1>0, <1>1, <1>6, <1>7, <1>8, <1>9, StepsSorted, ActorsSorted

LEMMA ServingKeeps ==
  ASSUME TypeInv, BornInv, Numbered, Serving, [Next]_vars
  PROVE  Serving'
<1>0. Handlers \subseteq Procs /\ procs \in [Procs -> Proc]
  BY DEF Procs, TypeInv, GoodProc
<1>1. ASSUME NEW h \in Handlers, Replying(h), (Replying(h))', procs'[h].job = procs[h].job,
             procs'[h].claim = procs[h].claim
      PROVE  (/\ procs[h].claim \in Claims
              /\ runners[procs[h].claim].job = procs[h].job
              /\ runners[procs[h].claim].stage \in {"call", "gone", "removed"})'
  <2> DEFINE c == procs[h].claim
  <2>1. /\ c \in Claims /\ runners[c].job = procs[h].job /\ runners[c].stage \in {"call", "gone", "removed"}
    BY <1>1 DEF Serving
  <2>2. CASE CalmRunner(c)
    BY <1>1, <2>1, <2>2 DEF CalmRunner
  <2>3. ASSUME NEW w \in Replicas, Provision(w), c = procs[w].claim
        PROVE  FALSE
    BY <2>1, <2>3 DEF Numbered, Early, EarlyPc, Provision, At, Started
  <2>4. ASSUME NEW k \in Handlers, SpecReply(k) \/ PhaseAdvance(k), c = procs[k].claim
        PROVE  FALSE
    <3>1. Replying(k)
      BY <2>4 DEF SpecReply, PhaseAdvance, At, Replying, ReplyPc
    <3>2. k = h
      BY <1>1, <2>4, <3>1 DEF Serving
    <3>3. Leave(k)
      BY <2>4 DEF SpecReply, PhaseAdvance
    <3>4. Idle.pc \notin ReplyPc
      BY DEF Idle, ReplyPc
    <3> QED BY <1>0, <1>1, <3>2, <3>3, <3>4 DEF Leave, Replying
  <2> QED BY <2>1, <2>2, <2>3, <2>4, RunnerSteps
<1>2. ASSUME NEW h \in Handlers, (Replying(h))'
      PROVE  \/ Replying(h) /\ procs'[h].job = procs[h].job /\ procs'[h].claim = procs[h].claim
             \/ \E c \in Claims :
                  /\ runners[c].stage \in {"boot", "work"}
                  /\ runners'[c].stage = "call" /\ runners'[c].job = runners[c].job
                  /\ procs'[h].claim = c /\ procs'[h].job = runners[c].job
                  /\ \A k \in Handlers \ {h} : procs'[k] = procs[k]
  <2>1. CASE procs'[h] = procs[h]
    BY <1>2, <2>1 DEF Replying
  <2>2. ASSUME NEW c \in Claims, Calls(c, h)
        PROVE  \A k \in Handlers \ {h} : procs'[k] = procs[k]
    BY <1>0, <2>2 DEF Calls, RunnerApiStep, SpecCall, ResultCall, PhaseCall, Call, Serve
  <2> QED BY <1>2, <2>1, <2>2, ReplySteps
<1>3. ASSUME NEW h \in Handlers, (Replying(h))'
      PROVE  (/\ procs[h].claim \in Claims
              /\ runners[procs[h].claim].job = procs[h].job
              /\ runners[procs[h].claim].stage \in {"call", "gone", "removed"})'
  BY <1>1, <1>2, <1>3
<1>4. ASSUME NEW h \in Handlers, NEW k \in Handlers, (Replying(h) /\ Replying(k))',
             procs'[h].claim = procs'[k].claim
      PROVE  h = k
  <2>1. CASE Replying(h) /\ Replying(k) /\ procs'[h].claim = procs[h].claim /\ procs'[k].claim = procs[k].claim
    BY <1>4, <2>1 DEF Serving
  <2>2. ASSUME NEW x \in Handlers, NEW y \in Handlers, NEW c \in Claims, (Replying(y))', x # y,
               runners[c].stage \in {"boot", "work"}, procs'[x].claim = c,
               \A u \in Handlers \ {x} : procs'[u] = procs[u]
        PROVE  procs'[y].claim # c
    BY <2>2 DEF Serving, Replying
  <2> QED BY <1>2, <1>4, <2>1, <2>2
<1> QED BY <1>3, <1>4 DEF Serving

(***************************************************************************)
(* The regime: who may act for job j.                                      *)
(***************************************************************************)
Approved == {"implement", "review", "pr"}
InHand(r) == r.status \in {"queued", "provisioning", "running"}
AtPark(h) == procs[h].pc \in {"park_open", "park_row"}

\* A runner that says nothing any more: it ended, or its last call, which parks
\* the job, is being served.
Spent(c) ==
  /\ runners[c].stage \in {"call", "gone", "removed"}
  /\ \A h \in Handlers : Replying(h) /\ procs[h].claim = c => AtPark(h)

\* A worker provisions the job under the row's lease; ...
Provisioned(j) ==
  \A w \in Replicas : Early(w) /\ procs[w].job = j /\ InHand(jobs[j]) =>
    jobs[j].status = "provisioning" /\ jobs[j].lease = procs[w].claim

\* ... a runner of another claim is spent; ...
Fenced(j) ==
  \A c \in Claims : Started(c) /\ runners[c].job = j /\ InHand(jobs[j]) /\ jobs[j].lease # c =>
    Spent(c)

\* ... and a handler serves the runner of the lease, but for one that is late to
\* park a job whose plan was approved in the meantime.
Served(j) ==
  \A h \in Handlers : Replying(h) /\ procs[h].job = j /\ Live(jobs[j]) =>
    \/ InRun(jobs[j]) /\ jobs[j].lease = procs[h].claim /\ jobs[j].token = procs[h].claim
    \/ AtPark(h) /\ jobs[j].phase \in Approved

\* The job has a gate for its plan, or one is about to be opened.
PlanGate(j) ==
  \/ \E g \in GatesOf(j, "review") : Opened(g)
  \/ \E h \in Handlers : procs[h].job = j /\ procs[h].pc \in {"held_open", "park_open"}

\* Before the plan is approved nobody acts for a job that has such a gate.
Planned(j) ==
  PlanGate(j) /\ Exists(jobs[j]) =>
    \/ jobs[j].phase \in Approved
    \/ /\ jobs[j].phase = "await_human" /\ jobs[j].status # "queued" /\ ~jobs[j].diff
       /\ \A w \in Replicas : Early(w) => procs[w].job # j
       /\ \A c \in Claims : Started(c) /\ runners[c].job = j => Spent(c)

\* A diff is handed over once, by the last call of the runner.
Handed(j) ==
  /\ jobs[j].diff =>
       /\ jobs[j].status \in {"applying", "waiting"} \cup Terminal
       /\ \A h \in Handlers : Replying(h) /\ procs[h].job = j =>
            AtPark(h) /\ jobs[j].phase \in Approved
  /\ jobs[j].status = "applying" => jobs[j].diff
  /\ jobs[j].status = "waiting" /\ ~jobs[j].diff => jobs[j].phase = "await_human"

Regime(j) == Provisioned(j) /\ Fenced(j) /\ Served(j) /\ Planned(j) /\ Handed(j)

\* An apply past its first read has a diff.
ApplyingPc == {"apply_judge", "apply_branch", "apply_pr", "apply_gate", "apply_park"}
HasDiff(p) == procs[p].pc \in ApplyingPc => JobOf(p).diff \/ JobOf(p).status = "deleted"

\* No column but the default, gated, is written; so a phase of a job advances to
\* one after the approval only from one after the approval.
Gated ==
  /\ \A j \in Jobs : jobs[j].mode = "gated"
  /\ \A h \in Handlers : Replying(h) => procs[h].row.mode = "gated"
  /\ \A h \in Handlers : procs[h].pc = "advance" =>
       (procs[h].goal \in Approved <=> procs[h].row.phase \in Approved)

(***************************************************************************)
(* Steps that leave job j's regime alone: nobody new acts for the job.     *)
(***************************************************************************)
EarlyQuiet(j) ==
  \A w \in Replicas : (Early(w))' /\ procs'[w].job = j =>
    Early(w) /\ procs[w].job = j /\ procs'[w].claim = procs[w].claim
ReplyQuiet(j) ==
  \A h \in Handlers : (Replying(h))' /\ procs'[h].job = j =>
    /\ Replying(h) /\ procs[h].job = j /\ procs'[h].claim = procs[h].claim
    /\ AtPark(h) => (AtPark(h))'
RunnersQuiet(j) ==
  \A c \in Claims : (Started(c))' /\ runners'[c].job = j =>
    /\ Started(c) /\ runners[c].job = j
    /\ runners'[c].stage = runners[c].stage \/ runners'[c].stage \in {"gone", "removed"}
PlanQuiet(j) == (PlanGate(j))' => PlanGate(j)
Quiet(j) == EarlyQuiet(j) /\ ReplyQuiet(j) /\ RunnersQuiet(j) /\ PlanQuiet(j)

\* A spent runner stays spent.
LEMMA SpentKeeps ==
  ASSUME Serving', NEW j \in Jobs, ReplyQuiet(j), NEW c \in Claims, runners'[c].job = j,
         runners'[c].stage \in {runners[c].stage, "gone", "removed"}, Spent(c)
  PROVE  (Spent(c))'
<1>1. runners'[c].stage \in {"call", "gone", "removed"}
  BY DEF Spent
<1>2. ASSUME NEW h \in Handlers, (Replying(h))', procs'[h].claim = c
      PROVE  (AtPark(h))'
  <2>1. procs'[h].job = j
    BY <1>2 DEF Serving
  <2> QED BY <1>2, <2>1 DEF ReplyQuiet, Spent
<1> QED BY <1>1, <1>2 DEF Spent

LEMMA UndisturbedKeeps ==
  ASSUME Serving', NEW j \in Jobs, Regime(j), Quiet(j), Minor(jobs[j], jobs'[j])
  PROVE  (Regime(j))'
<1>1. /\ jobs'[j].lease = jobs[j].lease /\ jobs'[j].token = jobs[j].token
      /\ jobs'[j].phase = jobs[j].phase /\ jobs'[j].diff = jobs[j].diff
      /\ \/ jobs'[j].status = jobs[j].status
         \/ Live(jobs[j]) /\ jobs'[j].status \in Terminal
  BY DEF Minor
<1>2. Terminal \cap {"queued", "provisioning", "running", "applying", "waiting"} = {}
  BY DEF Terminal
<1>3. \A c \in Claims : (Started(c))' /\ runners'[c].job = j =>
        Started(c) /\ runners[c].job = j /\ (Spent(c) => (Spent(c))')
  BY SpentKeeps DEF Quiet, RunnersQuiet
<1>4. (Provisioned(j))'
  BY <1>1, <1>2 DEF Regime, Provisioned, Quiet, EarlyQuiet, InHand
<1>5. (Fenced(j))'
  BY <1>1, <1>2, <1>3 DEF Regime, Fenced, InHand
<1>6. (Served(j))'
  BY <1>1, <1>2 DEF Regime, Served, Quiet, ReplyQuiet, Live, Ended, Exists, InRun
<1>7. (Planned(j))'
  <2>1. Exists(jobs'[j]) => Exists(jobs[j])
    BY <1>1 DEF Exists, Live
  <2> QED BY <1>1, <1>2, <1>3, <2>1 DEF Regime, Planned, Quiet, PlanQuiet, EarlyQuiet
<1>8. (Handed(j))'
  BY <1>1, <1>2 DEF Regime, Handed, Quiet, ReplyQuiet
<1> QED BY <1>4, <1>5, <1>6, <1>7, <1>8 DEF Regime

\* One flow moves, and neither starts to provision nor to serve a call nor to
\* open a gate.
Steady(a) ==
  /\ \A q \in Procs \ {a} : procs'[q] = procs[q]
  /\ \/ procs'[a].pc \notin EarlyPc \cup ReplyPc \cup {"held_open"}
     \/ /\ procs'[a].job = procs[a].job /\ procs'[a].claim = procs[a].claim
        /\ \/ procs[a].pc \in EarlyPc /\ procs'[a].pc \in EarlyPc
           \/ /\ procs[a].pc \in ReplyPc /\ procs'[a].pc \in ReplyPc \ {"park_open"}
              /\ AtPark(a) => (AtPark(a))'

\* A plan's gate was there, or the flow was about to open it.
GatesQuiet(a) ==
  \A g \in GateIds : (Opened(g))' /\ gates'[g].kind = "review" =>
    \/ Opened(g) /\ gates[g].kind = "review" /\ gates'[g].job = gates[g].job
    \/ procs[a].pc \in {"held_open", "park_open"} /\ gates'[g].job = procs[a].job

LEMMA SteadyQuiet ==
  ASSUME TypeInv, NEW a \in Procs, Steady(a)
  PROVE  /\ \A j \in Jobs : EarlyQuiet(j) /\ ReplyQuiet(j)
         /\ a \in Handlers /\ GatesQuiet(a) => \A j \in Jobs : PlanQuiet(j)
         /\ GatesQuiet(a) /\ procs[a].pc \notin {"held_open", "park_open"} => \A j \in Jobs : PlanQuiet(j)
<1>0. /\ Replicas \subseteq Procs /\ Handlers \subseteq Procs
      /\ EarlyPc \cap ReplyPc = {} /\ {"held_open"} \cap (EarlyPc \cup ReplyPc) = {}
      /\ "park_open" \in ReplyPc
  BY DEF Procs, EarlyPc, ReplyPc
<1>1. \A j \in Jobs : EarlyQuiet(j)
  BY <1>0 DEF Steady, EarlyQuiet, Early
<1>2. \A j \in Jobs : ReplyQuiet(j)
  BY <1>0 DEF Steady, ReplyQuiet, Replying, AtPark
<1>3. ASSUME NEW j \in Jobs, GatesQuiet(a),
             a \in Handlers \/ procs[a].pc \notin {"held_open", "park_open"}, (PlanGate(j))'
      PROVE  PlanGate(j)
  <2>1. ASSUME NEW h \in Handlers, procs'[h].job = j, procs'[h].pc \in {"held_open", "park_open"}
        PROVE  procs[h].job = j /\ procs[h].pc \in {"held_open", "park_open"}
    BY <1>0, <2>1 DEF Steady
  <2>2. ASSUME NEW g \in (GatesOf(j, "review"))', (Opened(g))'
        PROVE  PlanGate(j)
    BY <1>3, <2>2 DEF GatesOf, GatesQuiet, PlanGate
  <2> QED BY <1>3, <2>1, <2>2 DEF PlanGate
<1> QED BY <1>1, <1>2, <1>3 DEF PlanQuiet

\* What a phase result is judged to be.
Judging(h, ok, review, n, f) ==
  /\ UNCHANGED runners
  /\ \E guard : Write(procs[h].job, guard /\ CanSetReview(JobOf(h)), ReviewSet(JobOf(h), n, f))
  /\ \E t \in {To("fail", procs[h].row.phase),
               ComputeTransition(procs[h].row.phase, ok, review, procs[h].row.mode, procs[h].row.kind)} :
       Carry(h, t)

LEMMA JudgeMoves ==
  ASSUME TypeInv, NEW h \in Procs, PhaseJudge(h)
  PROVE  \/ Dismiss(h) /\ Leave(h) /\ UNCHANGED jobs
         \/ \E ok \in BOOLEAN, review \in ReviewAction, n \in Nat, f \in Fingerprint :
              Judging(h, ok, review, n, f)
<1> DEFINE row == procs[h].row
           phase == runners[procs[h].claim].phase
<1>1. procs[h].job \in Jobs /\ row \in Row /\ row.attempt \in Nat /\ row.fp \in Fingerprint
  <2>1. procs[h].pc \notin LoopPc
    BY DEF PhaseJudge, At, LoopPc
  <2>2. row \in Row
    BY <2>1, JobTyped DEF Proc
  <2> QED BY <2>1, <2>2, JobTyped DEF Row
<1>2. CASE phase # row.phase
  BY <1>2 DEF PhaseJudge
<1>3. CASE phase = row.phase
  <2>1. PICK ok \in {FALSE} \cup (IF phase \in Runnable THEN {TRUE} ELSE {}) :
        \E v \in Verdicts(phase, ok) :
          LET d == DecideReview(v, row.attempt, row.fp)
              review == IF v.ask \in {"approve", "request_changes"} THEN d.action ELSE "approve"
          IN /\ Write(procs[h].job, review # "approve" /\ CanSetReview(JobOf(h)),
                      ReviewSet(JobOf(h), d.attempt, d.fp))
             /\ Carry(h, IF v = Malformed THEN To("fail", phase)
                         ELSE ComputeTransition(phase, ok, review, row.mode, row.kind))
    BY <1>3 DEF PhaseJudge
  <2>2. PICK v \in Verdicts(phase, ok) :
          LET d == DecideReview(v, row.attempt, row.fp)
              review == IF v.ask \in {"approve", "request_changes"} THEN d.action ELSE "approve"
          IN /\ Write(procs[h].job, review # "approve" /\ CanSetReview(JobOf(h)),
                      ReviewSet(JobOf(h), d.attempt, d.fp))
             /\ Carry(h, IF v = Malformed THEN To("fail", phase)
                         ELSE ComputeTransition(phase, ok, review, row.mode, row.kind))
    BY <2>1
  <2> DEFINE d == DecideReview(v, row.attempt, row.fp)
             review == IF v.ask \in {"approve", "request_changes"} THEN d.action ELSE "approve"
  <2>3. v \in Verdict \cup {Malformed, NoVerdict}
    BY DEF Verdicts
  <2>4. d.action \in ReviewAction /\ d.attempt \in Nat /\ d.fp \in Fingerprint
    BY <1>1, <2>3, DecideReviewTyped
  <2>5. /\ Write(procs[h].job, review # "approve" /\ CanSetReview(JobOf(h)),
                 ReviewSet(JobOf(h), d.attempt, d.fp))
        /\ \/ Carry(h, To("fail", phase))
           \/ Carry(h, ComputeTransition(phase, ok, review, row.mode, row.kind))
    BY <2>2
  <2> HIDE DEF d
  <2>6. review \in ReviewAction /\ ok \in BOOLEAN /\ UNCHANGED runners
    BY <1>3, <2>4 DEF ReviewAction, PhaseJudge
  <2> HIDE DEF review
  <2>7. Judging(h, ok, review, d.attempt, d.fp)
    BY <1>3, <2>5, <2>6 DEF Judging
  <2> QED BY <2>4, <2>6, <2>7
<1> QED BY <1>2, <1>3

\* Where an answer to a runner goes.
LEMMA ReplyingMoves ==
  ASSUME TypeInv, NEW h \in Procs, Replies(h)
  PROVE  /\ SpecReply(h) => procs'[h].pc = "idle"
         /\ ResultRecord(h) => procs'[h].pc \in {"idle", "fin_read"}
         /\ PhaseJudge(h) => procs'[h].pc \in {"idle", "advance", "park_advance", "fin_read"}
         /\ PhaseAdvance(h) => procs'[h].pc = "idle"
         /\ ParkAdvance(h) => procs'[h].pc \in {"idle", "park_open"}
         /\ ParkOpen(h) => procs'[h].pc = "park_row"
         /\ ParkRow(h) => procs'[h].pc = "reply_exit"
<1>0. procs \in [Procs -> Proc] /\ Idle.pc = "idle"
  BY IdleTyped DEF TypeInv, GoodProc
<1>1. \A pc : Goto(h, pc) => procs'[h].pc = pc
  BY <1>0 DEF Goto, Proc
<1>2. \A to, pr, next : CallFinalize(h, to, pr, next) => procs'[h].pc = "fin_read"
  BY <1>0 DEF CallFinalize, Proc
<1>3. Leave(h) => procs'[h].pc = "idle"
  BY <1>0 DEF Leave
<1>4. \A t : Carry(h, t) => procs'[h].pc \in {"advance", "park_advance", "fin_read"}
  BY <1>0 DEF Carry, PcOf, Proc
<1>5. PhaseJudge(h) => procs'[h].pc \in {"idle", "advance", "park_advance", "fin_read"}
  BY <1>3, <1>4, JudgeMoves DEF Judging
<1>6. SpecReply(h) \/ PhaseAdvance(h) => procs'[h].pc = "idle"
  BY <1>3 DEF SpecReply, PhaseAdvance
<1>7. ResultRecord(h) => procs'[h].pc \in {"idle", "fin_read"}
  BY <1>2, <1>3 DEF ResultRecord
<1>8. /\ ParkAdvance(h) => procs'[h].pc \in {"idle", "park_open"}
      /\ ParkOpen(h) => procs'[h].pc = "park_row"
      /\ ParkRow(h) => procs'[h].pc = "reply_exit"
  BY <1>1, <1>3 DEF ParkAdvance, ParkOpen, ParkRow
<1> QED BY <1>5, <1>6, <1>7, <1>8

\* What a flow does to the gates.
LEMMA QuietGates ==
  ASSUME TypeInv, NEW a \in Procs
  PROVE  /\ UNCHANGED gates => GatesQuiet(a)
         /\ ParkOpen(a) \/ HeldOpen(a) \/ ApplyGate(a) => GatesQuiet(a)
         /\ ResolveFlip(a) => GatesQuiet(a)
         /\ \A g \in GateIds, at \in Replicas : GateArrival(a, g, at) => GatesQuiet(a)
<1>0. gates \in [GateIds -> Gate] /\ {"review", "diff_policy"} \subseteq GateKind
      /\ \A pc \in {"park_open", "held_open", "apply_gate"} : pc \notin LoopPc
  BY DEF TypeInv, GoodGate, GateKind, LoopPc
<1>m. ASSUME NEW j \in Jobs, NEW kind \in GateKind, CanOpen(j), OpenGate(j, kind)
      PROVE  \A g \in GateIds : gates'[g] = gates[g] \/ (gates'[g].kind = kind /\ gates'[g].job = j)
  <2>1. \A g \in GateIds : \/ gates'[g] = gates[g]
                           \/ /\ gates[g].status = "unopened"
                              /\ gates'[g] = [status |-> "waiting", kind |-> kind, job |-> j]
    BY <1>m, GateMoves
  <2> QED BY <2>1
<1>1. UNCHANGED gates => GatesQuiet(a)
  BY DEF GatesQuiet, Opened
<1>2. ASSUME ParkOpen(a) \/ HeldOpen(a) \/ ApplyGate(a)
      PROVE  GatesQuiet(a)
  <2>1. procs[a].job \in Jobs
    BY <1>0, <1>2, JobTyped DEF ParkOpen, HeldOpen, ApplyGate, At
  <2>2. CASE ParkOpen(a) \/ HeldOpen(a)
    <3>1. /\ procs[a].pc \in {"held_open", "park_open"}
          /\ CanOpen(procs[a].job) /\ OpenGate(procs[a].job, "review")
      BY <2>2 DEF ParkOpen, HeldOpen, At
    <3>2. \A g \in GateIds : gates'[g] = gates[g] \/ gates'[g].job = procs[a].job
      BY <1>0, <1>m, <2>1, <3>1
    <3> QED BY <3>1, <3>2 DEF GatesQuiet, Opened
  <2>3. CASE ApplyGate(a)
    <3>1. UNCHANGED gates \/ (CanOpen(procs[a].job) /\ OpenGate(procs[a].job, "diff_policy"))
      BY <2>3 DEF ApplyGate
    <3>2. \A g \in GateIds : gates'[g] = gates[g] \/ gates'[g].kind = "diff_policy"
      BY <1>0, <1>m, <2>1, <3>1
    <3> QED BY <3>2 DEF GatesQuiet, Opened
  <2> QED BY <1>2, <2>2, <2>3
<1>3. ASSUME NEW k \in GateIds, NEW status \in {"resolved", "rejected", "expired"}, FlipGate(k, status)
      PROVE  GatesQuiet(a)
  BY <1>3, GateMoves DEF GatesQuiet, Opened
<1>4. ResolveFlip(a) => GatesQuiet(a)
  <2>1. ASSUME ResolveFlip(a)
        PROVE  GatesQuiet(a)
    <3>1. procs[a].goal \in {"resolved", "rejected"} /\ FlipGate(procs[a].gate, procs[a].goal)
      BY <2>1 DEF ResolveFlip, At, TypeInv, GoodProc, GateDecision
    <3>2. procs[a].gate \notin GateIds => UNCHANGED gates
      BY <1>0, <3>1 DEF FlipGate
    <3> QED BY <1>1, <1>3, <3>1, <3>2
  <2> QED BY <2>1
<1>5. ASSUME NEW g \in GateIds, NEW at \in Replicas, GateArrival(a, g, at)
      PROVE  GatesQuiet(a)
  BY <1>1, <1>3, <1>5 DEF GateArrival, Resolve, GateExpires
<1> QED BY <1>1, <1>2, <1>4, <1>5

\* Runners that only end.
LEMMA QuietRunners ==
  ASSUME \A c \in Claims : CalmRunner(c)
  PROVE  \A j \in Jobs : RunnersQuiet(j)
<1>1. \A c \in Claims : (Started(c))' => Started(c)
  BY DEF CalmRunner, Started
<1> QED BY <1>1 DEF CalmRunner, RunnersQuiet

LEMMA CalmQuiet ==
  ASSUME TypeInv, Calm
  PROVE  \A j \in Jobs : Quiet(j)
<1>0. /\ CalmPc \cap (EarlyPc \cup ReplyPc \cup {"held_open"}) = {}
      /\ Replicas \subseteq Procs /\ Handlers \subseteq Procs /\ "park_open" \in ReplyPc
  BY DEF CalmPc, LoopPc, FinalizePc, EarlyPc, ReplyPc, Procs
<1>1. \A p \in Procs : procs'[p] = procs[p] \/ procs'[p].pc \notin EarlyPc \cup ReplyPc \cup {"held_open"}
  BY <1>0 DEF Calm, CalmFlow
<1>2. \A j \in Jobs : EarlyQuiet(j) /\ ReplyQuiet(j)
  BY <1>0, <1>1 DEF EarlyQuiet, Early, ReplyQuiet, Replying, AtPark
<1>3. \A j \in Jobs : PlanQuiet(j)
  BY <1>0, <1>1 DEF Calm, PlanQuiet, PlanGate, GatesOf, Opened
<1>4. \A j \in Jobs : RunnersQuiet(j)
  BY QuietRunners DEF Calm
<1> QED BY <1>2, <1>3, <1>4 DEF Quiet

\* A step of the rows' table alone.
LEMMA TableQuiet ==
  ASSUME TypeInv, NEW k \in Jobs, TableOnly(k)
  PROVE  /\ \A j \in Jobs : Quiet(j)
         /\ \A j \in Jobs \ {k} : jobs'[j] = jobs[j]
<1>0. jobs \in [Jobs -> Row] /\ gates \in [GateIds -> Gate] /\ NoGate.status = "unopened"
      /\ [NoGate EXCEPT !.status = "deleted"].status = "deleted"
  BY DEF TypeInv, GoodGate, NoGate
<1>1. UNCHANGED <<procs, runners>> /\ \A j \in Jobs \ {k} : jobs'[j] = jobs[j]
  BY <1>0 DEF TableOnly, Create, Delete, Retry, Insert, Write, Update
<1>2. \A g \in GateIds : (Opened(g))' => gates'[g] = gates[g]
  <2>1. CASE Delete(k)
    BY <1>0, <2>1 DEF Delete, Opened
  <2>2. CASE UNCHANGED gates
    BY <2>2
  <2> QED BY <2>1, <2>2 DEF TableOnly, Create, Retry
<1>3. \A j \in Jobs : EarlyQuiet(j) /\ ReplyQuiet(j) /\ RunnersQuiet(j)
  BY <1>1 DEF EarlyQuiet, Early, ReplyQuiet, Replying, AtPark, RunnersQuiet, Started
<1>4. \A j \in Jobs : PlanQuiet(j)
  BY <1>1, <1>2 DEF PlanQuiet, PlanGate, GatesOf, Opened
<1> QED BY <1>1, <1>3, <1>4 DEF Quiet

\* One flow's steps that are quiet for every job.
QuietAct(a) ==
  \/ a \in Replicas /\ (Prepare(a) \/ (Provision(a) /\ UNCHANGED runners) \/ Release(a))
  \/ /\ a \in Handlers
     /\ \/ ResultRecord(a) \/ PhaseJudge(a) \/ ParkOpen(a) \/ ParkRow(a) \/ Decides(a) \/ HeldOpen(a)
        \/ \E at \in Replicas, g \in GateIds : GateArrival(a, g, at)
  \/ Applies(a)

LEMMA QuietSteady ==
  ASSUME TypeInv, NEW a \in Procs, \A q \in Procs \ {a} : procs'[q] = procs[q], QuietAct(a)
  PROVE  Steady(a)
<1>0. /\ procs \in [Procs -> Proc] /\ Idle.pc = "idle"
      /\ {"idle", "fin_read", "claim", "reply_exit"} \cap (EarlyPc \cup ReplyPc \cup {"held_open"}) = {}
  BY IdleTyped DEF TypeInv, GoodProc, EarlyPc, ReplyPc
<1>1. /\ \A pc : Goto(a, pc) => procs'[a].pc = pc
      /\ \A to, pr, next : CallFinalize(a, to, pr, next) => procs'[a].pc = "fin_read"
      /\ Leave(a) => procs'[a].pc = "idle"
  <2>1. \A pc : Goto(a, pc) => procs'[a].pc = pc
    BY <1>0 DEF Goto, Proc
  <2>2. \A to, pr, next : CallFinalize(a, to, pr, next) => procs'[a].pc = "fin_read"
    BY <1>0 DEF CallFinalize, Proc
  <2>3. Leave(a) => procs'[a].pc = "idle"
    BY <1>0 DEF Leave
  <2> QED BY <2>1, <2>2, <2>3
<1>2. procs'[a].pc \notin EarlyPc \cup ReplyPc \cup {"held_open"} => Steady(a)
  BY DEF Steady
<1>3. Onward(a) /\ procs'[a].pc \in EarlyPc \cup ReplyPc =>
        procs'[a].job = procs[a].job /\ procs'[a].claim = procs[a].claim
  BY <1>0 DEF Onward
<1>4. CASE Prepare(a) \/ (Provision(a) /\ UNCHANGED runners)
  <2>1. procs[a].pc \in EarlyPc /\ procs'[a].pc \in {"provision", "attach", "fin_read", "release"}
    BY <1>1, <1>4 DEF Prepare, Provision, Start, Adopt, AtCapacity, Refused, Answered, At, EarlyPc
  <2>2. Onward(a)
    BY <1>4, NamedOnward
  <2> QED BY <1>3, <2>1, <2>2 DEF Steady, EarlyPc, ReplyPc
<1>5. CASE Release(a)
  <2>1. [Idle EXCEPT !.pc = "claim", !.slots = procs[a].slots].pc = "claim"
    BY DEF Idle
  <2>2. procs'[a] = [Idle EXCEPT !.pc = "claim", !.slots = procs[a].slots]
    BY <1>0, <1>5 DEF Release, NextClaim
  <2>3. procs'[a].pc = "claim"
    BY <2>1, <2>2
  <2> QED BY <1>0, <1>2, <2>3
<1>6. CASE ResultRecord(a) \/ ParkRow(a)
  BY <1>0, <1>2, <1>6, ReplyingMoves DEF Replies
<1>7. CASE PhaseJudge(a) \/ ParkOpen(a)
  <2>1. Onward(a) /\ procs[a].pc \in ReplyPc
    BY <1>7, NamedOnward DEF Replies, PhaseJudge, ParkOpen, At, ReplyPc
  <2>2. CASE PhaseJudge(a)
    <3>1. ~AtPark(a) /\ procs'[a].pc \in {"idle", "advance", "park_advance", "fin_read"}
      BY <2>2, ReplyingMoves DEF Replies, PhaseJudge, At, AtPark
    <3> QED BY <1>3, <2>1, <3>1 DEF Steady, EarlyPc, ReplyPc
  <2>3. CASE ParkOpen(a)
    <3>1. procs'[a].pc = "park_row"
      BY <2>3, ReplyingMoves DEF Replies
    <3> QED BY <1>3, <2>1, <3>1 DEF Steady, EarlyPc, ReplyPc, AtPark
  <2> QED BY <1>7, <2>2, <2>3
<1>8. CASE HeldOpen(a)
  BY <1>0, <1>1, <1>2, <1>8 DEF HeldOpen
<1>9. CASE Decides(a)
  BY <1>2, <1>9, DecideMoves DEF EarlyPc, ReplyPc
<1>10. CASE Applies(a)
  BY <1>2, <1>10, ApplyMoves DEF EarlyPc, ReplyPc
<1>11. ASSUME NEW at \in Replicas, NEW g \in GateIds, GateArrival(a, g, at)
      PROVE  Steady(a)
  <2>1. \A goal : [Idle EXCEPT !.pc = "resolve", !.at = at, !.gate = g, !.job = gates[g].job,
                               !.goal = goal].pc = "resolve"
    BY DEF Idle
  <2>2. [Idle EXCEPT !.pc = "fin_read", !.at = at, !.gate = g, !.job = gates[g].job,
                     !.to = "cancelled", !.next = "leave"].pc = "fin_read"
    BY DEF Idle
  <2>3. CASE Resolve(a, g, at)
    <3>1. \E goal : procs'[a] = [Idle EXCEPT !.pc = "resolve", !.at = at, !.gate = g,
                                   !.job = gates[g].job, !.goal = goal]
      BY <1>0, <2>3 DEF Resolve
    <3>2. procs'[a].pc = "resolve"
      BY <2>1, <3>1
    <3> QED BY <1>2, <3>2 DEF EarlyPc, ReplyPc
  <2>4. CASE GateExpires(a, g, at)
    <3>1. procs'[a] = [Idle EXCEPT !.pc = "fin_read", !.at = at, !.gate = g, !.job = gates[g].job,
                         !.to = "cancelled", !.next = "leave"]
      BY <1>0, <2>4 DEF GateExpires
    <3>2. procs'[a].pc = "fin_read"
      BY <2>2, <3>1
    <3> QED BY <1>0, <1>2, <3>2
  <2> QED BY <1>11, <2>3, <2>4 DEF GateArrival
<1> QED BY <1>4, <1>5, <1>6, <1>7, <1>8, <1>9, <1>10, <1>11 DEF QuietAct

LEMMA QuietActs ==
  ASSUME TypeInv, NEW a \in Procs, \A q \in Procs \ {a} : procs'[q] = procs[q], QuietAct(a)
  PROVE  \A j \in Jobs : Quiet(j)
<1>1. \A j \in Jobs : EarlyQuiet(j) /\ ReplyQuiet(j)
  BY QuietSteady, SteadyQuiet
<1>2. GatesQuiet(a)
  <2>1. CASE UNCHANGED gates
    BY <2>1, QuietGates
  <2>2. CASE ~ UNCHANGED gates
    <3>1. \/ ParkOpen(a) \/ HeldOpen(a) \/ ApplyGate(a) \/ ResolveFlip(a)
          \/ \E at \in Replicas, g \in GateIds : GateArrival(a, g, at)
      BY <2>2 DEF QuietAct, Prepare, Provision, Release, ResultRecord, PhaseJudge, ParkRow, Decides,
         ResolveStuck, DriveBrief, DriveRequeue, ResumeGuard, ResumeFlip, Applies, ApplyLoad,
         ApplyJudge, ApplyBranch, ApplyPark
    <3> QED BY <3>1, QuietGates
  <2> QED BY <2>1, <2>2
<1>3. a \in Handlers \/ procs[a].pc \notin {"held_open", "park_open"}
  BY DEF QuietAct, Prepare, Provision, Release, Applies, ApplyLoad, ApplyJudge, ApplyBranch,
     ApplyGate, ApplyPark, At
<1>4. \A j \in Jobs : PlanQuiet(j)
  BY <1>2, <1>3, QuietSteady, SteadyQuiet
<1>5. \A c \in Claims : CalmRunner(c)
  <2>1. CASE UNCHANGED runners
    BY <2>1 DEF CalmRunner
  <2>2. CASE ~ UNCHANGED runners
    <3>1. Dismiss(a)
      BY <2>2 DEF QuietAct, Prepare, Provision, Release, ResultRecord, PhaseJudge, ParkOpen, ParkRow,
         Decides, ResolveFlip, ResolveStuck, DriveBrief, DriveRequeue, ResumeGuard, ResumeFlip,
         HeldOpen, GateArrival, Resolve, GateExpires, Applies, ApplyLoad, ApplyJudge, ApplyBranch,
         ApplyGate, ApplyPark
    <3> QED BY <3>1, ReplyMoves DEF CalmRunner, Started
  <2> QED BY <2>1, <2>2
<1>6. \A j \in Jobs : RunnersQuiet(j)
  BY <1>5, QuietRunners
<1> QED BY <1>1, <1>4, <1>6 DEF Quiet

(***************************************************************************)
(* What the regime says of a worker that provisions, and of a handler that *)
(* serves.                                                                 *)
(***************************************************************************)
LEMMA EarlyAlone ==
  ASSUME Numbered, Serving, NEW j \in Jobs, Regime(j), InHand(jobs[j]),
         NEW w \in Replicas, Early(w), procs[w].job = j
  PROVE  /\ jobs[j].status = "provisioning" /\ jobs[j].lease = procs[w].claim /\ ~jobs[j].diff
         /\ \A v \in Replicas : Early(v) /\ procs[v].job = j => v = w
         /\ \A h \in Handlers : Replying(h) /\ procs[h].job = j =>
              AtPark(h) /\ jobs[j].phase \in Approved
         /\ \A c \in Claims : Started(c) /\ runners[c].job = j => Spent(c)
         /\ PlanGate(j) => jobs[j].phase \in Approved
<1>1. jobs[j].status = "provisioning" /\ jobs[j].lease = procs[w].claim
  BY DEF Regime, Provisioned
<1>2. \A v \in Replicas : Early(v) /\ procs[v].job = j => v = w
  BY <1>1 DEF Regime, Provisioned, Numbered
<1>3. Live(jobs[j]) /\ Exists(jobs[j]) /\ ~jobs[j].diff
  BY <1>1 DEF Regime, Handed, Live, Exists, Ended, NoRow, Terminal
<1>4. \A c \in Claims : Started(c) => c # jobs[j].lease
  BY <1>1 DEF Numbered
<1>5. ASSUME NEW h \in Handlers, Replying(h), procs[h].job = j
      PROVE  AtPark(h) /\ jobs[j].phase \in Approved
  <2>1. procs[h].claim \in Claims /\ Started(procs[h].claim)
    BY <1>5 DEF Serving, Started
  <2> QED BY <1>3, <1>4, <1>5, <2>1 DEF Regime, Served
<1>6. \A c \in Claims : Started(c) /\ runners[c].job = j => Spent(c)
  BY <1>4 DEF Regime, Fenced
<1>7. PlanGate(j) => jobs[j].phase \in Approved
  BY <1>3 DEF Regime, Planned
<1> QED BY <1>1, <1>2, <1>3, <1>5, <1>6, <1>7

LEMMA ServedAlone ==
  ASSUME Numbered, Serving, NEW j \in Jobs, Regime(j), Live(jobs[j]),
         NEW h \in Handlers, Replying(h), procs[h].job = j,
         ~(AtPark(h) /\ jobs[j].phase \in Approved)
  PROVE  /\ InRun(jobs[j]) /\ jobs[j].lease = procs[h].claim /\ jobs[j].token = procs[h].claim
         /\ ~jobs[j].diff
         /\ \A w \in Replicas : Early(w) => procs[w].job # j
         /\ \A k \in Handlers : Replying(k) /\ procs[k].job = j =>
              k = h \/ (AtPark(k) /\ jobs[j].phase \in Approved)
         /\ \A c \in Claims \ {procs[h].claim} : Started(c) /\ runners[c].job = j => Spent(c)
<1>1. InRun(jobs[j]) /\ jobs[j].lease = procs[h].claim /\ jobs[j].token = procs[h].claim
  BY DEF Regime, Served
<1>2. procs[h].claim \in Claims /\ Started(procs[h].claim) /\ InHand(jobs[j])
  BY <1>1 DEF Serving, Started, InRun, InHand
<1>3. ~jobs[j].diff
  BY DEF Regime, Handed
<1>4. ASSUME NEW w \in Replicas, Early(w), procs[w].job = j
      PROVE  FALSE
  BY <1>1, <1>2, <1>4 DEF Regime, Provisioned, Numbered
<1>5. \A k \in Handlers : Replying(k) /\ procs[k].job = j =>
        k = h \/ (AtPark(k) /\ jobs[j].phase \in Approved)
  BY <1>1 DEF Regime, Served, Serving
<1>6. \A c \in Claims \ {procs[h].claim} : Started(c) /\ runners[c].job = j => Spent(c)
  BY <1>1, <1>2 DEF Regime, Fenced
<1> QED BY <1>1, <1>3, <1>4, <1>5, <1>6

\* A call that is not the last of its runner: no gate of the plan waits then.
LEMMA ServedEarlier ==
  ASSUME Serving, NEW j \in Jobs, Regime(j), Exists(jobs[j]),
         NEW h \in Handlers, Replying(h), procs[h].job = j, ~AtPark(h)
  PROVE  (PlanGate(j) => jobs[j].phase \in Approved) /\ ~jobs[j].diff
<1>1. procs[h].claim \in Claims /\ Started(procs[h].claim) /\ runners[procs[h].claim].job = j
  BY DEF Serving, Started
<1>2. ~Spent(procs[h].claim)
  BY DEF Spent
<1> QED BY <1>1, <1>2 DEF Regime, Planned, Handed

\* What quiet steps leave of the regime, whatever happens to the row.
LEMMA QuietLeaves ==
  ASSUME Serving', NEW j \in Jobs, Quiet(j)
  PROVE  /\ (\A c \in Claims : Started(c) /\ runners[c].job = j => Spent(c)) =>
              (\A c \in Claims : Started(c) /\ runners[c].job = j => Spent(c))'
         /\ (\A w \in Replicas : Early(w) => procs[w].job # j) =>
              (\A w \in Replicas : Early(w) => procs[w].job # j)'
         /\ (\A h \in Handlers : Replying(h) /\ procs[h].job = j => AtPark(h)) =>
              (\A h \in Handlers : Replying(h) /\ procs[h].job = j => AtPark(h))'
         /\ (PlanGate(j))' => PlanGate(j)
<1>1. ASSUME \A c \in Claims : Started(c) /\ runners[c].job = j => Spent(c)
      PROVE  (\A c \in Claims : Started(c) /\ runners[c].job = j => Spent(c))'
  BY <1>1, SpentKeeps DEF Quiet, RunnersQuiet
<1>2. (\A w \in Replicas : Early(w) => procs[w].job # j) =>
        (\A w \in Replicas : Early(w) => procs[w].job # j)'
  BY DEF Quiet, EarlyQuiet
<1>3. (\A h \in Handlers : Replying(h) /\ procs[h].job = j => AtPark(h)) =>
        (\A h \in Handlers : Replying(h) /\ procs[h].job = j => AtPark(h))'
  BY DEF Quiet, ReplyQuiet
<1>4. (PlanGate(j))' => PlanGate(j)
  BY DEF Quiet, PlanQuiet
<1> QED BY <1>1, <1>2, <1>3, <1>4

(***************************************************************************)
(* The regime over each statement on the job's row.                        *)
(***************************************************************************)
\* A token minted anew: nobody serves a runner under the old one.
LEMMA TokenKeeps ==
  ASSUME TypeInv, Numbered, Serving, Serving', NEW j \in Jobs, Regime(j), Quiet(j),
         NEW w \in Replicas, Early(w), procs[w].job = j, NEW c, jobs'[j] = [jobs[j] EXCEPT !.token = c]
  PROVE  (Regime(j))'
<1>1. /\ jobs'[j].status = jobs[j].status /\ jobs'[j].lease = jobs[j].lease
      /\ jobs'[j].phase = jobs[j].phase /\ jobs'[j].diff = jobs[j].diff
  BY DEF TypeInv, Row
<1>2. \A d \in Claims : (Started(d))' /\ runners'[d].job = j =>
        Started(d) /\ runners[d].job = j /\ (Spent(d) => (Spent(d))')
  BY SpentKeeps DEF Quiet, RunnersQuiet
<1>3. (Provisioned(j))'
  BY <1>1 DEF Regime, Provisioned, Quiet, EarlyQuiet, InHand
<1>4. (Fenced(j))'
  BY <1>1, <1>2 DEF Regime, Fenced, InHand
<1>5. \A h \in Handlers : Replying(h) /\ procs[h].job = j /\ Live(jobs[j]) =>
        AtPark(h) /\ jobs[j].phase \in Approved
  <2>1. InRun(jobs[j]) => InHand(jobs[j])
    BY DEF InRun, InHand
  <2> QED BY <2>1, EarlyAlone DEF Regime, Served
<1>6. (Served(j))'
  BY <1>1, <1>5 DEF Served, Quiet, ReplyQuiet, Live, Ended, Exists
<1>7. (Planned(j))'
  BY <1>1, <1>2 DEF Regime, Planned, Quiet, PlanQuiet, EarlyQuiet, Exists
<1>8. (Handed(j))'
  BY <1>1 DEF Regime, Handed, Quiet, ReplyQuiet
<1> QED BY <1>3, <1>4, <1>6, <1>7, <1>8 DEF Regime

\* A claim rewound at capacity.
LEMMA ReleaseKeeps ==
  ASSUME TypeInv, Numbered, Serving, Serving', NEW j \in Jobs, Regime(j), Quiet(j),
         NEW w \in Replicas, Early(w), procs[w].job = j, ~(Early(w))',
         jobs[j].status = "provisioning", jobs'[j] = Released(jobs[j])
  PROVE  (Regime(j))'
<1>1. /\ jobs'[j].status = "queued" /\ jobs'[j].lease = 0
      /\ jobs'[j].phase = jobs[j].phase /\ jobs'[j].diff = jobs[j].diff
  BY DEF TypeInv, Row, Released
<1>2. InHand(jobs[j])
  BY DEF InHand
<1>3. \A v \in Replicas : (Early(v))' => procs'[v].job # j
  BY <1>2, EarlyAlone DEF Quiet, EarlyQuiet
<1>4. (\A c \in Claims : Started(c) /\ runners[c].job = j => Spent(c))'
  <2>1. \A c \in Claims : Started(c) /\ runners[c].job = j => Spent(c)
    BY <1>2, EarlyAlone
  <2> QED BY <2>1, QuietLeaves
<1>5. \A h \in Handlers : (Replying(h) /\ procs[h].job = j)' =>
        (AtPark(h))' /\ jobs[j].phase \in Approved
  BY <1>2, EarlyAlone DEF Quiet, ReplyQuiet
<1>6. (PlanGate(j))' => jobs[j].phase \in Approved
  BY <1>2, EarlyAlone DEF Quiet, PlanQuiet
<1>7. ~jobs[j].diff
  BY <1>2, EarlyAlone
<1> QED BY <1>1, <1>3, <1>4, <1>5, <1>6, <1>7 DEF Regime, Provisioned, Fenced, Served, Planned, Handed

\* The last call of a single-shot runner.
LEMMA ResultKeeps ==
  ASSUME TypeInv, Numbered, Serving, Serving', NEW j \in Jobs, Regime(j), Quiet(j),
         NEW h \in Handlers, Replying(h), ~AtPark(h), procs[h].job = j, ~(Replying(h))',
         Live(jobs[j]), jobs'[j] = [jobs[j] EXCEPT !.status = "applying", !.diff = TRUE]
  PROVE  (Regime(j))'
<1>1. jobs'[j].status = "applying" /\ jobs'[j].diff /\ jobs'[j].phase = jobs[j].phase
  BY DEF TypeInv, Row
<1>2. \A k \in Handlers : (Replying(k) /\ procs[k].job = j)' =>
        (AtPark(k))' /\ jobs'[j].phase \in Approved
  BY <1>1, ServedAlone DEF Quiet, ReplyQuiet
<1>3. (Planned(j))'
  <2>1. PlanGate(j) => jobs[j].phase \in Approved
    BY ServedEarlier DEF Live
  <2> QED BY <1>1, <2>1 DEF Planned, Quiet, PlanQuiet
<1>4. (Handed(j))'
  BY <1>1, <1>2 DEF Handed
<1>5. ~(InHand(jobs[j]))'
  BY <1>1 DEF InHand
<1> QED BY <1>2, <1>3, <1>4, <1>5 DEF Regime, Provisioned, Fenced, Served

\* The last call of a phased runner: the job is parked for its plan.
LEMMA ParkKeeps ==
  ASSUME TypeInv, Numbered, Serving, Serving', NEW j \in Jobs, Regime(j), Quiet(j),
         NEW h \in Handlers, Replying(h), procs[h].job = j, ~(Replying(h))',
         CanPark(jobs[j]), jobs'[j] = Parked(jobs[j])
  PROVE  (Regime(j))'
<1>0. Live(jobs[j]) /\ jobs[j].phase = "await_human" /\ jobs[j].phase \notin Approved
  BY DEF CanPark, Approved
<1>1. jobs'[j].status = "waiting" /\ jobs'[j].phase = "await_human" /\ jobs'[j].diff = jobs[j].diff
  BY <1>0 DEF TypeInv, Row, Parked
<1>2. ~jobs[j].diff /\ InRun(jobs[j])
  BY <1>0, ServedAlone
<1>3. \A k \in Handlers : (Replying(k))' => procs'[k].job # j
  BY <1>0, ServedAlone DEF Quiet, ReplyQuiet
<1>4. (Planned(j))'
  <2>1. PlanGate(j) => /\ \A w \in Replicas : Early(w) => procs[w].job # j
                       /\ \A c \in Claims : Started(c) /\ runners[c].job = j => Spent(c)
    BY <1>0 DEF Regime, Planned, Live
  <2>2. (PlanGate(j))' => (/\ \A w \in Replicas : Early(w) => procs[w].job # j
                           /\ \A c \in Claims : Started(c) /\ runners[c].job = j => Spent(c))'
    BY <2>1, QuietLeaves
  <2> QED BY <1>1, <1>2, <2>2 DEF Planned
<1>5. (Handed(j))'
  BY <1>1, <1>2 DEF Handed
<1>6. ~(InHand(jobs[j]))'
  BY <1>1 DEF InHand
<1> QED BY <1>3, <1>4, <1>5, <1>6 DEF Regime, Provisioned, Fenced, Served

\* The plan is approved: the job is queued again.
LEMMA RequeueKeeps ==
  ASSUME TypeInv, Numbered, Serving, Serving', NEW j \in Jobs, Regime(j), Quiet(j), PlanGate(j),
         CanRequeue(jobs[j]), jobs'[j] = RequeuedAt(jobs[j], "implement")
  PROVE  (Regime(j))'
<1>0. Exists(jobs[j]) /\ jobs[j].phase \notin Approved
  BY DEF CanRequeue, Live, Approved
<1>1. /\ jobs'[j].status = "queued" /\ jobs'[j].phase = "implement" /\ jobs'[j].lease = 0
      /\ jobs'[j].diff = jobs[j].diff
  BY DEF TypeInv, Row, RequeuedAt
<1>2. /\ ~jobs[j].diff
      /\ \A w \in Replicas : Early(w) => procs[w].job # j
      /\ \A c \in Claims : Started(c) /\ runners[c].job = j => Spent(c)
  BY <1>0 DEF Regime, Planned
<1>3. \A h \in Handlers : Replying(h) /\ procs[h].job = j => AtPark(h)
  <2>1. ASSUME NEW h \in Handlers, Replying(h), procs[h].job = j
        PROVE  AtPark(h)
    <3>1. procs[h].claim \in Claims /\ Started(procs[h].claim) /\ runners[procs[h].claim].job = j
      BY <2>1 DEF Serving, Started
    <3> QED BY <1>2, <2>1, <3>1 DEF Spent
  <2> QED BY <2>1
<1>4. /\ (\A w \in Replicas : Early(w) => procs[w].job # j)'
      /\ (\A c \in Claims : Started(c) /\ runners[c].job = j => Spent(c))'
      /\ (\A h \in Handlers : Replying(h) /\ procs[h].job = j => AtPark(h))'
  BY <1>2, <1>3, QuietLeaves
<1>5. "implement" \in Approved
  BY DEF Approved
<1> QED BY <1>1, <1>2, <1>4, <1>5 DEF Regime, Provisioned, Fenced, Served, Planned, Handed

\* An apply that waits for an approval, and one that got it.
LEMMA ApplyWaitKeeps ==
  ASSUME TypeInv, NEW j \in Jobs, Regime(j), Quiet(j), jobs[j].diff,
         NEW to \in {"waiting", "applying"}, jobs'[j].status = to, jobs'[j].diff,
         jobs'[j].phase = jobs[j].phase
  PROVE  (Regime(j))'
<1>1. \A k \in Handlers : (Replying(k) /\ procs[k].job = j)' =>
        (AtPark(k))' /\ jobs'[j].phase \in Approved
  BY DEF Regime, Handed, Quiet, ReplyQuiet
<1>2. (Planned(j))'
  <2>1. PlanGate(j) => jobs[j].phase \in Approved
    <3>1. Exists(jobs[j])
      BY DEF Regime, Handed, Exists, NoRow, Terminal
    <3> QED BY <3>1 DEF Regime, Planned
  <2> QED BY <2>1 DEF Planned, Quiet, PlanQuiet
<1>3. (Handed(j))'
  BY <1>1 DEF Handed
<1>4. ~(InHand(jobs[j]))'
  BY DEF InHand
<1> QED BY <1>1, <1>2, <1>3, <1>4 DEF Regime, Provisioned, Fenced, Served

\* A row that comes or goes.
LEMMA VacantRegime ==
  ASSUME NEW j \in Jobs, ~(Exists(jobs[j]))', ~jobs'[j].diff,
         jobs'[j].status \in NoRow
  PROVE  (Regime(j))'
<1>1. ~(InHand(jobs[j]))' /\ ~(Live(jobs[j]))'
  BY DEF InHand, Live, NoRow
<1>2. (Handed(j))'
  BY DEF Handed, NoRow
<1> QED BY <1>1, <1>2 DEF Regime, Provisioned, Fenced, Served, Planned

LEMMA NewRegime ==
  ASSUME TypeInv, BornInv, NEW j \in Jobs, jobs[j].status = "unborn", Quiet(j), ~jobs'[j].diff,
         jobs'[j].status = "queued"
  PROVE  (Regime(j))'
<1>0. /\ Replicas \subseteq Procs /\ Handlers \subseteq Procs
      /\ \A pc \in EarlyPc \cup ReplyPc \cup {"held_open", "park_open"} : pc \notin LoopPc
      /\ ~Born(j)
  BY DEF Procs, EarlyPc, ReplyPc, LoopPc, Born
<1>1. /\ \A w \in Replicas : Early(w) => procs[w].job # j
      /\ \A h \in Handlers : Replying(h) => procs[h].job # j
      /\ \A c \in Claims : Started(c) => runners[c].job # j
      /\ ~PlanGate(j)
  BY <1>0 DEF BornInv, Early, Replying, PlanGate, GatesOf
<1>2. /\ \A w \in Replicas : (Early(w))' => procs'[w].job # j
      /\ \A h \in Handlers : (Replying(h))' => procs'[h].job # j
      /\ \A c \in Claims : (Started(c))' => runners'[c].job # j
      /\ ~(PlanGate(j))'
  BY <1>1 DEF Quiet, EarlyQuiet, ReplyQuiet, RunnersQuiet, PlanQuiet
<1> QED BY <1>2 DEF Regime, Provisioned, Fenced, Served, Planned, Handed

(***************************************************************************)
(* The regime over the steps that bring somebody new to act for a job.     *)
(***************************************************************************)
LEMMA ClaimKeeps ==
  ASSUME TypeInv, LeaseDiscipline, Serving', NEW j \in Jobs, Regime(j), NEW w \in Replicas, Claim(w)
  PROVE  (Regime(j))'
<1>0. /\ procs \in [Procs -> Proc] /\ jobs \in [Jobs -> Row] /\ Replicas \subseteq Procs
      /\ Handlers \subseteq Procs /\ Replicas \cap Handlers = {} /\ claims + 1 # 0
  BY SortsAssumption, BoundsAssumption DEF TypeInv, GoodProc, Procs
<1>1. PICK k \in Jobs :
        /\ CanClaim(jobs[k])
        /\ Write(k, CanClaim(jobs[k]), Claimed(jobs[k], claims + 1))
        /\ procs' = [procs EXCEPT ![w].pc = "prepare", ![w].job = k,
                       ![w].claim = claims + 1, ![w].slots = @ - 1]
  BY DEF Claim
<1>2. UNCHANGED <<gates, runners>> /\ procs[w].pc = "claim"
  BY DEF Claim, At
<1>3. /\ procs'[w].job = k /\ procs'[w].claim = claims + 1 /\ procs'[w].pc = "prepare"
      /\ \A q \in Procs \ {w} : procs'[q] = procs[q]
  BY <1>0, <1>1 DEF Proc
<1>4. jobs'[k] = Claimed(jobs[k], claims + 1) /\ \A i \in Jobs \ {k} : jobs'[i] = jobs[i]
  BY <1>0, <1>1 DEF Write, Update
<1>5. RunnersQuiet(j) /\ ReplyQuiet(j) /\ PlanQuiet(j)
  BY <1>0, <1>2, <1>3 DEF RunnersQuiet, Started, ReplyQuiet, Replying, AtPark, PlanQuiet, PlanGate,
     GatesOf, Opened
<1>6. \A v \in Replicas \ {w} : (Early(v))' => Early(v) /\ procs'[v] = procs[v]
  BY <1>0, <1>3 DEF Early
<1>7. CASE j # k
  <2>1. EarlyQuiet(j)
    BY <1>3, <1>6, <1>7 DEF EarlyQuiet
  <2>2. Minor(jobs[j], jobs'[j])
    BY <1>0, <1>4, <1>7, MinorStatements
  <2> QED BY <1>5, <2>1, <2>2, UndisturbedKeeps DEF Quiet
<1>8. CASE j = k
  <2>1. /\ jobs[j].status = "queued" /\ jobs[j].lease = 0
        /\ jobs'[j].status = "provisioning" /\ jobs'[j].lease = claims + 1
        /\ jobs'[j].phase = jobs[j].phase /\ jobs'[j].diff = jobs[j].diff
    <3>1. jobs[j].status = "queued" /\ jobs[j] \in Row /\ jobs'[j] = Claimed(jobs[j], claims + 1)
      BY <1>0, <1>1, <1>4, <1>8 DEF CanClaim
    <3>2. jobs[j].lease = 0
      BY <3>1 DEF LeaseDiscipline
    <3> QED BY <3>1, <3>2 DEF Claimed, Row
  <2>2. \A v \in Replicas : Early(v) => procs[v].job # j
    BY <2>1 DEF Regime, Provisioned, InHand
  <2>3. \A c \in Claims : Started(c) /\ runners[c].job = j => Spent(c)
    <3>1. 0 \notin Claims
      BY BoundsAssumption DEF Claims
    <3> QED BY <2>1, <3>1 DEF Regime, Fenced, InHand
  <2>4. \A h \in Handlers : Replying(h) /\ procs[h].job = j => AtPark(h) /\ jobs[j].phase \in Approved
    BY <2>1 DEF Regime, Served, Live, Exists, Ended, NoRow, Terminal, InRun
  <2>5. /\ PlanGate(j) => jobs[j].phase \in Approved
        /\ ~jobs[j].diff
    BY <2>1 DEF Regime, Planned, Handed, Exists, NoRow, Terminal
  <2>6. \A v \in Replicas : (Early(v))' /\ procs'[v].job = j => procs'[v].claim = claims + 1
    BY <1>3, <1>6, <2>2
  <2>7. (\A c \in Claims : Started(c) /\ runners[c].job = j => Spent(c))'
    BY <1>2, <1>5, <2>3, SpentKeeps DEF Started
  <2>8. \A h \in Handlers : (Replying(h) /\ procs[h].job = j)' =>
          (AtPark(h))' /\ jobs[j].phase \in Approved
    BY <1>5, <2>4 DEF ReplyQuiet
  <2>9. (PlanGate(j))' => jobs[j].phase \in Approved
    BY <1>5, <2>5 DEF PlanQuiet
  <2> QED BY <2>1, <2>5, <2>6, <2>7, <2>8, <2>9 DEF Regime, Provisioned, Fenced, Served, Planned, Handed
<1> QED BY <1>7, <1>8

LEMMA StartKeeps ==
  ASSUME TypeInv, Numbered, Serving, Serving', NEW j \in Jobs, Regime(j),
         NEW w \in Replicas, Provision(w), Start(w)
  PROVE  (Regime(j))'
<1> DEFINE k == procs[w].job
           c == procs[w].claim
<1>0. /\ procs \in [Procs -> Proc] /\ jobs \in [Jobs -> Row] /\ w \in Procs
      /\ Replicas \subseteq Procs /\ Handlers \subseteq Procs /\ Replicas \cap Handlers = {}
      /\ runners \in [Claims -> GoodRunner]
  BY SortsAssumption DEF TypeInv, GoodProc, Procs
<1>1. procs[w].pc = "provision" /\ Early(w) /\ k \in Jobs /\ c \in Claims /\ ~Started(c)
  <2>1. procs[w].pc = "provision" /\ Early(w) /\ procs[w].pc \notin LoopPc
    BY DEF Provision, At, Early, EarlyPc, LoopPc
  <2> QED BY <1>0, <2>1, JobTyped DEF Numbered
<1>2. procs'[w].pc \in {"attach", "fin_read"} /\ \A q \in Procs \ {w} : procs'[q] = procs[q]
  <2>1. Answered(w) => procs'[w].pc \in {"attach", "fin_read"}
    BY <1>0 DEF Answered, Goto, CallFinalize, Proc
  <2> QED BY <1>0, <2>1, NamedOnward DEF Start, Onward
<1>3. UNCHANGED gates
  BY DEF Provision
<1>4. /\ \A i \in Jobs \ {k} : jobs'[i] = jobs[i]
      /\ jobs'[k] = jobs[k] \/ jobs'[k] = Reissued(jobs[k], c)
  BY <1>0, <1>1 DEF Start, FetchPolicy, Write, Update, JobOf
<1>5. runners'[c].job = k /\ \A d \in Claims \ {c} : runners'[d] = runners[d]
  <2>1. \A shim, i : [NoRunner EXCEPT !.stage = "boot", !.shim = shim, !.job = i].job = i
    BY DEF NoRunner
  <2> QED BY <1>0, <1>1, <2>1 DEF Start
<1>6. EarlyQuiet(j) /\ ReplyQuiet(j) /\ PlanQuiet(j)
  <2>1. Steady(w) /\ w \in Procs
    BY <1>0, <1>2 DEF Steady, EarlyPc, ReplyPc
  <2>2. GatesQuiet(w)
    BY <1>0, <1>3, QuietGates
  <2> QED BY <1>1, <2>1, <2>2, SteadyQuiet
<1>7. \A d \in Claims \ {c} : (Started(d))' /\ runners'[d].job = j =>
        Started(d) /\ runners[d].job = j /\ (Spent(d) => (Spent(d))')
  BY <1>5, <1>6, SpentKeeps DEF Started
<1>8. CASE j # k
  <2>1. RunnersQuiet(j)
    BY <1>5, <1>8 DEF RunnersQuiet, Started
  <2>2. Minor(jobs[j], jobs'[j])
    BY <1>0, <1>4, <1>8, MinorStatements
  <2> QED BY <1>6, <2>1, <2>2, UndisturbedKeeps DEF Quiet
<1>9. CASE j = k
  <2>1. /\ jobs'[j].status = jobs[j].status /\ jobs'[j].lease = jobs[j].lease
        /\ jobs'[j].phase = jobs[j].phase /\ jobs'[j].diff = jobs[j].diff
    BY <1>0, <1>4, <1>9 DEF Reissued, Row
  <2>2. InHand(jobs[j]) => jobs[j].lease = c
    BY <1>1, <1>9 DEF Regime, Provisioned
  <2>3. (Provisioned(j))'
    BY <1>6, <2>1 DEF Regime, Provisioned, EarlyQuiet, InHand
  <2>4. (Fenced(j))'
    BY <1>7, <2>1, <2>2 DEF Regime, Fenced, InHand
  <2>5. \A h \in Handlers : Replying(h) /\ procs[h].job = j /\ Live(jobs[j]) =>
          AtPark(h) /\ jobs[j].phase \in Approved
    <3>1. InRun(jobs[j]) => InHand(jobs[j])
      BY DEF InRun, InHand
    <3> QED BY <1>1, <1>9, <3>1, EarlyAlone DEF Regime, Served
  <2>6. (Served(j))'
    BY <1>6, <2>1, <2>5 DEF Served, ReplyQuiet, Live, Ended, Exists
  <2>7. (Planned(j))'
    BY <1>1, <1>6, <1>9, <2>1 DEF Regime, Planned, PlanQuiet, Exists
  <2>8. (Handed(j))'
    BY <1>6, <2>1 DEF Regime, Handed, ReplyQuiet
  <2> QED BY <2>3, <2>4, <2>6, <2>7, <2>8 DEF Regime
<1> QED BY <1>8, <1>9

LEMMA CallKeeps ==
  ASSUME TypeInv, Numbered, Serving, Serving', NEW j \in Jobs, Regime(j),
         NEW c \in Claims, NEW h \in Handlers, procs[h].pc = "idle",
         runners[c].stage \in {"boot", "work"}, Authentic(c), InRun(RunnerJob(c)),
         runners'[c].stage = "call", runners'[c].job = runners[c].job,
         \A d \in Claims \ {c} : runners'[d] = runners[d],
         procs'[h].claim = c, procs'[h].job = runners[c].job,
         procs'[h].pc \in {"spec", "result", "phase"},
         \A q \in Procs \ {h} : procs'[q] = procs[q],
         UNCHANGED <<jobs, gates>>
  PROVE  (Regime(j))'
<1>0. /\ h \in Procs /\ Replicas \subseteq Procs /\ Handlers \subseteq Procs
      /\ Replicas \cap Handlers = {} /\ Started(c)
  BY SortsAssumption DEF Procs, Started
<1>1. EarlyQuiet(j) /\ PlanQuiet(j)
  BY <1>0 DEF EarlyQuiet, Early, PlanQuiet, PlanGate, GatesOf, Opened
<1>2. \A k \in Handlers \ {h} : (Replying(k))' => Replying(k) /\ procs'[k] = procs[k]
  BY <1>0 DEF Replying
<1>3. ASSUME NEW d \in Claims \ {c}, Spent(d)
      PROVE  (Spent(d))'
  BY <1>2, <1>3 DEF Spent, AtPark, Replying
<1>4. CASE runners[c].job # j
  <2>1. ReplyQuiet(j)
    BY <1>2, <1>4 DEF ReplyQuiet, AtPark
  <2>2. RunnersQuiet(j)
    BY <1>4 DEF RunnersQuiet, Started
  <2>3. Minor(jobs[j], jobs'[j])
    BY MinorStatements DEF TypeInv
  <2> QED BY <1>1, <2>1, <2>2, <2>3, UndisturbedKeeps DEF Quiet
<1>5. CASE runners[c].job = j
  <2>1. InRun(jobs[j]) /\ jobs[j].token = c /\ InHand(jobs[j]) /\ Exists(jobs[j])
    BY <1>5 DEF Authentic, RunnerJob, InRun, InHand
  <2>2. ~Spent(c)
    BY DEF Spent
  <2>3. jobs[j].lease = c
    BY <1>0, <1>5, <2>1, <2>2 DEF Regime, Fenced
  <2>4. (Provisioned(j))'
    BY <1>1 DEF Regime, Provisioned, EarlyQuiet, InHand
  <2>5. (Fenced(j))'
    BY <1>3, <2>3 DEF Regime, Fenced, Started, InHand
  <2>6. (Served(j))'
    <3>1. ASSUME NEW k \in Handlers \ {h}, (Replying(k))', procs'[k].job = j, (Live(jobs[j]))'
          PROVE  \/ InRun(jobs[j]) /\ jobs[j].lease = procs'[k].claim /\ jobs[j].token = procs'[k].claim
                 \/ (AtPark(k))' /\ jobs[j].phase \in Approved
      BY <1>2, <3>1 DEF Regime, Served, AtPark, Live, Exists, Ended
    <3> QED BY <2>1, <2>3, <3>1 DEF Served, InRun
  <2>7. (Planned(j))'
    BY <1>0, <1>1, <1>5, <2>1, <2>2 DEF Regime, Planned, PlanQuiet
  <2>8. (Handed(j))'
    BY <2>1 DEF Regime, Handed, InRun, Terminal
  <2> QED BY <2>4, <2>5, <2>6, <2>7, <2>8 DEF Regime
<1> QED BY <1>4, <1>5

\* A runner that is told to go on.
LEMMA AnswerKeeps ==
  ASSUME TypeInv, Numbered, Serving, Serving', NEW j \in Jobs, Regime(j),
         NEW h \in Handlers, Replying(h), ~AtPark(h), procs'[h].pc = "idle",
         \A q \in Procs \ {h} : procs'[q] = procs[q],
         \A d \in Claims \ {procs[h].claim} : runners'[d] = runners[d],
         runners'[procs[h].claim].job = runners[procs[h].claim].job,
         UNCHANGED gates, procs[h].job \in Jobs,
         \A i \in Jobs \ {procs[h].job} : jobs'[i] = jobs[i],
         LET r == jobs[procs[h].job]
             s == jobs'[procs[h].job]
         IN /\ s.lease = r.lease /\ s.token = r.token /\ s.diff = r.diff
            /\ ~Live(r) => s = r
            /\ s.status = r.status \/ (InRun(r) /\ InRun(s))
            /\ r.phase \in Approved => s.phase \in Approved
  PROVE  (Regime(j))'
<1> DEFINE k == procs[h].job
           c == procs[h].claim
<1>0. /\ h \in Procs /\ Replicas \subseteq Procs /\ Handlers \subseteq Procs
      /\ Replicas \cap Handlers = {} /\ c \in Claims /\ runners[c].job = k /\ Started(c)
  BY SortsAssumption DEF Procs, Serving, Started
<1>1. EarlyQuiet(j) /\ ReplyQuiet(j) /\ PlanQuiet(j)
  <2>1. Steady(h) /\ GatesQuiet(h)
    BY <1>0, QuietGates DEF Steady, EarlyPc, ReplyPc
  <2> QED BY <1>0, <2>1, SteadyQuiet
<1>2. \A d \in Claims \ {c} : (Started(d))' /\ runners'[d].job = j =>
        Started(d) /\ runners[d].job = j /\ (Spent(d) => (Spent(d))')
  BY <1>1, SpentKeeps DEF Started
<1>3. CASE j # k
  <2>1. RunnersQuiet(j)
    BY <1>0, <1>3 DEF RunnersQuiet, Started
  <2>2. Minor(jobs[j], jobs'[j])
    BY <1>3, MinorStatements DEF TypeInv
  <2> QED BY <1>1, <2>1, <2>2, UndisturbedKeeps DEF Quiet
<1>4. CASE j = k
  <2>1. Live(jobs[j]) =>
          /\ InRun(jobs[j]) /\ jobs[j].lease = c
          /\ \A w \in Replicas : Early(w) => procs[w].job # j
          /\ \A i \in Handlers : Replying(i) /\ procs[i].job = j =>
               i = h \/ (AtPark(i) /\ jobs[j].phase \in Approved)
          /\ \A d \in Claims \ {c} : Started(d) /\ runners[d].job = j => Spent(d)
    BY <1>4, ServedAlone
  <2>2. Exists(jobs[j]) => (PlanGate(j) => jobs[j].phase \in Approved) /\ ~jobs[j].diff
    BY <1>4, ServedEarlier
  <2>3. /\ jobs'[j].lease = jobs[j].lease /\ jobs'[j].token = jobs[j].token
        /\ jobs'[j].diff = jobs[j].diff
        /\ ~Live(jobs[j]) => jobs'[j] = jobs[j]
        /\ jobs'[j].status = jobs[j].status \/ (InRun(jobs[j]) /\ InRun(jobs'[j]))
        /\ jobs[j].phase \in Approved => jobs'[j].phase \in Approved
    BY <1>4
  <2>4. CASE ~Live(jobs[j])
    <3>1. ~(InHand(jobs[j]))' /\ ~(Live(jobs[j]))'
      BY <2>3, <2>4 DEF InHand, Live, Exists, Ended, NoRow, Terminal
    <3>2. (Planned(j))'
      BY <1>1, <2>2, <2>3, <2>4 DEF Planned, PlanQuiet
    <3>3. (Handed(j))'
      BY <1>1, <2>3, <2>4 DEF Regime, Handed, ReplyQuiet
    <3> QED BY <3>1, <3>2, <3>3 DEF Regime, Provisioned, Fenced, Served
  <2>5. CASE Live(jobs[j])
    <3>1. InRun(jobs[j]) /\ InRun(jobs'[j]) /\ Exists(jobs[j])
      BY <2>1, <2>3, <2>5 DEF InRun, Live
    <3>2. \A w \in Replicas : (Early(w))' => procs'[w].job # j
      BY <1>1, <2>1, <2>5 DEF EarlyQuiet
    <3>3. (Fenced(j))'
      BY <1>2, <2>1, <2>3, <2>5 DEF Fenced
    <3>4. \A i \in Handlers : (Replying(i) /\ procs[i].job = j)' =>
            (AtPark(i))' /\ jobs'[j].phase \in Approved
      <4>1. ~(Replying(h))'
        BY DEF Replying, ReplyPc
      <4> QED BY <1>1, <2>1, <2>3, <2>5, <4>1 DEF ReplyQuiet
    <3>5. (Planned(j))'
      BY <1>1, <2>2, <2>3, <3>1 DEF Planned, PlanQuiet
    <3>6. (Handed(j))'
      BY <2>2, <2>3, <3>1 DEF Handed, InRun
    <3> QED BY <3>2, <3>3, <3>4, <3>5, <3>6 DEF Regime, Provisioned, Served
  <2> QED BY <2>4, <2>5
<1> QED BY <1>3, <1>4

\* A runner parks its job for the plan: the handler is about to open its gate.
LEMMA ParkAdvanceKeeps ==
  ASSUME TypeInv, Numbered, Serving, Serving', NEW j \in Jobs, Regime(j),
         NEW h \in Handlers, ParkAdvance(h)
  PROVE  (Regime(j))'
<1> DEFINE k == procs[h].job
           c == procs[h].claim
<1>0. /\ procs \in [Procs -> Proc] /\ jobs \in [Jobs -> Row] /\ h \in Procs
      /\ Replicas \subseteq Procs /\ Handlers \subseteq Procs /\ Replicas \cap Handlers = {}
      /\ procs[h].pc = "park_advance" /\ Replying(h) /\ ~AtPark(h) /\ UNCHANGED gates
  BY SortsAssumption DEF TypeInv, GoodProc, Procs, ParkAdvance, At, Replying, ReplyPc, AtPark
<1>1. k \in Jobs /\ c \in Claims /\ runners[c].job = k /\ Started(c)
      /\ runners[c].stage \in {"call", "gone", "removed"}
  <2>1. procs[h].pc \notin LoopPc
    BY <1>0 DEF LoopPc
  <2> QED BY <1>0, <2>1, JobTyped DEF Serving, Started
<1>2. Onward(h)
  BY <1>0, NamedOnward DEF Replies
<1>3. CASE ~CanAdvance(jobs[k], "clarify")
  <2>1. Leave(h) /\ Dismiss(h) /\ jobs' = jobs
    BY <1>0, <1>1, <1>3 DEF ParkAdvance, JobOf, Write, Update
  <2>2. procs'[h].pc = "idle"
    BY <1>0, <2>1, IdleTyped DEF Leave
  <2>3. /\ \A d \in Claims \ {c} : runners'[d] = runners[d]
        /\ runners'[c].job = runners[c].job
    BY <1>0, <1>1, <2>1, ReplyMoves
  <2> QED BY <1>0, <1>1, <1>2, <2>1, <2>2, <2>3, AnswerKeeps DEF Onward
<1>4. CASE CanAdvance(jobs[k], "clarify")
  <2>1. /\ jobs'[k] = Advanced(jobs[k], "await_human") /\ \A i \in Jobs \ {k} : jobs'[i] = jobs[i]
        /\ UNCHANGED runners
    BY <1>0, <1>1, <1>4 DEF ParkAdvance, JobOf, Write, Update
  <2>2. procs'[h].pc = "park_open" /\ procs'[h].job = k /\ procs'[h].claim = c
        /\ \A q \in Procs \ {h} : procs'[q] = procs[q]
    BY <1>0, <1>1, <1>4 DEF ParkAdvance, JobOf, Goto, Proc
  <2>3. EarlyQuiet(j)
    BY <1>0, <2>2 DEF EarlyQuiet, Early
  <2>4. ReplyQuiet(j)
    BY <1>0, <2>2 DEF ReplyQuiet, Replying, AtPark
  <2>5. RunnersQuiet(j)
    BY <2>1 DEF RunnersQuiet, Started
  <2>6. \A d \in Claims : (Started(d))' /\ runners'[d].job = j =>
          Started(d) /\ runners[d].job = j /\ (Spent(d) => (Spent(d))')
    BY <2>1, <2>4, SpentKeeps DEF Started
  <2>7. CASE j # k
    <3>1. PlanQuiet(j)
      BY <1>0, <2>2, <2>7 DEF PlanQuiet, PlanGate, GatesOf, Opened
    <3>2. Minor(jobs[j], jobs'[j])
      BY <1>0, <2>1, <2>7, MinorStatements
    <3> QED BY <2>3, <2>4, <2>5, <3>1, <3>2, UndisturbedKeeps DEF Quiet
  <2>8. CASE j = k
    <3>1. /\ jobs'[j].status = jobs[j].status /\ jobs'[j].lease = jobs[j].lease
          /\ jobs'[j].token = jobs[j].token /\ jobs'[j].diff = jobs[j].diff
          /\ jobs'[j].phase = "await_human" /\ jobs[j].phase = "clarify" /\ Live(jobs[j])
      BY <1>0, <1>4, <2>1, <2>8 DEF Advanced, CanAdvance, Row
    <3>2. /\ InRun(jobs[j]) /\ jobs[j].lease = c /\ jobs[j].token = c /\ ~jobs[j].diff
          /\ \A w \in Replicas : Early(w) => procs[w].job # j
          /\ \A i \in Handlers : Replying(i) /\ procs[i].job = j => i = h
          /\ \A d \in Claims \ {c} : Started(d) /\ runners[d].job = j => Spent(d)
      <4>1. "clarify" \notin Approved
        BY DEF Approved
      <4> QED BY <1>0, <2>8, <3>1, <4>1, ServedAlone
    <3>3. \A w \in Replicas : (Early(w))' => procs'[w].job # j
      BY <2>3, <3>2 DEF EarlyQuiet
    <3>4. \A i \in Handlers : (Replying(i))' /\ procs'[i].job = j => i = h
      BY <2>4, <3>2 DEF ReplyQuiet
    <3>5. ASSUME NEW d \in Claims, d = c
          PROVE  (Spent(d))'
      <4>1. runners'[d].stage \in {"call", "gone", "removed"}
        BY <1>1, <2>1, <3>5
      <4>2. ASSUME NEW i \in Handlers, (Replying(i))', procs'[i].claim = d
            PROVE  (AtPark(i))'
        <5>1. procs'[i].job = j
          BY <1>1, <2>1, <2>8, <3>5, <4>2 DEF Serving
        <5> QED BY <2>2, <3>4, <4>2, <5>1 DEF AtPark
      <4> QED BY <4>1, <4>2 DEF Spent
    <3>6. \A d \in Claims : (Started(d))' /\ runners'[d].job = j => (Spent(d))'
      BY <2>6, <3>2, <3>5
    <3>7. (Served(j))'
      BY <2>2, <3>1, <3>2, <3>4 DEF Served, InRun
    <3>8. (Planned(j))'
      BY <3>1, <3>2, <3>3, <3>6 DEF Planned, InRun
    <3>9. (Handed(j))'
      BY <3>1, <3>2 DEF Handed, InRun
    <3> QED BY <3>3, <3>6, <3>7, <3>8, <3>9 DEF Regime, Provisioned, Fenced
  <2> QED BY <2>7, <2>8
<1> QED BY <1>3, <1>4

\* A job that is held from the start.
LEMMA HeldKeeps ==
  ASSUME TypeInv, BornInv, Serving', NEW j \in Jobs, Regime(j),
         NEW h \in Handlers, NEW k \in Jobs, NEW at \in Replicas, CreateHeld(h, k, at)
  PROVE  (Regime(j))'
<1>0. /\ procs \in [Procs -> Proc] /\ jobs \in [Jobs -> Row] /\ h \in Procs
      /\ Replicas \subseteq Procs /\ Handlers \subseteq Procs /\ Replicas \cap Handlers = {}
      /\ UNCHANGED <<gates, runners>>
      /\ \A pc \in EarlyPc \cup ReplyPc \cup {"held_open", "park_open"} : pc \notin LoopPc
      /\ {"held_open"} \cap (EarlyPc \cup ReplyPc) = {}
  BY SortsAssumption DEF TypeInv, GoodProc, Procs, CreateHeld, EarlyPc, ReplyPc, LoopPc
<1>1. procs'[h].pc = "held_open" /\ procs'[h].job = k /\ \A q \in Procs \ {h} : procs'[q] = procs[q]
  <2> DEFINE x == [Idle EXCEPT !.pc = "held_open", !.at = at, !.job = k]
  <2>1. x.pc = "held_open" /\ x.job = k
    BY DEF Idle
  <2>2. procs' = [procs EXCEPT ![h] = x]
    BY DEF CreateHeld, Begin
  <2> HIDE DEF x
  <2> QED BY <1>0, <2>1, <2>2
<1>2. /\ \A w \in Replicas : (Early(w))' => Early(w) /\ procs'[w] = procs[w]
      /\ \A i \in Handlers : (Replying(i))' => Replying(i) /\ procs'[i] = procs[i]
  BY <1>0, <1>1 DEF Early, Replying
<1>3. EarlyQuiet(j) /\ ReplyQuiet(j) /\ RunnersQuiet(j)
  BY <1>0, <1>2 DEF EarlyQuiet, ReplyQuiet, AtPark, RunnersQuiet, Started
<1>4. PICK kind \in Kinds, backend \in Backends \ {"local"}, policy \in Policies :
        Insert(k, CreateJob("waiting", "await_human", kind, backend, policy, FALSE))
  BY DEF CreateHeld
<1>5. CASE j # k
  <2>1. PlanQuiet(j)
    BY <1>0, <1>1, <1>5 DEF PlanQuiet, PlanGate, GatesOf, Opened
  <2>2. Minor(jobs[j], jobs'[j])
    BY <1>0, <1>4, <1>5, MinorStatements DEF Insert
  <2> QED BY <1>3, <2>1, <2>2, UndisturbedKeeps DEF Quiet
<1>6. CASE j = k
  <2>1. jobs'[j].status = "waiting" /\ jobs'[j].phase = "await_human" /\ ~jobs'[j].diff
    BY <1>0, <1>4, <1>6 DEF Insert, CreateJob, EmptyRow
  <2>2. ~Born(j)
    BY <1>6 DEF CreateHeld, Unborn, Born
  <2>3. /\ \A w \in Replicas : Early(w) => procs[w].job # j
        /\ \A i \in Handlers : Replying(i) => procs[i].job # j
        /\ \A c \in Claims : Started(c) => runners[c].job # j
    BY <1>0, <2>2 DEF BornInv, Early, Replying
  <2>4. /\ \A w \in Replicas : (Early(w))' => procs'[w].job # j
        /\ \A i \in Handlers : (Replying(i))' => procs'[i].job # j
        /\ \A c \in Claims : (Started(c))' => runners'[c].job # j
    BY <1>3, <2>3 DEF EarlyQuiet, ReplyQuiet, RunnersQuiet
  <2> QED BY <2>1, <2>4 DEF Regime, Provisioned, Fenced, Served, Planned, Handed
<1> QED BY <1>5, <1>6
=============================================================================
