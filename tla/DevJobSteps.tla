----------------------------- MODULE DevJobSteps -----------------------------
(***************************************************************************)
(* The steps of the dev-job lifecycle, sorted for the invariants that      *)
(* follow: most of them are calm (a loop walks on, a job is finalized, a   *)
(* runner dies, time passes), the rest are named one by one.               *)
(*                                                                         *)
(* The sorting needs one invariant: nothing refers to a row that was never *)
(* inserted, so a new row starts without runners, flows, gates or branch.  *)
(* Its first use: what decisions at a gate lead to.                        *)
(***************************************************************************)
EXTENDS DevJobSafety

Born(j) == j \in Jobs /\ jobs[j].status # "unborn"
Started(c) == runners[c].stage # "none"
Opened(g) == gates[g].status \notin {"unopened", "deleted"}

BornInv ==
  /\ \A p \in Procs : procs[p].pc \notin LoopPc => Born(procs[p].job)
  /\ \A p \in Procs : \A j \in procs[p].todo : Born(j)
  /\ \A g \in GateIds : Opened(g) => Born(gates[g].job)
  /\ \A c \in Claims : Started(c) => Born(runners[c].job)
  /\ \A j \in Jobs : forge[j].branch => Born(j)

(***************************************************************************)
(* Calm steps.                                                             *)
(***************************************************************************)
CalmPc == LoopPc \cup FinalizePc
            \cup {"attach", "orphan", "apply_load", "apply_exit", "reply_exit", "leave"}

\* A row changes in nothing but its clocks, its handle, its brief, its review
\* loop, or by ending.
Minor(r, s) ==
  /\ s.status = r.status \/ (Live(r) /\ s.status \in Terminal)
  /\ s.phase = r.phase /\ s.kind = r.kind /\ s.mode = r.mode /\ s.backend = r.backend
  /\ s.lease = r.lease /\ s.token = r.token /\ s.provision = r.provision
  /\ s.diff = r.diff /\ s.policy = r.policy /\ s.resumed = r.resumed
  /\ r.briefed \subseteq s.briefed

CalmFlow(p) ==
  \/ procs'[p] = procs[p]
  \/ /\ procs'[p].pc \in CalmPc
     /\ procs'[p].pc \notin LoopPc => Born(procs'[p].job)
     /\ \A j \in procs'[p].todo : Born(j)
     /\ procs'[p].pc = "apply_load" => ~procs'[p].approved

CalmRunner(c) ==
  \/ runners'[c] = runners[c]
  \/ /\ Started(c) /\ runners'[c].stage \in {"gone", "removed"}
     /\ runners'[c].job = runners[c].job /\ runners'[c].shim = runners[c].shim

Calm ==
  /\ UNCHANGED <<gates, claims>>
  /\ \A j \in Jobs : forge'[j].branch = forge[j].branch
  /\ \A j \in Jobs : Minor(jobs[j], jobs'[j])
  /\ \A p \in Procs : CalmFlow(p)
  /\ \A c \in Claims : CalmRunner(c)

(***************************************************************************)
(* The others.                                                             *)
(***************************************************************************)
Provisions(w) == Claim(w) \/ Prepare(w) \/ Provision(w) \/ Release(w)
Replies(h) ==
  \/ SpecReply(h) \/ ResultRecord(h) \/ PhaseJudge(h) \/ PhaseAdvance(h)
  \/ ParkAdvance(h) \/ ParkOpen(h) \/ ParkRow(h)
Applies(p) == ApplyLoad(p) \/ ApplyJudge(p) \/ ApplyBranch(p) \/ ApplyGate(p) \/ ApplyPark(p)
Decides(h) ==
  \/ ResolveFlip(h) \/ ResolveStuck(h) \/ DriveBrief(h) \/ DriveRequeue(h)
  \/ ResumeGuard(h) \/ ResumeFlip(h)
Inserts(j) ==
  \/ Create(j) \/ \E k \in Jobs : Retry(k, j)
  \/ \E h \in Handlers, at \in Replicas : CreateHeld(h, j, at)

Named ==
  \/ \E w \in Replicas : Provisions(w)
  \/ \E c \in Claims : RunnerCalls(c)
  \/ \E h \in Handlers : Replies(h) \/ Decides(h) \/ HeldOpen(h)
  \/ \E p \in Procs : Applies(p)
  \/ \E j \in Jobs : Inserts(j) \/ Delete(j)
  \/ \E h \in Handlers, at \in Replicas, g \in GateIds : GateArrival(h, g, at)

\* A statement that moves nothing but clocks, handle, brief and review loop.
LEMMA MinorStatements ==
  ASSUME NEW r \in Row
  PROVE  /\ Minor(r, r)
         /\ \A c \in Nat : Minor(r, Attached(r, c))
         /\ Minor(r, Touched(r))
         /\ \A clock \in Clock : Minor(r, Older(r, clock))
         /\ \A g \in Nat : Minor(r, BriefAppended(r, g))
         /\ \A n \in Nat, f \in Fingerprint : Minor(r, ReviewSet(r, n, f))
         /\ \A to \in Terminal, pr \in BOOLEAN : CanFinish(r) => Minor(r, Finished(r, to, pr))
<1>1. Minor(r, r)
  BY DEF Minor
<1>2. \A c \in Nat : Minor(r, Attached(r, c))
  BY DEF Minor, Attached, Row
<1>3. Minor(r, Touched(r)) /\ \A clock \in Clock : Minor(r, Older(r, clock))
  BY DEF Minor, Touched, Older, Row
<1>4. \A g \in Nat : Minor(r, BriefAppended(r, g))
  BY DEF Minor, BriefAppended, Row
<1>5. \A n \in Nat, f \in Fingerprint : Minor(r, ReviewSet(r, n, f))
  BY DEF Minor, ReviewSet, Row
<1>6. \A to \in Terminal, pr \in BOOLEAN : CanFinish(r) => Minor(r, Finished(r, to, pr))
  BY DEF Minor, Finished, CanFinish, Row
<1> QED BY <1>1, <1>2, <1>3, <1>4, <1>5, <1>6

\* A guarded minor statement, or none.
LEMMA MinorWrite ==
  ASSUME jobs \in [Jobs -> Row], NEW k, NEW guard, NEW new, Write(k, guard, new),
         guard /\ k \in Jobs => Minor(jobs[k], new)
  PROVE  \A j \in Jobs : Minor(jobs[j], jobs'[j])
BY MinorStatements DEF Write, Update

\* Where a calm flow goes.
LEMMA CalmMoves ==
  ASSUME TypeInv, BornInv, NEW p \in Procs
  PROVE  /\ \A pc \in CalmPc \ {"apply_load"} :
              Goto(p, pc) /\ (procs[p].pc \notin LoopPc \/ pc \in LoopPc) =>
                \A q \in Procs : CalmFlow(q)
         /\ \A to \in Terminal, pr \in BOOLEAN, next \in NextPc :
              CallFinalize(p, to, pr, next) /\ procs[p].pc \notin LoopPc =>
                \A q \in Procs : CalmFlow(q)
         /\ Leave(p) => \A q \in Procs : CalmFlow(q)
         /\ Return(p) /\ procs[p].pc \notin LoopPc => \A q \in Procs : CalmFlow(q)
         /\ UNCHANGED procs => \A q \in Procs : CalmFlow(q)
<1>0. /\ procs \in [Procs -> Proc] /\ \A j \in procs[p].todo : Born(j)
      /\ procs[p].pc \notin LoopPc => Born(procs[p].job)
      /\ NextPc \subseteq CalmPc \ {"apply_load"}
  BY DEF TypeInv, GoodProc, BornInv, NextPc, CalmPc, LoopPc, FinalizePc
<1>1. ASSUME NEW pc \in CalmPc \ {"apply_load"}, Goto(p, pc),
             procs[p].pc \notin LoopPc \/ pc \in LoopPc
      PROVE  \A q \in Procs : CalmFlow(q)
  BY <1>0, <1>1 DEF Goto, CalmFlow, Proc
<1>2. ASSUME NEW to \in Terminal, NEW pr \in BOOLEAN, NEW next \in NextPc,
             CallFinalize(p, to, pr, next), procs[p].pc \notin LoopPc
      PROVE  \A q \in Procs : CalmFlow(q)
  <2>1. "fin_read" \in CalmPc
    BY DEF CalmPc, FinalizePc
  <2> QED BY <1>0, <1>2, <2>1 DEF CallFinalize, CalmFlow, Proc
<1>3. ASSUME Leave(p)
      PROVE  \A q \in Procs : CalmFlow(q)
  <2>1. Idle.pc \in LoopPc /\ Idle.pc \in CalmPc /\ Idle.pc # "apply_load" /\ Idle.todo = {}
    BY DEF Idle, CalmPc, LoopPc
  <2> QED BY <1>0, <1>3, <2>1 DEF Leave, CalmFlow
<1>4. ASSUME Return(p), procs[p].pc \notin LoopPc
      PROVE  \A q \in Procs : CalmFlow(q)
  <2>1. procs[p].next \in CalmPc \ {"apply_load"}
    BY <1>0 DEF Proc
  <2> QED BY <1>0, <1>4, <2>1 DEF Return, CalmFlow, Proc
<1> QED BY <1>1, <1>2, <1>3, <1>4 DEF CalmFlow

\* A flow that goes on calmly with new local variables.
LEMMA CalmAt ==
  ASSUME TypeInv, NEW p \in Procs, NEW x, procs' = [procs EXCEPT ![p] = x],
         x.pc \in CalmPc, x.pc \notin LoopPc => Born(x.job), \A j \in x.todo : Born(j),
         x.pc = "apply_load" => ~x.approved
  PROVE  \A q \in Procs : CalmFlow(q)
BY DEF TypeInv, CalmFlow

\* Rows, runners and branches that stay as they are.
LEMMA CalmRest ==
  ASSUME TypeInv
  PROVE  /\ UNCHANGED jobs => \A j \in Jobs : Minor(jobs[j], jobs'[j])
         /\ UNCHANGED runners => \A c \in Claims : CalmRunner(c)
         /\ UNCHANGED forge => \A j \in Jobs : forge'[j].branch = forge[j].branch
BY MinorStatements DEF TypeInv, CalmRunner

\* Runners that are torn down or die.
LEMMA CalmEnds ==
  ASSUME TypeInv, NEW doomed, \A c \in doomed \cap Claims : Started(c)
  PROVE  /\ runners' = [c \in Claims |-> IF c \in doomed THEN Torn(runners[c]) ELSE runners[c]]
              => \A c \in Claims : CalmRunner(c)
         /\ runners' = [c \in Claims |-> IF c \in doomed THEN Over(runners[c]) ELSE runners[c]]
              => \A c \in Claims : CalmRunner(c)
<1>1. \A c \in Claims : runners[c] \in Runner
  BY DEF TypeInv, GoodRunner
<1>2. \A c \in Claims : /\ Torn(runners[c]).stage = "removed"
                       /\ Torn(runners[c]).job = runners[c].job
                       /\ Torn(runners[c]).shim = runners[c].shim
  BY <1>1 DEF Torn, Runner
<1>3. \A c \in Claims : /\ Over(runners[c]).stage = "gone"
                       /\ Over(runners[c]).job = runners[c].job
                       /\ Over(runners[c]).shim = runners[c].shim
  BY <1>1 DEF Over, Runner
<1> QED BY <1>2, <1>3 DEF CalmRunner

LEMMA FinalizeCalm ==
  ASSUME TypeInv, BornInv, NEW p \in Procs, FinalizeStep(p)
  PROVE  Calm
<1>0. /\ jobs \in [Jobs -> Row] /\ procs[p] \in Proc /\ procs \in [Procs -> Proc]
      /\ procs[p].pc \in FinalizePc /\ procs[p].pc \notin LoopPc /\ Born(procs[p].job)
  BY DEF TypeInv, GoodProc, BornInv, FinalizeStep, FinalizeRead, FinalizeFlip, FinalizeStop, At,
         FinalizePc, LoopPc
<1>1. UNCHANGED <<gates, claims, forge>>
  BY DEF FinalizeStep, FinalizeRead, FinalizeFlip, FinalizeStop
<1>2. CASE FinalizeRead(p)
  <2>1. ASSUME procs' = [procs EXCEPT ![p].pc = "fin_flip", ![p].stop = JobOf(p).handle]
        PROVE  \A q \in Procs : CalmFlow(q)
    BY <1>0, <2>1 DEF CalmFlow, CalmPc, FinalizePc, Proc, BornInv
  <2> QED BY <1>0, <1>1, <1>2, <2>1, CalmMoves, CalmRest DEF FinalizeRead, Calm
<1>3. CASE FinalizeFlip(p)
  <2>1. \A j \in Jobs : Minor(jobs[j], jobs'[j])
    <3>1. CanFinish(JobOf(p)) /\ procs[p].job \in Jobs =>
            Minor(JobOf(p), Finished(JobOf(p), procs[p].to, procs[p].pr))
      BY <1>0, MinorStatements DEF JobOf, Proc
    <3> QED BY <1>0, <1>3, <3>1, MinorWrite DEF FinalizeFlip, JobOf
  <2>2. ASSUME NEW stop, procs' = [procs EXCEPT ![p].pc = "fin_stop", ![p].stop = stop]
        PROVE  \A q \in Procs : CalmFlow(q)
    BY <1>0, <2>2 DEF CalmFlow, CalmPc, FinalizePc, Proc, BornInv
  <2> QED BY <1>0, <1>1, <1>3, <2>1, <2>2, CalmMoves, CalmRest DEF FinalizeFlip, Calm
<1>4. CASE FinalizeStop(p)
  <2>1. ASSUME TearDown(procs[p].job, procs[p].stop)
        PROVE  \A c \in Claims : CalmRunner(c)
    <3> DEFINE doomed == IF jobs[procs[p].job].backend = "docker" THEN Held(procs[p].job)
                         ELSE Held(procs[p].job) \cap {procs[p].stop}
    <3>1. \A c \in doomed \cap Claims : Started(c)
      BY DEF Held, Started
    <3>2. runners' = [c \in Claims |-> IF c \in doomed THEN Torn(runners[c]) ELSE runners[c]]
      BY <2>1 DEF TearDown
    <3> HIDE DEF doomed
    <3> QED BY <3>1, <3>2, CalmEnds
  <2> QED BY <1>0, <1>1, <1>4, <2>1, CalmMoves, CalmRest DEF FinalizeStop, Calm
<1> QED BY <1>2, <1>3, <1>4 DEF FinalizeStep

LEMMA ApplyCalm ==
  ASSUME TypeInv, BornInv, NEW p \in Procs, ApplyPr(p) \/ ApplyExit(p)
  PROVE  Calm
<1>0. /\ procs \in [Procs -> Proc] /\ forge \in [Jobs -> [branch : BOOLEAN, prs : Nat]]
      /\ procs[p].pc \notin LoopPc /\ Born(procs[p].job) /\ procs[p] \in Proc
      /\ {"done", "failed"} \subseteq Terminal /\ {TRUE, FALSE} \subseteq BOOLEAN
      /\ "apply_exit" \in NextPc
  BY DEF TypeInv, GoodProc, BornInv, ApplyPr, ApplyExit, At, LoopPc, Terminal, NextPc
<1>1. UNCHANGED <<gates, claims, jobs, runners>>
  BY DEF ApplyPr, ApplyExit
<1>2. CASE ApplyPr(p)
  <2>1. \A j \in Jobs : forge'[j].branch = forge[j].branch
    <3>1. CASE UNCHANGED forge
      BY <3>1
    <3>2. CASE forge' = [forge EXCEPT ![procs[p].job].prs = @ + 1]
      BY <1>0, <3>2
    <3> QED BY <1>2, <3>1, <3>2 DEF ApplyPr
  <2>2. \A q \in Procs : CalmFlow(q)
    BY <1>0, <1>2, CalmMoves DEF ApplyPr, ApplyFails
  <2> QED BY <1>1, <2>1, <2>2, CalmRest DEF Calm
<1>3. CASE ApplyExit(p)
  <2>1. CASE procs[p].back = "idle"
    <3>1. Leave(p) /\ UNCHANGED forge
      BY <1>3, <2>1 DEF ApplyExit
    <3> QED BY <1>1, <3>1, CalmMoves, CalmRest DEF Calm
  <2>2. CASE procs[p].back # "idle"
    <3> DEFINE x == [Idle EXCEPT !.pc = procs[p].back, !.todo = procs[p].todo]
    <3>1. x.pc \in CalmPc /\ x.pc \in LoopPc /\ x.pc # "apply_load" /\ \A j \in x.todo : Born(j)
      BY <1>0, IdleTyped DEF GoodProc, Proc, BackPc, CalmPc, LoopPc, BornInv
    <3>2. procs' = [procs EXCEPT ![p] = x] /\ UNCHANGED forge
      BY <1>3, <2>2 DEF ApplyExit
    <3> HIDE DEF x
    <3> QED BY <1>1, <3>1, <3>2, CalmAt, CalmRest DEF Calm
  <2> QED BY <2>1, <2>2
<1> QED BY <1>2, <1>3

LEMMA WorkerCalm ==
  ASSUME TypeInv, BornInv, NEW w \in Replicas, WorkerStep(w), ~Provisions(w)
  PROVE  Calm
<1>0. /\ w \in Procs /\ procs \in [Procs -> Proc] /\ procs[w] \in Proc /\ jobs \in [Jobs -> Row]
      /\ \A j \in procs[w].todo : Born(j)
  BY DEF Procs, TypeInv, GoodProc, BornInv
<1>1. UNCHANGED <<gates, claims, forge>>
  BY DEF WorkerStep, TickStart, ApplyNext, Enforce, WallClockList, WallClockNext, StallList,
         StallNext, SweepNext, Reap, ReapList, ReapNext, ClaimAndProvision, Provisions, CountSlots,
         TickEnd, Attach, Orphan, Unmoved
<1>2. {"apply_next", "wall_list", "wall_next", "stall_list", "stall_next", "reap_list",
       "reap_next", "count", "claim", "idle"} \subseteq LoopPc
      /\ LoopPc \subseteq CalmPc \ {"apply_load"} /\ {"fin_read", "apply_load", "orphan"} \subseteq CalmPc
  BY DEF LoopPc, CalmPc, FinalizePc
<1>3. ASSUME NEW pc \in LoopPc, NEW after \in LoopPc, NEW js, \A j \in js : Born(j),
             Walk(w, pc, after, js), UNCHANGED <<jobs, runners>>
      PROVE  Calm
  <2> DEFINE x == [Idle EXCEPT !.pc = IF js = {} THEN after ELSE pc, !.todo = js]
  <2>1. x.pc \in LoopPc /\ x.todo = js
    BY <1>3, IdleTyped DEF GoodProc, Proc
  <2>2. procs' = [procs EXCEPT ![w] = x]
    BY <1>3 DEF Walk
  <2> HIDE DEF x
  <2>3. \A q \in Procs : CalmFlow(q)
    BY <1>0, <1>2, <1>3, <2>1, <2>2, CalmAt
  <2> QED BY <1>1, <1>3, <2>3, CalmRest DEF Calm
<1>4. CASE TickStart(w) \/ WallClockList(w) \/ StallList(w)
  <2>1. TickStart(w) => Calm
    BY <1>2, <1>3 DEF TickStart, Unmoved, Born
  <2>2. WallClockList(w) => Calm
    BY <1>2, <1>3 DEF WallClockList, Unmoved, Born, OverWallClock, Active
  <2>3. StallList(w) => Calm
    BY <1>2, <1>3 DEF StallList, Unmoved, Born, Stalled, Active
  <2> QED BY <1>4, <2>1, <2>2, <2>3
<1>5. CASE ApplyNext(w)
  <2>0. UNCHANGED <<jobs, runners>>
    BY <1>5 DEF ApplyNext
  <2>1. CASE Goto(w, "wall_list")
    BY <1>0, <1>1, <1>2, <2>0, <2>1, CalmMoves, CalmRest DEF Calm
  <2>2. ASSUME NEW j \in procs[w].todo, EnterApply(w, j, w, FALSE, procs[w].todo \ {j}, "apply_next")
        PROVE  Calm
    <3>1. Born(j) /\ \A k \in procs[w].todo \ {j} : Born(k)
      BY <1>0
    <3>2. \A q \in Procs : CalmFlow(q)
      BY <1>0, <1>2, <2>2, <3>1 DEF EnterApply, CalmFlow, Proc
    <3> QED BY <1>1, <2>0, <3>2, CalmRest DEF Calm
  <2>3. ASSUME NEW j \in procs[w].todo, Walk(w, "apply_next", "wall_list", procs[w].todo \ {j})
        PROVE  Calm
    BY <1>0, <1>2, <1>3, <2>0, <2>3
  <2> QED BY <1>5, <2>1, <2>2, <2>3 DEF ApplyNext
<1>6. ASSUME NEW pc, NEW to \in Terminal, NEW after \in LoopPc, SweepNext(w, pc, to, after)
      PROVE  Calm
  <2>0. UNCHANGED <<jobs, runners>>
    BY <1>6 DEF SweepNext, Unmoved
  <2>1. CASE procs[w].todo = {}
    BY <1>0, <1>1, <1>2, <1>6, <2>0, <2>1, CalmMoves, CalmRest DEF SweepNext, Calm
  <2>2. CASE procs[w].todo # {}
    <3>1. PICK j \in procs[w].todo :
            procs' = [procs EXCEPT ![w].pc = "fin_read", ![w].job = j, ![w].to = to,
                        ![w].pr = FALSE, ![w].next = pc, ![w].todo = @ \ {j}]
      BY <1>6, <2>2 DEF SweepNext
    <3>2. \A q \in Procs : CalmFlow(q)
      BY <1>0, <1>2, <3>1 DEF CalmFlow, Proc
    <3> QED BY <1>1, <2>0, <3>2, CalmRest DEF Calm
  <2> QED BY <2>1, <2>2
<1>7. CASE WallClockNext(w) \/ StallNext(w)
  BY <1>2, <1>6, <1>7 DEF WallClockNext, StallNext, Terminal
<1>8. CASE ReapList(w)
  <2>1. PICK lost \in SUBSET {c \in Claims : Reapable(c)} :
          /\ procs' = [procs EXCEPT ![w] = [Idle EXCEPT !.dead = lost,
                                      !.pc = IF lost = {} THEN "count" ELSE "reap_next"]]
          /\ runners' = [c \in Claims |-> IF c \in lost THEN Torn(runners[c]) ELSE runners[c]]
    BY <1>8 DEF ReapList
  <2> DEFINE x == [Idle EXCEPT !.dead = lost, !.pc = IF lost = {} THEN "count" ELSE "reap_next"]
  <2>2. x.pc \in LoopPc /\ x.todo = {}
    BY <1>2 DEF Idle
  <2>3. procs' = [procs EXCEPT ![w] = x]
    BY <2>1
  <2> HIDE DEF x
  <2>4. \A q \in Procs : CalmFlow(q)
    BY <1>0, <1>2, <2>2, <2>3, CalmAt
  <2>5. \A c \in lost \cap Claims : Started(c)
    BY DEF Reapable, Started
  <2>6. UNCHANGED jobs
    BY <1>8 DEF ReapList
  <2> QED BY <1>1, <2>1, <2>4, <2>5, <2>6, CalmEnds, CalmRest DEF Calm
<1>9. CASE ReapNext(w)
  <2>0. UNCHANGED <<jobs, runners>>
    BY <1>9 DEF ReapNext, Unmoved
  <2>1. CASE Goto(w, "count")
    BY <1>0, <1>1, <1>2, <2>0, <2>1, CalmMoves, CalmRest DEF Calm
  <2>2. ASSUME NEW c, procs' = [procs EXCEPT ![w].dead = @ \ {c}]
        PROVE  Calm
    <3>1. procs[w].pc \in LoopPc
      BY <1>2, <1>9 DEF ReapNext, At
    <3>2. \A q \in Procs : CalmFlow(q)
      BY <1>0, <1>2, <2>2, <3>1 DEF CalmFlow, Proc
    <3> QED BY <1>1, <2>0, <3>2, CalmRest DEF Calm
  <2>3. ASSUME NEW c, NEW j \in HandleOwners(c),
               procs' = [procs EXCEPT ![w].pc = "fin_read", ![w].job = j,
                           ![w].to = "stalled", ![w].pr = FALSE,
                           ![w].next = "reap_next", ![w].dead = @ \ {c}]
        PROVE  Calm
    <3>1. Born(j)
      BY DEF HandleOwners, Born
    <3>2. \A q \in Procs : CalmFlow(q)
      BY <1>0, <1>2, <2>3, <3>1 DEF CalmFlow, Proc
    <3> QED BY <1>1, <2>0, <3>2, CalmRest DEF Calm
  <2> QED BY <1>9, <2>1, <2>2, <2>3 DEF ReapNext
<1>10. ASSUME NextClaim(w)
       PROVE  \A q \in Procs : CalmFlow(q)
  <2> DEFINE x == [Idle EXCEPT !.pc = "claim", !.slots = procs[w].slots]
  <2>1. x.pc \in LoopPc /\ x.todo = {}
    BY <1>2 DEF Idle
  <2>2. procs' = [procs EXCEPT ![w] = x]
    BY <1>10 DEF NextClaim
  <2> HIDE DEF x
  <2> QED BY <1>0, <1>2, <2>1, <2>2, CalmAt
<1>11. CASE CountSlots(w) \/ TickEnd(w)
  <2>0. UNCHANGED <<jobs, runners>>
    BY <1>11 DEF CountSlots, TickEnd, Unmoved
  <2>1. CASE CountSlots(w)
    <3> DEFINE x == [Idle EXCEPT !.pc = "claim", !.slots = MaxConcurrent - Cardinality(ActiveJobs)]
    <3>1. x.pc \in LoopPc /\ x.todo = {}
      BY <1>2 DEF Idle
    <3>2. procs' = [procs EXCEPT ![w] = x]
      BY <2>1 DEF CountSlots
    <3> HIDE DEF x
    <3>3. \A q \in Procs : CalmFlow(q)
      BY <1>0, <1>2, <3>1, <3>2, CalmAt
    <3> QED BY <1>1, <2>0, <3>3, CalmRest DEF Calm
  <2>2. CASE TickEnd(w)
    BY <1>0, <1>1, <2>0, <2>2, CalmMoves, CalmRest DEF TickEnd, Calm
  <2> QED BY <1>11, <2>1, <2>2
<1>12. CASE Attach(w)
  <2>0. procs[w].pc \notin LoopPc /\ UNCHANGED runners
    BY <1>12 DEF Attach, At, LoopPc
  <2>1. \A q \in Procs : CalmFlow(q)
    <3>1. Goto(w, "orphan") => \A q \in Procs : CalmFlow(q)
      <4>1. "orphan" \in CalmPc \ {"apply_load"}
        BY <1>2
      <4> QED BY <1>0, <2>0, <4>1, CalmMoves
    <3> QED BY <1>10, <1>12, <3>1 DEF Attach
  <2>2. \A j \in Jobs : Minor(jobs[j], jobs'[j])
    <3>1. procs[w].job \in Jobs => Minor(JobOf(w), Attached(JobOf(w), procs[w].claim))
      BY <1>0, MinorStatements DEF JobOf, Proc
    <3> QED BY <1>0, <1>12, <3>1, MinorWrite, CalmRest DEF Attach, JobOf
  <2> QED BY <1>1, <2>0, <2>1, <2>2, CalmRest DEF Calm
<1>13. CASE Orphan(w)
  <2>1. ASSUME TearDown(procs[w].job, procs[w].claim)
        PROVE  \A c \in Claims : CalmRunner(c)
    <3> DEFINE doomed == IF jobs[procs[w].job].backend = "docker" THEN Held(procs[w].job)
                         ELSE Held(procs[w].job) \cap {procs[w].claim}
    <3>1. \A c \in doomed \cap Claims : Started(c)
      BY DEF Held, Started
    <3>2. runners' = [c \in Claims |-> IF c \in doomed THEN Torn(runners[c]) ELSE runners[c]]
      BY <2>1 DEF TearDown
    <3> HIDE DEF doomed
    <3> QED BY <3>1, <3>2, CalmEnds
  <2> QED BY <1>1, <1>10, <1>13, <2>1, CalmRest DEF Orphan, Calm
<1> QED
  BY <1>4, <1>5, <1>7, <1>8, <1>9, <1>11, <1>12, <1>13
  DEF WorkerStep, Enforce, Reap, ClaimAndProvision, Provisions

\* The answers, the operator's calm routes and the environment.
LEMMA HandlerCalm ==
  ASSUME TypeInv, BornInv, NEW h \in Handlers, ReplyExit(h) \/ HandlerEnd(h)
  PROVE  Calm
<1>0. h \in Procs /\ \A c \in Claims : runners[c] \in Runner
  BY DEF Procs, TypeInv, GoodRunner
<1>1. UNCHANGED <<jobs, gates, claims, forge>> /\ Leave(h)
  BY DEF ReplyExit, HandlerEnd
<1>2. Dismiss(h) \/ UNCHANGED runners
  BY DEF ReplyExit, HandlerEnd
<1>3. Dismiss(h) => \A c \in Claims : CalmRunner(c)
  BY <1>0 DEF TypeInv, Dismiss, CalmRunner, Started, Over, Runner
<1> QED BY <1>0, <1>1, <1>2, <1>3, CalmMoves, CalmRest DEF Calm

LEMMA AdminCalm ==
  ASSUME TypeInv, BornInv, NEW h \in Handlers, NEW at \in Replicas, NEW j \in Jobs,
         Cancel(h, j, at) \/ Apply(h, j, at)
  PROVE  Calm
<1>0. h \in Procs /\ procs \in [Procs -> Proc] /\ Idle \in Proc
      /\ {"fin_read", "apply_load"} \subseteq CalmPc /\ Idle.todo = {}
  BY IdleTyped DEF Procs, TypeInv, GoodProc, CalmPc, FinalizePc, Idle
<1>1. UNCHANGED <<jobs, gates, claims, runners, forge>>
  BY DEF Cancel, Apply
<1>2. Born(j)
  BY DEF Cancel, Apply, Born, Live, Exists, NoRow, FailedAfterDiff
<1>3. CASE Cancel(h, j, at)
  <2> DEFINE x == [Idle EXCEPT !.pc = "fin_read", !.at = at, !.job = j,
                     !.to = "cancelled", !.next = "leave"]
  <2>1. x.pc = "fin_read" /\ x.job = j /\ x.todo = {}
    BY <1>0 DEF Proc
  <2>2. procs' = [procs EXCEPT ![h] = x]
    BY <1>3 DEF Cancel
  <2> HIDE DEF x
  <2>3. \A q \in Procs : CalmFlow(q)
    BY <1>0, <1>2, <2>1, <2>2, CalmAt
  <2> QED BY <1>1, <2>3, CalmRest DEF Calm
<1>4. CASE Apply(h, j, at)
  <2>1. \A q \in Procs : CalmFlow(q)
    BY <1>0, <1>2, <1>4 DEF Apply, EnterApply, CalmFlow, Proc
  <2> QED BY <1>1, <2>1, CalmRest DEF Calm
<1> QED BY <1>3, <1>4

LEMMA OutsideCalm ==
  ASSUME TypeInv, BornInv
  PROVE  /\ \A c \in Claims : Heartbeat(c) => Calm
         /\ Environment => Calm
         /\ UNCHANGED vars => Calm
<1>0. jobs \in [Jobs -> Row] /\ \A c \in Claims : runners[c] \in Runner
  BY DEF TypeInv, GoodRunner
<1>1. \A j \in Jobs : jobs[j] \in Row
  BY <1>0
<1>2. ASSUME NEW c \in Claims, Heartbeat(c)
      PROVE  Calm
  <2>1. runners[c].job \in Jobs => Minor(jobs[runners[c].job], Touched(RunnerJob(c)))
    BY <1>0, MinorStatements DEF RunnerJob
  <2>2. \A j \in Jobs : Minor(jobs[j], jobs'[j])
    BY <1>0, <1>2, <2>1, MinorWrite DEF Heartbeat
  <2> QED BY <1>2, <2>2, CalmRest DEF Heartbeat, Calm, CalmFlow
<1>3. ASSUME NEW j \in Jobs, NEW clock \in Clocks, TimePasses(j, clock)
      PROVE  Calm
  <2>1. clock \in Clock
    BY SortsAssumption
  <2>2. Minor(jobs[j], Older(jobs[j], clock)) /\ \A k \in Jobs : Minor(jobs[k], jobs[k])
    BY <1>1, <2>1, MinorStatements
  <2>3. \A k \in Jobs : Minor(jobs[k], jobs'[k])
    BY <1>0, <1>3, <2>2 DEF TimePasses
  <2> QED BY <1>3, <2>3, CalmRest DEF TimePasses, Calm, CalmFlow
<1>4. ASSUME NEW c \in Claims, RunnerDies(c) \/ Reclaimed(c)
      PROVE  Calm
  <2>1. /\ runners' = [runners EXCEPT ![c] = Over(@)] \/ runners' = [runners EXCEPT ![c] = Torn(@)]
        /\ Started(c) /\ runners \in [Claims -> GoodRunner]
    BY <1>4 DEF TypeInv, RunnerDies, Reclaimed, Started
  <2>2. \A d \in Claims : CalmRunner(d)
    <3>1. \A x \in {Over(runners[c]), Torn(runners[c])} :
            x.stage \in {"gone", "removed"} /\ x.job = runners[c].job /\ x.shim = runners[c].shim
      BY <1>0 DEF Over, Torn, Runner
    <3>2. PICK x \in {Over(runners[c]), Torn(runners[c])} : runners' = [runners EXCEPT ![c] = x]
      BY <2>1
    <3> QED BY <2>1, <3>1, <3>2 DEF CalmRunner
  <2> QED BY <1>4, <2>2, CalmRest DEF RunnerDies, Reclaimed, Calm, CalmFlow
<1>5. ASSUME NEW r \in Replicas, Crash(r)
      PROVE  Calm
  <2>1. \A p \in Procs : CalmFlow(p)
    <3>1. Idle.pc \in LoopPc /\ Idle.pc \in CalmPc /\ Idle.pc # "apply_load" /\ Idle.todo = {}
      BY DEF Idle, CalmPc, LoopPc
    <3> QED BY <1>5, <3>1 DEF Crash, CalmFlow
  <2> DEFINE doomed == {c \in Claims : runners[c].stage = "call"
                                         /\ \E h \in CrashedHandlers(r) : procs[h].claim = c}
  <2>2. runners' = [c \in Claims |-> IF c \in doomed THEN Over(runners[c]) ELSE runners[c]]
    BY <1>5 DEF Crash
  <2>3. \A c \in doomed \cap Claims : Started(c)
    BY DEF Started
  <2> HIDE DEF doomed
  <2> QED BY <1>5, <2>1, <2>2, <2>3, CalmEnds, CalmRest DEF Crash, Calm
<1>6. UNCHANGED vars => Calm
  BY CalmRest DEF vars, Calm, CalmFlow
<1> QED BY <1>2, <1>3, <1>4, <1>5, <1>6 DEF Environment

\* Every step is calm or one of the named ones.
LEMMA StepsSorted ==
  ASSUME TypeInv, BornInv, [Next]_vars
  PROVE  Calm \/ Named
<1>0. Replicas \subseteq Procs /\ Handlers \subseteq Procs
  BY DEF Procs
<1>1. ASSUME NEW p \in Procs, FlowStep(p)
      PROVE  Calm \/ Named
  BY <1>1, FinalizeCalm, ApplyCalm DEF FlowStep, ApplyStep, Applies, Named
<1>2. CASE \E w \in Replicas : WorkerFlow(w)
  BY <1>0, <1>1, <1>2, WorkerCalm DEF WorkerFlow, Named
<1>3. CASE \E h \in Handlers : HandlerStep(h)
  BY <1>0, <1>1, <1>3, HandlerCalm
  DEF HandlerStep, ReplyStep, GateStep, Replies, Decides, Named
<1>4. CASE \E c \in Claims : RunnerCalls(c) \/ Heartbeat(c)
  BY <1>4, OutsideCalm DEF Named
<1>5. CASE People
  BY <1>5, AdminCalm DEF People, AdminArrival, Inserts, Named
<1>6. CASE Environment \/ UNCHANGED vars
  BY <1>6, OutsideCalm
<1> QED BY <1>2, <1>3, <1>4, <1>5, <1>6 DEF Next

(***************************************************************************)
(* What a row keeps as long as it exists.                                  *)
(***************************************************************************)
Lasting(r, s) ==
  /\ s.status # "unborn" /\ s.backend = r.backend
  /\ Exists(s) => /\ Exists(r)
                  /\ s.kind = r.kind /\ s.mode = r.mode
                  /\ s.policy = r.policy /\ s.resumed = r.resumed
                  /\ r.briefed \subseteq s.briefed

LEMMA LastingStatement ==
  ASSUME NEW r \in Row, NEW s, r.status # "unborn", Statement(r, s)
  PROVE  Lasting(r, s)
<1>1. CASE s = r
  BY <1>1 DEF Lasting
<1>2. CASE s = Deleted(r) /\ CanDelete(r)
  <2>1. s.status = "deleted" /\ s.backend = r.backend
    BY <1>2, EmptyTyped DEF Deleted, Row
  <2> QED BY <2>1 DEF Lasting, Exists, NoRow
<1>3. CASE ~(CanDelete(r) /\ s = Deleted(r)) /\ s # r
  <2>1. Exists(r)
    BY <1>3 DEF Statement, Exists, NoRow, Ended, Live, Active, CanClaim, CanPrepare, CanReissue,
         CanRelease, CanAttach, CanTouch, CanMarkRunning, CanAdvance, CanSetReview, CanPark,
         CanRequeue, CanParkForApply, CanResumeApply, CanAppendBrief, CanRecordResult, CanFinish
  <2>2. CASE CanClaim(r) /\ claims' = claims + 1 /\ s = Claimed(r, claims + 1)
    BY <2>1, <2>2 DEF Claimed, Lasting, Row
  <2>3. CASE \E c \in Nat : CanPrepare(r, c) /\ s = Prepared(r, c)
    BY <2>1, <2>3 DEF Prepared, Lasting, Row
  <2>4. CASE \E c \in Nat : CanReissue(r) /\ s = Reissued(r, c)
    BY <2>1, <2>4 DEF Reissued, Lasting, Row
  <2>5. CASE \E c \in Nat : CanRelease(r, c) /\ s = Released(r)
    BY <2>1, <2>5 DEF Released, Lasting, Row
  <2>6. CASE \E c \in Nat : CanAttach(r, c) /\ s = Attached(r, c)
    BY <2>1, <2>6 DEF Attached, Lasting, Row
  <2>7. CASE CanTouch(r) /\ s = Touched(r)
    BY <2>1, <2>7 DEF Touched, Lasting, Row
  <2>8. CASE CanMarkRunning(r) /\ s = MarkedRunning(r)
    BY <2>1, <2>8 DEF MarkedRunning, Lasting, Row
  <2>9. CASE \E from, to \in Phase : CanAdvance(r, from) /\ s = Advanced(r, to)
    BY <2>1, <2>9 DEF Advanced, Lasting, Row
  <2>10. CASE \E n \in Nat, f \in Fingerprint : CanSetReview(r) /\ s = ReviewSet(r, n, f)
    BY <2>1, <2>10 DEF ReviewSet, Lasting, Row
  <2>11. CASE s \in {Parked(r), ParkedForApply(r), RequeuedAt(r, "implement")}
    BY <2>1, <2>11 DEF Parked, ParkedForApply, RequeuedAt, Lasting, Row
  <2>12. CASE s = ResumedApply(r) \/ \E outcome \in Goal : s = ResultRecorded(r, outcome)
    BY <2>1, <2>12 DEF ResumedApply, ResultRecorded, Lasting, Row
  <2>13. CASE \E g \in Nat : CanAppendBrief(r, g) /\ s = BriefAppended(r, g)
    BY <2>1, <2>13 DEF BriefAppended, Lasting, Row
  <2>14. CASE \E to \in Terminal, pr \in BOOLEAN : CanFinish(r) /\ s = Finished(r, to, pr)
    BY <2>1, <2>14 DEF Finished, Terminal, Lasting, Row
  <2>15. CASE \E clock \in Clock : Live(r) /\ s = Older(r, clock)
    BY <2>1, <2>15 DEF Older, Lasting, Row
  <2> QED
    BY <1>3, <2>2, <2>3, <2>4, <2>5, <2>6, <2>7, <2>8,
       <2>9, <2>10, <2>11, <2>12, <2>13, <2>14, <2>15 DEF Statement
<1> QED BY <1>1, <1>2, <1>3 DEF Statement

\* A row that was inserted stays so, with its backend, and with its kind, mode,
\* policy and brief while it exists.
LEMMA RowsLast ==
  ASSUME TypeInv, [Next]_vars, NEW j \in Jobs, Born(j)
  PROVE  Lasting(jobs[j], jobs'[j]) /\ (Born(j))'
<1>1. jobs[j] \in Row /\ (jobs'[j] = jobs[j] \/ Statement(jobs[j], jobs'[j]))
  BY NextIsOneStatement DEF TypeInv, OneStatement
<1>2. Statement(jobs[j], jobs'[j])
  BY <1>1 DEF Statement
<1> QED BY <1>1, <1>2, LastingStatement DEF Born, Lasting

(***************************************************************************)
(* Nothing refers to a row that was never inserted.                        *)
(***************************************************************************)
\* One flow goes on with the job, the claim and the gate it has, or ends.
Onward(p) ==
  /\ \A q \in Procs \ {p} : procs'[q] = procs[q]
  /\ \/ procs'[p] = Idle
     \/ /\ procs'[p].job = procs[p].job /\ procs'[p].claim = procs[p].claim
        /\ procs'[p].gate = procs[p].gate /\ procs'[p].row = procs[p].row
        /\ procs'[p].todo = procs[p].todo

LEMMA OnwardMoves ==
  ASSUME procs \in [Procs -> Proc], NEW p \in Procs
  PROVE  /\ \A pc : Goto(p, pc) => Onward(p)
         /\ \A to, pr, next : CallFinalize(p, to, pr, next) => Onward(p)
         /\ Leave(p) => Onward(p)
         /\ \A t : Carry(p, t) => Onward(p)
         /\ \A pc, goal : procs' = [procs EXCEPT ![p].pc = pc, ![p].goal = goal] => Onward(p)
         /\ \A pc, a : procs' = [procs EXCEPT ![p].pc = pc, ![p].approved = a] => Onward(p)
         /\ UNCHANGED procs => Onward(p)
<1>1. /\ \A pc : Goto(p, pc) => Onward(p)
      /\ Leave(p) => Onward(p)
      /\ UNCHANGED procs => Onward(p)
  BY DEF Goto, Leave, Onward, Proc
<1>2. \A to, pr, next : CallFinalize(p, to, pr, next) => Onward(p)
  BY DEF CallFinalize, Onward, Proc
<1>3. \A t : Carry(p, t) => Onward(p)
  BY DEF Carry, Onward, Proc
<1>4. \A pc, goal : procs' = [procs EXCEPT ![p].pc = pc, ![p].goal = goal] => Onward(p)
  BY DEF Onward, Proc
<1>5. \A pc, a : procs' = [procs EXCEPT ![p].pc = pc, ![p].approved = a] => Onward(p)
  BY DEF Onward, Proc
<1> QED BY <1>1, <1>2, <1>3, <1>4, <1>5

\* The flows that carry out a named step go onward.
LEMMA NamedOnward ==
  ASSUME TypeInv, NEW p \in Procs
  PROVE  /\ Prepare(p) \/ Provision(p) => Onward(p)
         /\ Replies(p) \/ Applies(p) \/ Decides(p) \/ HeldOpen(p) => Onward(p)
<1>0. procs \in [Procs -> Proc]
  BY DEF TypeInv, GoodProc
<1>1. Prepare(p) \/ Provision(p) => Onward(p)
  BY <1>0, OnwardMoves DEF Prepare, Provision, Start, Adopt, AtCapacity, Refused, Answered
<1>2. ResultRecord(p) \/ SpecReply(p) \/ ParkAdvance(p) \/ ParkOpen(p) \/ ParkRow(p) => Onward(p)
  BY <1>0, OnwardMoves DEF ResultRecord, SpecReply, ParkAdvance, ParkOpen, ParkRow
<1>3. PhaseJudge(p) \/ PhaseAdvance(p) => Onward(p)
  BY <1>0, OnwardMoves DEF PhaseJudge, PhaseAdvance
<1>4. Applies(p) => Onward(p)
  BY <1>0, OnwardMoves
  DEF Applies, ApplyLoad, ApplyJudge, ApplyBranch, ApplyGate, ApplyPark, ApplyFails
<1>5. ASSUME ResolveFlip(p)
      PROVE  Onward(p)
  <2>1. CASE GateOf(p).status = "waiting"
    BY <1>0, <1>5, <2>1, OnwardMoves DEF ResolveFlip, GateDecision
  <2>2. CASE GateOf(p).status \in GateDecision
    <3>1. procs' = [procs EXCEPT ![p].pc = "resolve_stuck", ![p].goal = GateOf(p).status]
      BY <1>5, <2>2 DEF ResolveFlip, GateDecision
    <3> QED BY <1>0, <3>1, OnwardMoves
  <2>3. CASE GateOf(p).status \notin {"waiting"} \cup GateDecision
    <3>1. Leave(p)
      BY <1>5, <2>3 DEF ResolveFlip, GateDecision
    <3> QED BY <1>0, <3>1, OnwardMoves
  <2> QED BY <2>1, <2>2, <2>3
<1>6. ResolveStuck(p) \/ DriveBrief(p) \/ DriveRequeue(p) \/ HeldOpen(p) => Onward(p)
  BY <1>0, OnwardMoves DEF ResolveStuck, DriveBrief, DriveRequeue, HeldOpen
<1>7. ResumeGuard(p) \/ ResumeFlip(p) => Onward(p)
  BY <1>0, OnwardMoves DEF ResumeGuard, ResumeFlip
<1> QED BY <1>1, <1>2, <1>3, <1>4, <1>5, <1>6, <1>7 DEF Replies, Decides

\* What opening and deciding a gate do to the table.
LEMMA GateMoves ==
  ASSUME TypeInv
  PROVE  /\ \A j \in Jobs, kind \in GateKind : CanOpen(j) /\ OpenGate(j, kind) =>
              \A g \in GateIds : \/ gates'[g] = gates[g]
                                 \/ /\ gates[g].status = "unopened"
                                    /\ gates'[g] = [status |-> "waiting", kind |-> kind, job |-> j]
         /\ \A k \in GateIds, status \in {"resolved", "rejected", "expired"} : FlipGate(k, status) =>
              \A g \in GateIds : \/ gates'[g] = gates[g]
                                 \/ /\ g = k /\ gates[g].status = "waiting"
                                    /\ gates'[g].status = status
                                    /\ gates'[g].kind = gates[g].kind /\ gates'[g].job = gates[g].job
<1>1. gates \in [GateIds -> Gate]
  BY DEF TypeInv, GoodGate
<1>2. ASSUME NEW j \in Jobs, NEW kind \in GateKind, CanOpen(j), OpenGate(j, kind), NEW g \in GateIds
      PROVE  \/ gates'[g] = gates[g]
             \/ /\ gates[g].status = "unopened"
                /\ gates'[g] = [status |-> "waiting", kind |-> kind, job |-> j]
  BY <1>1, <1>2 DEF OpenGate, FreshGates
<1>3. ASSUME NEW k \in GateIds, NEW status \in {"resolved", "rejected", "expired"},
             FlipGate(k, status), NEW g \in GateIds
      PROVE  \/ gates'[g] = gates[g]
             \/ /\ g = k /\ gates[g].status = "waiting"
                /\ gates'[g].status = status
                /\ gates'[g].kind = gates[g].kind /\ gates'[g].job = gates[g].job
  BY <1>1, <1>3 DEF FlipGate, Gate
<1> QED BY <1>2, <1>3

\* References of the next state are those of this one, or to inserted rows.
References ==
  /\ \A p \in Procs : \/ procs'[p] = procs[p]
                      \/ /\ (procs[p].pc \notin LoopPc => Born(procs[p].job))'
                         /\ (\A j \in procs[p].todo : Born(j))'
  /\ \A g \in GateIds : (Opened(g) => Born(gates[g].job))'
  /\ \A c \in Claims : (Started(c) => Born(runners[c].job))'
  /\ \A j \in Jobs : forge'[j].branch => (Born(j))'

LEMMA ReferencesKeep ==
  ASSUME BornInv, \A j \in Jobs : Born(j) => (Born(j))', References
  PROVE  BornInv'
BY DEF BornInv, References, Born

\* The table, the runners or the branches stay, or refer to the job of a flow.
LEMMA ReferencesStay ==
  ASSUME TypeInv, BornInv, \A j \in Jobs : Born(j) => (Born(j))'
  PROVE  /\ UNCHANGED gates => \A g \in GateIds : (Opened(g) => Born(gates[g].job))'
         /\ \A j \in Jobs, kind \in GateKind : Born(j) /\ CanOpen(j) /\ OpenGate(j, kind) =>
              \A g \in GateIds : (Opened(g) => Born(gates[g].job))'
         /\ \A k \in GateIds, status \in {"resolved", "rejected", "expired"} : FlipGate(k, status) =>
              \A g \in GateIds : (Opened(g) => Born(gates[g].job))'
         /\ (\A c \in Claims : runners'[c].job = runners[c].job /\ ((Started(c))' => Started(c)))
              => \A c \in Claims : (Started(c) => Born(runners[c].job))'
         /\ UNCHANGED runners => \A c \in Claims : (Started(c) => Born(runners[c].job))'
         /\ UNCHANGED forge => \A j \in Jobs : forge'[j].branch => (Born(j))'
         /\ \A p \in Procs : Onward(p) /\ procs[p].pc \notin LoopPc =>
              \A q \in Procs : \/ procs'[q] = procs[q]
                               \/ /\ (procs[q].pc \notin LoopPc => Born(procs[q].job))'
                                  /\ (\A j \in procs[q].todo : Born(j))'
<1>0. \A j : Born(j) => (Born(j))'
  BY DEF Born
<1>1. UNCHANGED gates => \A g \in GateIds : (Opened(g) => Born(gates[g].job))'
  BY <1>0 DEF BornInv, Opened
<1>2. ASSUME NEW j \in Jobs, NEW kind \in GateKind, Born(j), CanOpen(j), OpenGate(j, kind),
             NEW g \in GateIds
      PROVE  (Opened(g) => Born(gates[g].job))'
  <2>1. CASE gates'[g] = gates[g]
    BY <1>0, <2>1 DEF BornInv, Opened
  <2>2. CASE gates'[g] = [status |-> "waiting", kind |-> kind, job |-> j]
    BY <1>0, <1>2, <2>2
  <2> QED BY <1>2, <2>1, <2>2, GateMoves
<1>3. ASSUME NEW k \in GateIds, NEW status \in {"resolved", "rejected", "expired"}, FlipGate(k, status)
      PROVE  \A g \in GateIds : (Opened(g) => Born(gates[g].job))'
  BY <1>0, <1>3, GateMoves DEF BornInv, Opened
<1>4. /\ (\A c \in Claims : runners'[c].job = runners[c].job /\ ((Started(c))' => Started(c)))
           => \A c \in Claims : (Started(c) => Born(runners[c].job))'
      /\ UNCHANGED runners => \A c \in Claims : (Started(c) => Born(runners[c].job))'
      /\ UNCHANGED forge => \A j \in Jobs : forge'[j].branch => (Born(j))'
  BY <1>0 DEF BornInv, Started
<1>5. ASSUME NEW p \in Procs, Onward(p), procs[p].pc \notin LoopPc, NEW q \in Procs
      PROVE  \/ procs'[q] = procs[q]
             \/ /\ (procs[q].pc \notin LoopPc => Born(procs[q].job))'
                /\ (\A j \in procs[q].todo : Born(j))'
  <2>1. CASE procs'[p] = Idle
    BY <1>5, <2>1, IdleTyped DEF Onward, LoopPc, Idle
  <2>2. CASE procs'[p].job = procs[p].job /\ procs'[p].todo = procs[p].todo
    BY <1>0, <1>5, <2>2 DEF Onward, BornInv
  <2> QED BY <1>5, <2>1, <2>2 DEF Onward
<1> QED BY <1>1, <1>2, <1>3, <1>4, <1>5

\* What an answered call does to the runners.
LEMMA ReplyMoves ==
  ASSUME TypeInv, NEW h \in Procs
  PROVE  /\ \A phase : Answer(h, phase) =>
              \A c \in Claims : \/ runners'[c] = runners[c]
                                \/ /\ c = procs[h].claim /\ runners[c].stage = "call"
                                   /\ runners'[c].stage = "work" /\ runners'[c].phase = phase
                                   /\ runners'[c].job = runners[c].job
                                   /\ runners'[c].shim = runners[c].shim
         /\ Dismiss(h) =>
              \A c \in Claims : \/ runners'[c] = runners[c]
                                \/ /\ c = procs[h].claim /\ runners[c].stage = "call"
                                   /\ runners'[c].stage = "gone"
                                   /\ runners'[c].job = runners[c].job
                                   /\ runners'[c].shim = runners[c].shim
<1>0. runners \in [Claims -> GoodRunner] /\ \A c \in Claims : runners[c] \in Runner
  BY DEF TypeInv, GoodRunner
<1>1. ASSUME NEW phase, Answer(h, phase), NEW c \in Claims
      PROVE  \/ runners'[c] = runners[c]
             \/ /\ c = procs[h].claim /\ runners[c].stage = "call"
                /\ runners'[c].stage = "work" /\ runners'[c].phase = phase
                /\ runners'[c].job = runners[c].job /\ runners'[c].shim = runners[c].shim
  <2> DEFINE x == [runners[c] EXCEPT !.stage = "work", !.phase = phase]
  <2>1. x.stage = "work" /\ x.phase = phase /\ x.job = runners[c].job /\ x.shim = runners[c].shim
    BY <1>0 DEF Runner
  <2>2. runners'[c] = runners[c] \/ (c = procs[h].claim /\ runners[c].stage = "call" /\ runners'[c] = x)
    BY <1>0, <1>1 DEF Answer
  <2> HIDE DEF x
  <2> QED BY <2>1, <2>2
<1>2. ASSUME Dismiss(h), NEW c \in Claims
      PROVE  \/ runners'[c] = runners[c]
             \/ /\ c = procs[h].claim /\ runners[c].stage = "call"
                /\ runners'[c].stage = "gone"
                /\ runners'[c].job = runners[c].job /\ runners'[c].shim = runners[c].shim
  <2>1. /\ Over(runners[c]).stage = "gone" /\ Over(runners[c]).job = runners[c].job
        /\ Over(runners[c]).shim = runners[c].shim
    BY <1>0 DEF Over, Runner
  <2>2. runners'[c] = runners[c]
          \/ (c = procs[h].claim /\ runners[c].stage = "call" /\ runners'[c] = Over(runners[c]))
    BY <1>0, <1>2 DEF Dismiss
  <2> QED BY <2>1, <2>2
<1> QED BY <1>1, <1>2

LEMMA NamedReferences ==
  ASSUME TypeInv, BornInv, [Next]_vars, \A j \in Jobs : Born(j) => (Born(j))', Named
  PROVE  References
<1>0. /\ Replicas \subseteq Procs /\ Handlers \subseteq Procs
      /\ procs \in [Procs -> Proc] /\ runners \in [Claims -> GoodRunner]
      /\ forge \in [Jobs -> [branch : BOOLEAN, prs : Nat]]
      /\ \A j : Born(j) => j \in Jobs /\ (Born(j))'
      /\ \A pc \in ProvisionPc \cup ReplyPc \cup ApplyPc \cup GatePc : pc \notin LoopPc
      /\ {"review", "diff_policy"} \subseteq GateKind
  BY DEF Procs, TypeInv, GoodProc, Born, ProvisionPc, ReplyPc, ApplyPc, GatePc, LoopPc, GateKind
<1>1. ASSUME NEW p \in Procs, NEW x, procs' = [procs EXCEPT ![p] = x],
             x.pc \notin LoopPc => (Born(x.job))', \A j \in x.todo : Born(j)
      PROVE  \A q \in Procs : \/ procs'[q] = procs[q]
                              \/ /\ (procs[q].pc \notin LoopPc => Born(procs[q].job))'
                                 /\ (\A j \in procs[q].todo : Born(j))'
  BY <1>0, <1>1
<1>2. ASSUME NEW w \in Replicas, Provisions(w)
      PROVE  References
  <2>0. w \in Procs /\ UNCHANGED <<gates, forge>>
    BY <1>0, <1>2 DEF Provisions, Claim, Prepare, Provision, Release
  <2>1. CASE Claim(w)
    <3>1. PICK k \in Jobs :
            /\ CanClaim(jobs[k])
            /\ procs' = [procs EXCEPT ![w].pc = "prepare", ![w].job = k,
                           ![w].claim = claims + 1, ![w].slots = @ - 1]
      BY <2>1 DEF Claim
    <3>2. Born(k) /\ (Born(k))'
      BY <1>0, <3>1 DEF Born, CanClaim
    <3>3. procs'[w].job = k /\ procs'[w].todo = procs[w].todo
          /\ \A q \in Procs \ {w} : procs'[q] = procs[q]
      BY <1>0, <2>0, <3>1 DEF Proc
    <3>4. UNCHANGED runners
      BY <2>1 DEF Claim
    <3> QED BY <1>0, <2>0, <3>2, <3>3, <3>4, ReferencesStay DEF References, BornInv
  <2>2. CASE Prepare(w)
    <3>1. procs[w].pc \notin LoopPc /\ UNCHANGED runners
      BY <2>2 DEF Prepare, At, LoopPc
    <3> QED BY <2>0, <2>2, <3>1, NamedOnward, ReferencesStay DEF References
  <2>3. CASE Provision(w)
    <3>1. procs[w].pc \notin LoopPc /\ Born(procs[w].job)
      BY <2>0, <2>3 DEF Provision, At, LoopPc, BornInv
    <3>2. \A c \in Claims : (Started(c) => Born(runners[c].job))'
      <4>1. CASE UNCHANGED runners
        BY <4>1, ReferencesStay
      <4>2. CASE Start(w)
        <5> DEFINE rn == [NoRunner EXCEPT !.stage = "boot", !.shim = Shim(JobOf(w)),
                                          !.job = procs[w].job]
        <5>1. rn.job = procs[w].job
          BY DEF NoRunner
        <5>2. runners' = [runners EXCEPT ![procs[w].claim] = rn]
          BY <4>2 DEF Start
        <5> HIDE DEF rn
        <5> QED BY <1>0, <3>1, <5>1, <5>2 DEF Started, BornInv
      <4> QED BY <2>3, <4>1, <4>2 DEF Provision, Adopt, AtCapacity, Refused
    <3> QED BY <2>0, <2>3, <3>1, <3>2, NamedOnward, ReferencesStay DEF References
  <2>4. CASE Release(w)
    <3> DEFINE x == [Idle EXCEPT !.pc = "claim", !.slots = procs[w].slots]
    <3>1. x.pc \in LoopPc /\ x.todo = {}
      BY DEF Idle, LoopPc
    <3>2. procs' = [procs EXCEPT ![w] = x] /\ UNCHANGED runners
      BY <2>4 DEF Release, NextClaim
    <3> HIDE DEF x
    <3> QED BY <1>1, <2>0, <3>1, <3>2, ReferencesStay DEF References
  <2> QED BY <1>2, <2>1, <2>2, <2>3, <2>4 DEF Provisions
<1>3. ASSUME NEW c \in Claims, RunnerCalls(c)
      PROVE  References
  <2>1. PICK h \in Handlers, at \in Replicas, stage \in {"boot", "work"}, pc \in Pc, goal \in Goal :
          Call(c, h, at, stage, pc, goal)
    BY <1>3 DEF RunnerCalls, RunnerApiStep, SpecCall, ResultCall, PhaseCall, Goal, Pc, ReplyPc
  <2>2. UNCHANGED <<gates, forge>> /\ Started(c)
    BY <2>1 DEF Call, Started
  <2>3. \A d \in Claims : runners'[d].job = runners[d].job /\ ((Started(d))' => Started(d))
    <3>1. runners' = [runners EXCEPT ![c].stage = "call"] \/ runners' = [runners EXCEPT ![c] = Over(@)]
      BY <2>1 DEF Call
    <3>2. runners[c] \in Runner /\ Over(runners[c]).job = runners[c].job
      BY <1>0 DEF GoodRunner, Over, Runner
    <3> QED BY <1>0, <2>2, <3>1, <3>2 DEF Started, Runner
  <2>4. \/ UNCHANGED procs
        \/ procs' = [procs EXCEPT ![h] = [Idle EXCEPT !.pc = pc, !.at = at, !.claim = c,
                       !.job = runners[c].job, !.row = RunnerJob(c), !.goal = goal]]
    BY <2>1 DEF Call, Serve
  <2> DEFINE x == [Idle EXCEPT !.pc = pc, !.at = at, !.claim = c,
                       !.job = runners[c].job, !.row = RunnerJob(c), !.goal = goal]
  <2>5. x.job = runners[c].job /\ x.todo = {}
    BY DEF Idle
  <2>6. Born(runners[c].job)
    BY <2>2 DEF BornInv
  <2>7. UNCHANGED procs \/ procs' = [procs EXCEPT ![h] = x]
    BY <2>4
  <2> HIDE DEF x
  <2> QED BY <1>0, <1>1, <2>2, <2>3, <2>5, <2>6, <2>7, ReferencesStay DEF References
<1>4. ASSUME NEW h \in Handlers, Replies(h) \/ Decides(h) \/ HeldOpen(h)
      PROVE  References
  <2>1. h \in Procs /\ procs[h].pc \notin LoopPc /\ Born(procs[h].job) /\ UNCHANGED forge
    BY <1>0, <1>4 DEF Replies, Decides, HeldOpen, SpecReply, ResultRecord, PhaseJudge, PhaseAdvance,
         ParkAdvance, ParkOpen, ParkRow, ResolveFlip, ResolveStuck, DriveBrief, DriveRequeue,
         ResumeGuard, ResumeFlip, At, LoopPc, BornInv
  <2>2. \A c \in Claims : (Started(c) => Born(runners[c].job))'
    <3>1. CASE UNCHANGED runners
      BY <3>1, ReferencesStay
    <3>2. ASSUME NEW phase, Answer(h, phase) \/ Dismiss(h)
          PROVE  \A c \in Claims : runners'[c].job = runners[c].job /\ ((Started(c))' => Started(c))
      BY <2>1, <3>2, ReplyMoves DEF Started
    <3>3. UNCHANGED runners \/ Dismiss(h) \/ \E phase : Answer(h, phase)
      <4>1. SpecReply(h) \/ PhaseAdvance(h) => Dismiss(h) \/ \E phase : Answer(h, phase)
        BY DEF SpecReply, PhaseAdvance
      <4> QED BY <1>4, <4>1 DEF Replies, Decides, HeldOpen, ResultRecord, PhaseJudge,
           ParkAdvance, ParkOpen, ParkRow, ResolveFlip, ResolveStuck, DriveBrief, DriveRequeue,
           ResumeGuard, ResumeFlip
    <3> QED BY <3>1, <3>2, <3>3, ReferencesStay
  <2>3. \A g \in GateIds : (Opened(g) => Born(gates[g].job))'
    <3>1. CASE UNCHANGED gates
      BY <3>1, ReferencesStay
    <3>2. CASE CanOpen(procs[h].job) /\ OpenGate(procs[h].job, "review")
      BY <1>0, <2>1, <3>2, ReferencesStay
    <3>3. CASE ResolveFlip(h)
      <4>1. \A g \in GateIds : \/ gates'[g] = gates[g]
                               \/ gates[g].status = "waiting" /\ gates'[g].job = gates[g].job
        BY <3>3 DEF ResolveFlip, FlipGate, TypeInv, GoodGate, Gate
      <4> QED BY <1>0, <4>1 DEF Opened, BornInv
    <3> QED BY <1>4, <3>1, <3>2, <3>3 DEF Replies, Decides, HeldOpen, SpecReply, ResultRecord,
         PhaseJudge, PhaseAdvance, ParkAdvance, ParkOpen, ParkRow, ResolveStuck, DriveBrief,
         DriveRequeue, ResumeGuard, ResumeFlip
  <2> QED BY <1>4, <2>1, <2>2, <2>3, NamedOnward, ReferencesStay DEF References
<1>5. ASSUME NEW p \in Procs, Applies(p)
      PROVE  References
  <2>1. procs[p].pc \notin LoopPc /\ Born(procs[p].job) /\ UNCHANGED runners
    BY <1>5 DEF Applies, ApplyLoad, ApplyJudge, ApplyBranch, ApplyGate, ApplyPark, At, LoopPc, BornInv
  <2>2. \A g \in GateIds : (Opened(g) => Born(gates[g].job))'
    <3>1. CASE UNCHANGED gates
      BY <3>1, ReferencesStay
    <3>2. CASE CanOpen(procs[p].job) /\ OpenGate(procs[p].job, "diff_policy")
      BY <1>0, <2>1, <3>2, ReferencesStay
    <3> QED BY <1>5, <3>1, <3>2 DEF Applies, ApplyLoad, ApplyJudge, ApplyBranch, ApplyGate, ApplyPark
  <2>3. \A j \in Jobs : forge'[j].branch => (Born(j))'
    <3>1. UNCHANGED forge \/ forge' = [forge EXCEPT ![procs[p].job].branch = TRUE]
      BY <1>5 DEF Applies, ApplyLoad, ApplyJudge, ApplyBranch, ApplyGate, ApplyPark
    <3> QED BY <1>0, <2>1, <3>1 DEF BornInv
  <2> QED BY <1>5, <2>1, <2>2, <2>3, NamedOnward, ReferencesStay DEF References
<1>6. ASSUME NEW j \in Jobs, Inserts(j) \/ Delete(j)
      PROVE  References
  <2>1. UNCHANGED <<runners, forge>>
    BY <1>6 DEF Inserts, Create, Retry, CreateHeld, Delete
  <2>2. \A g \in GateIds : (Opened(g) => Born(gates[g].job))'
    <3>1. UNCHANGED gates \/ \A g \in GateIds : \/ gates'[g] = gates[g]
                                                \/ gates'[g] = [NoGate EXCEPT !.status = "deleted"]
      BY <1>6 DEF Inserts, Create, Retry, CreateHeld, Delete
    <3>2. [NoGate EXCEPT !.status = "deleted"].status = "deleted"
      BY DEF NoGate
    <3> QED BY <1>0, <3>1, <3>2, ReferencesStay DEF Opened, BornInv
  <2>3. CASE UNCHANGED procs
    BY <2>1, <2>2, <2>3, ReferencesStay DEF References
  <2>4. ASSUME NEW h \in Handlers, NEW at \in Replicas, CreateHeld(h, j, at)
        PROVE  References
    <3>1. (Born(j))'
      <4>1. PICK kind \in Kinds, backend \in Backends \ {"local"}, policy \in Policies :
              Insert(j, CreateJob("waiting", "await_human", kind, backend, policy, FALSE))
        BY <2>4 DEF CreateHeld
      <4> DEFINE row == CreateJob("waiting", "await_human", kind, backend, policy, FALSE)
      <4>2. row.status = "waiting"
        BY EmptyTyped DEF CreateJob, Row
      <4>3. jobs'[j] = row
        BY <4>1 DEF Insert, TypeInv
      <4> HIDE DEF row
      <4> QED BY <4>2, <4>3 DEF Born
    <3> DEFINE x == [Idle EXCEPT !.pc = "held_open", !.at = at, !.job = j]
    <3>2. x.job = j /\ x.todo = {}
      BY DEF Idle
    <3>3. procs' = [procs EXCEPT ![h] = x]
      BY <2>4 DEF CreateHeld, Begin
    <3> HIDE DEF x
    <3> QED BY <1>0, <1>1, <2>1, <2>2, <3>1, <3>2, <3>3, ReferencesStay DEF References
  <2> QED BY <1>6, <2>3, <2>4 DEF Inserts, Create, Retry, Delete
<1>7. ASSUME NEW h \in Handlers, NEW at \in Replicas, NEW g \in GateIds, GateArrival(h, g, at)
      PROVE  References
  <2>1. UNCHANGED <<runners, forge>> /\ Opened(g) /\ Born(gates[g].job)
    BY <1>7 DEF GateArrival, Resolve, GateExpires, Opened, GateDecision, BornInv
  <2>2. \A k \in GateIds : (Opened(k) => Born(gates[k].job))'
    BY <1>7, ReferencesStay DEF GateArrival, Resolve, GateExpires
  <2>3. CASE Resolve(h, g, at)
    <3>1. PICK decision \in GateDecision :
            procs' = [procs EXCEPT ![h] = [Idle EXCEPT !.pc = "resolve", !.at = at,
                        !.gate = g, !.job = gates[g].job, !.goal = decision]]
      BY <2>3 DEF Resolve
    <3> DEFINE x == [Idle EXCEPT !.pc = "resolve", !.at = at,
                        !.gate = g, !.job = gates[g].job, !.goal = decision]
    <3>2. x.job = gates[g].job /\ x.todo = {}
      BY DEF Idle
    <3>3. procs' = [procs EXCEPT ![h] = x]
      BY <3>1
    <3> HIDE DEF x
    <3> QED BY <1>0, <1>1, <2>1, <2>2, <3>2, <3>3, ReferencesStay DEF References
  <2>4. CASE GateExpires(h, g, at)
    <3> DEFINE x == [Idle EXCEPT !.pc = "fin_read", !.at = at, !.gate = g,
                 !.job = gates[g].job, !.to = "cancelled", !.next = "leave"]
    <3>1. x.job = gates[g].job /\ x.todo = {}
      BY DEF Idle
    <3>2. procs' = [procs EXCEPT ![h] = x]
      BY <2>4 DEF GateExpires
    <3> HIDE DEF x
    <3> QED BY <1>0, <1>1, <2>1, <2>2, <3>1, <3>2, ReferencesStay DEF References
  <2> QED BY <1>7, <2>3, <2>4 DEF GateArrival
<1> QED BY <1>2, <1>3, <1>4, <1>5, <1>6, <1>7 DEF Named

LEMMA BornKeeps ==
  ASSUME TypeInv, BornInv, [Next]_vars
  PROVE  BornInv'
<1>1. \A j \in Jobs : Born(j) => (Born(j))'
  BY RowsLast
<1>2. Calm => References
  <2> SUFFICES ASSUME Calm PROVE References
    OBVIOUS
  <2>0. \A j : Born(j) => (Born(j))'
    BY <1>1 DEF Born
  <2>1. \A p \in Procs : \/ procs'[p] = procs[p]
                         \/ /\ (procs[p].pc \notin LoopPc => Born(procs[p].job))'
                            /\ (\A j \in procs[p].todo : Born(j))'
    BY <2>0 DEF Calm, CalmFlow
  <2>2. \A c \in Claims : (Started(c) => Born(runners[c].job))'
    BY <2>0 DEF Calm, CalmRunner, Started, BornInv
  <2>3. \A j \in Jobs : forge'[j].branch => (Born(j))'
    BY <2>0 DEF Calm, BornInv
  <2> QED BY <1>1, <2>1, <2>2, <2>3, ReferencesStay DEF Calm, References
<1> QED BY <1>1, <1>2, StepsSorted, NamedReferences, ReferencesKeep

\* No flow, gate, runner or branch refers to a job that was never created.
THEOREM NothingUnborn == Spec => []BornInv
<1>1. Init => BornInv
  <2>1. Idle.pc \in LoopPc /\ Idle.todo = {} /\ NoGate.status = "unopened" /\ NoRunner.stage = "none"
    BY DEF Idle, LoopPc, NoGate, NoRunner
  <2> QED BY <2>1 DEF Init, BornInv, Opened, Started
<1>2. TypeInv /\ BornInv /\ [Next]_vars => BornInv'
  BY BornKeeps
<1> QED BY <1>1, <1>2, TypesHold, PTL DEF Spec

(***************************************************************************)
(* Who takes a step that is not calm: one flow, and no other flow moves.   *)
(***************************************************************************)
Calls(c, h) == \E at \in Replicas : RunnerApiStep(c, h, at)
Acts(a) ==
  \/ a \in Replicas /\ Provisions(a)
  \/ /\ a \in Handlers
     /\ \/ \E c \in Claims : Calls(c, a)
        \/ Replies(a) \/ Decides(a) \/ HeldOpen(a)
        \/ \E j \in Jobs, at \in Replicas : CreateHeld(a, j, at)
        \/ \E at \in Replicas, g \in GateIds : GateArrival(a, g, at)
  \/ Applies(a)
TableOnly(j) == Create(j) \/ Delete(j) \/ \E k \in Jobs : Retry(k, j)

LEMMA ActorsSorted ==
  ASSUME TypeInv, Named
  PROVE  \/ \E a \in Procs : Acts(a) /\ \A q \in Procs \ {a} : procs'[q] = procs[q]
         \/ \E j \in Jobs : TableOnly(j)
<1>0. procs \in [Procs -> Proc] /\ Handlers \subseteq Procs /\ Replicas \subseteq Procs
  BY DEF TypeInv, GoodProc, Procs
<1>1. ASSUME NEW a \in Procs, \E x : procs' = [procs EXCEPT ![a] = x]
      PROVE  \A q \in Procs \ {a} : procs'[q] = procs[q]
  BY <1>0, <1>1
<1>2. ASSUME NEW w \in Replicas, Provisions(w)
      PROVE  \A q \in Procs \ {w} : procs'[q] = procs[q]
  <2>1. CASE Claim(w)
    <3>1. PICK k \in Jobs :
            procs' = [procs EXCEPT ![w].pc = "prepare", ![w].job = k,
                           ![w].claim = claims + 1, ![w].slots = @ - 1]
      BY <2>1 DEF Claim
    <3> QED BY <1>0, <3>1
  <2>2. CASE Prepare(w) \/ Provision(w)
    BY <1>0, <2>2, NamedOnward DEF Onward
  <2>3. CASE Release(w)
    BY <1>0, <1>1, <2>3 DEF Release, NextClaim
  <2> QED BY <1>2, <2>1, <2>2, <2>3 DEF Provisions
<1>3. ASSUME NEW h \in Handlers, NEW c \in Claims, Calls(c, h)
      PROVE  \A q \in Procs \ {h} : procs'[q] = procs[q]
  <2>1. UNCHANGED procs \/ \E x : procs' = [procs EXCEPT ![h] = x]
    BY <1>3 DEF Calls, RunnerApiStep, SpecCall, ResultCall, PhaseCall, Call, Serve
  <2> QED BY <1>0, <1>1, <2>1
<1>4. ASSUME NEW h \in Handlers, Replies(h) \/ Decides(h) \/ HeldOpen(h)
      PROVE  \A q \in Procs \ {h} : procs'[q] = procs[q]
  BY <1>0, <1>4, NamedOnward DEF Onward
<1>5. ASSUME NEW a \in Procs, Applies(a)
      PROVE  \A q \in Procs \ {a} : procs'[q] = procs[q]
  BY <1>5, NamedOnward DEF Onward
<1>6. ASSUME NEW h \in Handlers, NEW j \in Jobs, NEW at \in Replicas, CreateHeld(h, j, at)
      PROVE  \A q \in Procs \ {h} : procs'[q] = procs[q]
  BY <1>0, <1>1, <1>6 DEF CreateHeld, Begin
<1>7. ASSUME NEW h \in Handlers, NEW at \in Replicas, NEW g \in GateIds, GateArrival(h, g, at)
      PROVE  \A q \in Procs \ {h} : procs'[q] = procs[q]
  BY <1>0, <1>1, <1>7 DEF GateArrival, Resolve, GateExpires
<1>8. CASE \E w \in Replicas : Provisions(w)
  BY <1>0, <1>2, <1>8 DEF Acts
<1>9. CASE \E c \in Claims : RunnerCalls(c)
  <2>1. PICK c \in Claims, h \in Handlers : Calls(c, h)
    BY <1>9 DEF RunnerCalls, Calls
  <2> QED BY <1>0, <1>3, <2>1 DEF Acts
<1>10. CASE \E h \in Handlers : Replies(h) \/ Decides(h) \/ HeldOpen(h)
  BY <1>0, <1>4, <1>10 DEF Acts
<1>11. CASE \E p \in Procs : Applies(p)
  BY <1>5, <1>11 DEF Acts
<1>12. CASE \E j \in Jobs : Inserts(j) \/ Delete(j)
  BY <1>0, <1>6, <1>12 DEF Inserts, TableOnly, Acts
<1>13. CASE \E h \in Handlers, at \in Replicas, g \in GateIds : GateArrival(h, g, at)
  BY <1>0, <1>7, <1>13 DEF Acts
<1> QED BY <1>8, <1>9, <1>10, <1>11, <1>12, <1>13 DEF Named

(***************************************************************************)
(* What decisions at a gate lead to: a flow that drives a decision has the *)
(* decided gate behind it, and a branch has the policy's consent.          *)
(***************************************************************************)
GateFlowPc == {"resolve", "resolve_stuck", "brief", "requeue", "resume_guard", "resume"}

\* A flow on its way from a gate: the gate is one of its job, decided as the flow
\* goes on, as long as the job exists (gates go with the row).
GateFlow(p) ==
  LET g == procs[p].gate IN
  procs[p].pc \in GateFlowPc =>
    /\ g \in GateIds
    /\ Exists(JobOf(p)) =>
         /\ Opened(g) /\ gates[g].job = procs[p].job
         /\ procs[p].pc \in {"resolve_stuck", "brief"} => gates[g].status = procs[p].goal
         /\ procs[p].pc = "brief" /\ procs[p].goal = "resolved" => gates[g].kind = "review"
         /\ procs[p].pc = "requeue" => gates[g].status = "resolved" /\ gates[g].kind = "review"
         /\ procs[p].pc \in {"resume_guard", "resume"} =>
              gates[g].status = "resolved" /\ gates[g].kind = "diff_policy"

Allowed(j) ==
  \/ jobs[j].policy = "allow"
  \/ jobs[j].policy = "gate" /\ ApprovedGate(j, "diff_policy")

\* An apply that carries an approval, and one about to write to the forge.
Judged(p) ==
  Exists(JobOf(p)) =>
    /\ procs[p].pc \in {"apply_load", "apply_judge"} /\ procs[p].approved =>
         ApprovedGate(procs[p].job, "diff_policy")
    /\ procs[p].pc = "apply_branch" => Allowed(procs[p].job)

GateInv ==
  /\ \A p \in Procs : GateFlow(p) /\ Judged(p)
  /\ PolicyRespected

(***************************************************************************)
(* What gates and rows keep.                                               *)
(***************************************************************************)
\* An open gate of a job that exists stays what it is, and a decision stays.
GateLasts(g) ==
  Opened(g) /\ Exists(jobs'[gates[g].job]) =>
    /\ gates'[g].job = gates[g].job /\ gates'[g].kind = gates[g].kind
    /\ gates'[g].status \notin {"unopened", "deleted"}
    /\ gates[g].status # "waiting" => gates'[g].status = gates[g].status

LEMMA DeletedRow ==
  ASSUME TypeInv, NEW j \in Jobs, Delete(j)
  PROVE  jobs'[j].status = "deleted" /\ \A k \in Jobs \ {j} : jobs'[k] = jobs[k]
<1>1. Deleted(jobs[j]).status = "deleted"
  BY EmptyTyped DEF TypeInv, Deleted, Row
<1> QED BY <1>1 DEF TypeInv, Delete, Write, Update

LEMMA GatesLast ==
  ASSUME TypeInv, BornInv, [Next]_vars
  PROVE  \A g \in GateIds : GateLasts(g)
<1>0. gates \in [GateIds -> Gate] /\ Handlers \subseteq Procs
      /\ {"review", "diff_policy"} \subseteq GateKind
      /\ \A pc \in ReplyPc \cup ApplyPc \cup GatePc : pc \notin LoopPc
  BY DEF TypeInv, GoodGate, Procs, GateKind, ReplyPc, ApplyPc, GatePc, LoopPc
<1>1. UNCHANGED gates => \A g \in GateIds : GateLasts(g)
  BY DEF GateLasts, Opened
<1>2. ASSUME NEW j \in Jobs, NEW kind \in GateKind, CanOpen(j), OpenGate(j, kind)
      PROVE  \A g \in GateIds : GateLasts(g)
  BY <1>0, <1>2, GateMoves DEF GateLasts, Opened
<1>3. ASSUME NEW k \in GateIds, NEW status \in {"resolved", "rejected", "expired"}, FlipGate(k, status)
      PROVE  \A g \in GateIds : GateLasts(g)
  BY <1>0, <1>3 DEF FlipGate, GateLasts, Opened, Gate
<1>4. ASSUME NEW h \in Handlers, Replies(h) \/ Decides(h) \/ HeldOpen(h)
      PROVE  \A g \in GateIds : GateLasts(g)
  <2>1. h \in Procs /\ procs[h].job \in Jobs
    BY <1>0, <1>4, JobTyped DEF Replies, Decides, HeldOpen, SpecReply, ResultRecord, PhaseJudge,
         PhaseAdvance, ParkAdvance, ParkOpen, ParkRow, ResolveFlip, ResolveStuck, DriveBrief,
         DriveRequeue, ResumeGuard, ResumeFlip, At, ReplyPc, GatePc, ApplyPc
  <2>2. CASE ParkOpen(h) \/ HeldOpen(h)
    BY <1>0, <1>2, <2>1, <2>2 DEF ParkOpen, HeldOpen
  <2>3. CASE ResolveFlip(h)
    <3>1. procs[h].goal \in GateDecision
      BY <2>1, <2>3 DEF ResolveFlip, At, TypeInv, GoodProc
    <3>2. FlipGate(procs[h].gate, procs[h].goal)
      BY <2>3 DEF ResolveFlip
    <3>3. procs[h].gate \notin GateIds => UNCHANGED gates
      BY <1>0, <3>2 DEF FlipGate
    <3> QED BY <1>1, <1>3, <3>1, <3>2, <3>3 DEF GateDecision
  <2>4. CASE UNCHANGED gates
    BY <1>1, <2>4
  <2> QED BY <1>4, <2>2, <2>3, <2>4 DEF Replies, Decides, SpecReply, ResultRecord, PhaseJudge,
       PhaseAdvance, ParkAdvance, ParkRow, ResolveStuck, DriveBrief, DriveRequeue, ResumeGuard,
       ResumeFlip
<1>5. ASSUME NEW p \in Procs, Applies(p)
      PROVE  \A g \in GateIds : GateLasts(g)
  <2>1. CASE ApplyGate(p)
    <3>1. procs[p].job \in Jobs
      BY <1>0, <2>1, JobTyped DEF ApplyGate, At, ApplyPc
    <3> QED BY <1>0, <1>1, <1>2, <2>1, <3>1 DEF ApplyGate
  <2>2. CASE UNCHANGED gates
    BY <1>1, <2>2
  <2> QED BY <1>5, <2>1, <2>2 DEF Applies, ApplyLoad, ApplyJudge, ApplyBranch, ApplyPark
<1>6. ASSUME NEW j \in Jobs, Inserts(j) \/ Delete(j)
      PROVE  \A g \in GateIds : GateLasts(g)
  <2>1. CASE Delete(j)
    <3>1. \A g \in GateIds : gates[g].job # j => gates'[g] = gates[g]
      BY <1>0, <2>1 DEF Delete
    <3>2. \A g \in GateIds : gates[g].job = j => ~Exists(jobs'[gates[g].job])
      BY <2>1, DeletedRow DEF Exists, NoRow
    <3> QED BY <3>1, <3>2 DEF GateLasts, Opened
  <2>2. CASE Inserts(j)
    BY <1>1, <2>2 DEF Inserts, Create, Retry, CreateHeld
  <2> QED BY <1>6, <2>1, <2>2
<1>7. ASSUME NEW h \in Handlers, NEW at \in Replicas, NEW g \in GateIds, GateArrival(h, g, at)
      PROVE  \A k \in GateIds : GateLasts(k)
  BY <1>1, <1>3, <1>7 DEF GateArrival, Resolve, GateExpires
<1>8. (\E w \in Replicas : Provisions(w)) \/ (\E c \in Claims : RunnerCalls(c)) => UNCHANGED gates
  BY DEF Provisions, Claim, Prepare, Provision, Release, RunnerCalls, RunnerApiStep, SpecCall,
         ResultCall, PhaseCall, Call
<1>9. Calm => UNCHANGED gates
  BY DEF Calm
<1> QED BY <1>1, <1>4, <1>5, <1>6, <1>7, <1>8, <1>9, StepsSorted DEF Named

\* So an approval lasts as long as its job.
LEMMA ApprovalLasts ==
  ASSUME TypeInv, BornInv, [Next]_vars, NEW j \in Jobs, Exists(jobs'[j])
  PROVE  /\ \A kind \in GateKind : ApprovedGate(j, kind) => (ApprovedGate(j, kind))'
         /\ Born(j) /\ Allowed(j) => (Allowed(j))'
<1>1. ASSUME NEW kind \in GateKind, ApprovedGate(j, kind)
      PROVE  (ApprovedGate(j, kind))'
  <2>1. PICK g \in GateIds : gates[g].job = j /\ gates[g].kind = kind /\ gates[g].status = "resolved"
    BY <1>1 DEF ApprovedGate, GatesOf
  <2>2. GateLasts(g)
    BY GatesLast
  <2> QED BY <2>1, <2>2 DEF GateLasts, Opened, ApprovedGate, GatesOf
<1>2. Born(j) => jobs'[j].policy = jobs[j].policy
  BY RowsLast DEF Lasting
<1> QED BY <1>1, <1>2 DEF Allowed, GateKind

(***************************************************************************)
(* A flow that stays where it is keeps what it has; a flow that goes       *)
(* elsewhere needs nothing.                                                *)
(***************************************************************************)
LEMMA FlowStays ==
  ASSUME TypeInv, BornInv, [Next]_vars, NEW p \in Procs, procs'[p] = procs[p],
         GateFlow(p), Judged(p)
  PROVE  (GateFlow(p) /\ Judged(p))'
<1> DEFINE j == procs[p].job
           g == procs[p].gate
<1>0. \A pc \in GateFlowPc \cup ApplyPc : pc \notin LoopPc
  BY DEF GateFlowPc, ApplyPc, LoopPc
<1>1. ASSUME procs[p].pc \in GateFlowPc \cup ApplyPc
      PROVE  Born(j) /\ (Exists(jobs'[j]) => Exists(jobs[j]))
  BY <1>0, <1>1, RowsLast DEF BornInv, Lasting, Born
<1>2. (GateFlow(p))'
  <2>1. CASE procs[p].pc \in GateFlowPc /\ Exists(jobs'[j])
    <3>1. g \in GateIds /\ Exists(jobs[j]) /\ Opened(g) /\ gates[g].job = j
      BY <1>1, <2>1 DEF GateFlow, JobOf
    <3>2. GateLasts(g)
      BY <3>1, GatesLast
    <3>3. /\ gates'[g].job = j /\ gates'[g].kind = gates[g].kind /\ (Opened(g))'
          /\ gates[g].status # "waiting" => gates'[g].status = gates[g].status
      BY <2>1, <3>1, <3>2 DEF GateLasts, Opened
    <3>4. procs[p].pc \in {"resolve_stuck", "brief", "requeue", "resume_guard", "resume"} =>
            gates[g].status # "waiting" \/ procs[p].goal = "waiting"
      BY <2>1, <3>1 DEF GateFlow, JobOf
    <3>5. procs[p].goal # "waiting"
      BY DEF TypeInv, GoodProc, Proc, Goal, Phase, Outcome, GateDecision
    <3> QED BY <2>1, <3>1, <3>3, <3>4, <3>5 DEF GateFlow, JobOf
  <2>2. CASE procs[p].pc \in GateFlowPc /\ ~Exists(jobs'[j])
    BY <2>2 DEF GateFlow, JobOf
  <2>3. CASE procs[p].pc \notin GateFlowPc
    BY <2>3 DEF GateFlow
  <2> QED BY <2>1, <2>2, <2>3
<1>3. (Judged(p))'
  <2>1. CASE procs[p].pc \in {"apply_load", "apply_judge", "apply_branch"} /\ Exists(jobs'[j])
    <3>1. Born(j) /\ Exists(jobs[j]) /\ j \in Jobs
      BY <1>1, <2>1 DEF ApplyPc, Born
    <3> QED BY <2>1, <3>1, ApprovalLasts DEF Judged, JobOf, GateKind
  <2>2. CASE ~(procs[p].pc \in {"apply_load", "apply_judge", "apply_branch"} /\ Exists(jobs'[j]))
    BY <2>2 DEF Judged, JobOf
  <2> QED BY <2>1, <2>2
<1> QED BY <1>2, <1>3

\* A flow that arrives at none of the places the invariant speaks of.
Elsewhere(p) ==
  /\ procs'[p].pc \notin GateFlowPc \cup {"apply_judge", "apply_branch"}
  /\ procs'[p].pc = "apply_load" => ~procs'[p].approved

LEMMA ElsewhereKeeps ==
  ASSUME NEW p \in Procs, Elsewhere(p)
  PROVE  (GateFlow(p) /\ Judged(p))'
BY DEF Elsewhere, GateFlow, Judged

\* What the others find: a row or gate that is there after the step was there.
LEMMA RowsThere ==
  ASSUME TypeInv, BornInv, [Next]_vars, NEW p \in Procs, procs[p].pc \notin LoopPc,
         procs'[p].job = procs[p].job, Exists((JobOf(p))')
  PROVE  /\ procs[p].job \in Jobs /\ Born(procs[p].job) /\ Exists(JobOf(p))
         /\ (JobOf(p))' = jobs'[procs[p].job]
         /\ (JobOf(p))'.policy = JobOf(p).policy
BY RowsLast DEF BornInv, Born, Lasting, JobOf

LEMMA ElsewhereMoves ==
  ASSUME procs \in [Procs -> Proc], NEW p \in Procs
  PROVE  /\ \A pc : Goto(p, pc) /\ pc \notin GateFlowPc \cup {"apply_load", "apply_judge", "apply_branch"}
              => Elsewhere(p)
         /\ \A to, pr, next : CallFinalize(p, to, pr, next) => Elsewhere(p)
         /\ Leave(p) => Elsewhere(p)
         /\ \A x : procs' = [procs EXCEPT ![p] = x]
                     /\ x.pc \notin GateFlowPc \cup {"apply_load", "apply_judge", "apply_branch"}
              => Elsewhere(p)
<1>1. ASSUME NEW pc, Goto(p, pc), pc \notin GateFlowPc \cup {"apply_load", "apply_judge", "apply_branch"}
      PROVE  Elsewhere(p)
  <2>1. procs'[p].pc = pc
    BY <1>1 DEF Goto, Proc
  <2> QED BY <1>1, <2>1 DEF Elsewhere
<1>2. ASSUME NEW to, NEW pr, NEW next, CallFinalize(p, to, pr, next)
      PROVE  Elsewhere(p)
  <2>1. procs'[p].pc = "fin_read"
    BY <1>2 DEF CallFinalize, Proc
  <2> QED BY <2>1 DEF Elsewhere, GateFlowPc
<1>3. ASSUME NEW x, procs' = [procs EXCEPT ![p] = x],
             x.pc \notin GateFlowPc \cup {"apply_load", "apply_judge", "apply_branch"}
      PROVE  Elsewhere(p)
  <2>1. procs'[p] = x
    BY <1>3
  <2> QED BY <1>3, <2>1 DEF Elsewhere
<1>4. Idle.pc \notin GateFlowPc \cup {"apply_load", "apply_judge", "apply_branch"}
  BY DEF Idle, GateFlowPc
<1> QED BY <1>1, <1>2, <1>3, <1>4 DEF Leave

(***************************************************************************)
(* Arrivals.                                                               *)
(***************************************************************************)
\* The winner of a gate's compare-and-swap drives its decision, the loser the
\* stored one.
LEMMA DecisionArrives ==
  ASSUME TypeInv, BornInv, [Next]_vars, NEW h \in Procs, ResolveFlip(h), GateFlow(h)
  PROVE  (GateFlow(h) /\ Judged(h))'
<1> DEFINE g == procs[h].gate
           j == procs[h].job
<1>0. /\ procs \in [Procs -> Proc] /\ procs[h] \in Proc /\ gates \in [GateIds -> Gate]
      /\ procs[h].pc = "resolve" /\ procs[h].pc \notin LoopPc /\ g \in GateIds
      /\ procs[h].goal \in GateDecision
  BY DEF TypeInv, GoodProc, GoodGate, ResolveFlip, At, GateFlow, GateFlowPc, LoopPc
<1>1. FlipGate(g, procs[h].goal) /\ UNCHANGED jobs
  BY DEF ResolveFlip
<1>2. Exists(jobs[j]) => Opened(g) /\ gates[g].job = j
  BY <1>0 DEF GateFlow, GateFlowPc, JobOf
<1>3. CASE gates[g].status = "waiting"
  <2>1. /\ gates'[g].status = procs[h].goal /\ gates'[g].kind = gates[g].kind
        /\ gates'[g].job = gates[g].job
    BY <1>0, <1>1, <1>3 DEF FlipGate, Gate
  <2>2. /\ procs'[h].pc = DrivePc(procs[h].goal, gates[g].kind)
        /\ procs'[h].job = j /\ procs'[h].gate = g /\ procs'[h].goal = procs[h].goal
    <3>1. Goto(h, DrivePc(procs[h].goal, gates[g].kind))
      BY <1>3 DEF ResolveFlip, GateOf, GateDecision
    <3> QED BY <1>0, <3>1 DEF Goto, Proc
  <2>3. gates[g].kind \in {"review", "diff_policy"}
    BY <1>0 DEF Gate, GateKind
  <2>4. (Opened(g))'
    BY <1>0, <2>1, <2>2 DEF Opened, GateDecision
  <2>5. DrivePc(procs[h].goal, gates[g].kind) \in {"brief", "resume_guard"}
    BY DEF DrivePc
  <2>6. (GateFlow(h))'
    BY <1>0, <1>1, <1>2, <2>1, <2>2, <2>3, <2>4, <2>5 DEF GateFlow, DrivePc, JobOf
  <2>7. (Judged(h))'
    BY <2>2, <2>5 DEF Judged
  <2> QED BY <2>6, <2>7
<1>4. CASE gates[g].status \in GateDecision
  <2>1. UNCHANGED gates
    BY <1>0, <1>1, <1>4 DEF FlipGate, GateDecision, Gate
  <2>2. /\ procs'[h].pc = "resolve_stuck" /\ procs'[h].job = j /\ procs'[h].gate = g
        /\ procs'[h].goal = gates[g].status
    BY <1>0, <1>4 DEF ResolveFlip, GateOf, GateDecision, Proc
  <2>3. (GateFlow(h))'
    BY <1>0, <1>1, <1>2, <2>1, <2>2 DEF GateFlow, JobOf, Opened
  <2>4. (Judged(h))'
    BY <2>2 DEF Judged
  <2> QED BY <2>3, <2>4
<1>5. CASE gates[g].status # "waiting" /\ gates[g].status \notin GateDecision
  <2>1. Leave(h)
    BY <1>5 DEF ResolveFlip, GateOf
  <2> QED BY <1>0, <2>1, ElsewhereMoves, ElsewhereKeeps
<1> QED BY <1>3, <1>4, <1>5

\* What comes of a decision that is stored: its gate is left alone from here on.
LEMMA DecisionDriven ==
  ASSUME TypeInv, BornInv, [Next]_vars, NEW h \in Procs, GateFlow(h),
         ResolveStuck(h) \/ DriveBrief(h) \/ DriveRequeue(h) \/ ResumeGuard(h) \/ ResumeFlip(h)
  PROVE  (GateFlow(h) /\ Judged(h))'
<1> DEFINE g == procs[h].gate
           j == procs[h].job
<1>0. /\ procs \in [Procs -> Proc] /\ procs[h] \in Proc /\ gates \in [GateIds -> Gate]
      /\ procs[h].pc \in GateFlowPc /\ procs[h].pc \notin LoopPc /\ g \in GateIds /\ Born(j)
  BY DEF TypeInv, GoodProc, GoodGate, ResolveStuck, DriveBrief, DriveRequeue, ResumeGuard,
     ResumeFlip, At, GateFlow, GateFlowPc, LoopPc, BornInv
<1>1. UNCHANGED gates /\ gates[g].kind \in {"review", "diff_policy"}
  BY <1>0 DEF ResolveStuck, DriveBrief, DriveRequeue, ResumeGuard, ResumeFlip, Gate, GateKind
<1>2. Exists(jobs'[j]) => Exists(jobs[j])
  BY <1>0, RowsLast DEF Lasting, Born
<1>3. CASE ResolveStuck(h)
  <2>1. CASE Leave(h)
    BY <1>0, <2>1, ElsewhereMoves, ElsewhereKeeps
  <2>2. CASE Goto(h, DrivePc(procs[h].goal, GateOf(h).kind))
    <3>1. /\ procs'[h].pc = DrivePc(procs[h].goal, gates[g].kind)
          /\ procs'[h].job = j /\ procs'[h].gate = g /\ procs'[h].goal = procs[h].goal
      BY <1>0, <2>2 DEF Goto, GateOf, Proc
    <3>2. DrivePc(procs[h].goal, gates[g].kind) \in {"brief", "resume_guard"}
      BY DEF DrivePc
    <3>3. Exists(jobs[j]) => Opened(g) /\ gates[g].job = j /\ gates[g].status = procs[h].goal
      BY <1>3 DEF GateFlow, GateFlowPc, ResolveStuck, At, JobOf
    <3>4. (GateFlow(h))'
      BY <1>0, <1>1, <1>2, <3>1, <3>2, <3>3 DEF GateFlow, DrivePc, JobOf, Opened
    <3>5. (Judged(h))'
      BY <3>1, <3>2 DEF Judged
    <3> QED BY <3>4, <3>5
  <2> QED BY <1>3, <2>1, <2>2 DEF ResolveStuck
<1>4. CASE DriveBrief(h)
  <2>1. CASE procs[h].goal = "resolved"
    <3>1. procs'[h].pc = "requeue" /\ procs'[h].job = j /\ procs'[h].gate = g
      BY <1>0, <1>4, <2>1 DEF DriveBrief, Goto, Proc
    <3>2. Exists(jobs[j]) => /\ Opened(g) /\ gates[g].job = j
                             /\ gates[g].status = "resolved" /\ gates[g].kind = "review"
      BY <1>4, <2>1 DEF GateFlow, GateFlowPc, DriveBrief, At, JobOf
    <3>3. (GateFlow(h))'
      BY <1>0, <1>1, <1>2, <3>1, <3>2 DEF GateFlow, JobOf, Opened
    <3>4. (Judged(h))'
      BY <3>1 DEF Judged
    <3> QED BY <3>3, <3>4
  <2>2. CASE procs[h].goal # "resolved"
    <3>1. CallFinalize(h, "cancelled", FALSE, "leave")
      BY <1>4, <2>2 DEF DriveBrief
    <3> QED BY <1>0, <3>1, ElsewhereMoves, ElsewhereKeeps
  <2> QED BY <2>1, <2>2
<1>5. CASE DriveRequeue(h)
  BY <1>0, <1>5, ElsewhereMoves, ElsewhereKeeps DEF DriveRequeue
<1>6. CASE ResumeGuard(h)
  <2>1. CASE Leave(h)
    BY <1>0, <2>1, ElsewhereMoves, ElsewhereKeeps
  <2>2. CASE Goto(h, "resume")
    <3>1. procs'[h].pc = "resume" /\ procs'[h].job = j /\ procs'[h].gate = g
      BY <1>0, <2>2 DEF Goto, Proc
    <3>2. Exists(jobs[j]) => /\ Opened(g) /\ gates[g].job = j
                             /\ gates[g].status = "resolved" /\ gates[g].kind = "diff_policy"
      BY <1>6 DEF GateFlow, GateFlowPc, ResumeGuard, At, JobOf
    <3>3. (GateFlow(h))'
      BY <1>0, <1>1, <1>2, <3>1, <3>2 DEF GateFlow, JobOf, Opened
    <3>4. (Judged(h))'
      BY <3>1 DEF Judged
    <3> QED BY <3>3, <3>4
  <2> QED BY <1>6, <2>1, <2>2 DEF ResumeGuard
<1>7. CASE ResumeFlip(h)
  <2>1. CASE CanResumeApply(JobOf(h))
    <3>1. procs'[h].pc = "apply_load" /\ procs'[h].job = j
      BY <1>0, <1>7, <2>1 DEF ResumeFlip, Proc
    <3>2. Exists(jobs[j]) => /\ gates[g].job = j
                             /\ gates[g].status = "resolved" /\ gates[g].kind = "diff_policy"
      BY <1>7 DEF GateFlow, GateFlowPc, ResumeFlip, At, JobOf
    <3>3. (GateFlow(h))'
      BY <3>1 DEF GateFlow, GateFlowPc
    <3>4. (Judged(h))'
      BY <1>0, <1>1, <1>2, <3>1, <3>2 DEF Judged, JobOf, ApprovedGate, GatesOf
    <3> QED BY <3>3, <3>4
  <2>2. CASE ~CanResumeApply(JobOf(h))
    <3>1. Goto(h, "apply_exit")
      BY <1>7, <2>2 DEF ResumeFlip
    <3> QED BY <1>0, <3>1, ElsewhereMoves, ElsewhereKeeps DEF GateFlowPc
  <2> QED BY <2>1, <2>2
<1> QED BY <1>3, <1>4, <1>5, <1>6, <1>7

LEMMA ApplyJudges ==
  ASSUME TypeInv, BornInv, [Next]_vars, NEW p \in Procs, Applies(p), Judged(p)
  PROVE  (GateFlow(p) /\ Judged(p))'
<1> PICK j \in Jobs : j = procs[p].job
  BY DEF BornInv, Born, Applies, ApplyLoad, ApplyJudge, ApplyBranch, ApplyGate, ApplyPark, At, LoopPc
<1>0. /\ procs \in [Procs -> Proc] /\ procs[p] \in Proc /\ procs[p].pc \notin LoopPc /\ Born(j)
      /\ j \in Jobs /\ jobs[j] \in Row
  BY DEF TypeInv, GoodProc, Applies, ApplyLoad, ApplyJudge, ApplyBranch, ApplyGate, ApplyPark,
     At, LoopPc, BornInv, Born
<1>1. Exists(jobs'[j]) => Exists(jobs[j])
  BY <1>0, RowsLast DEF Lasting
<1>2. CASE ApplyLoad(p)
  <2>1. CASE Goto(p, "apply_judge")
    <3>1. procs'[p].pc = "apply_judge" /\ procs'[p].job = j /\ procs'[p].approved = procs[p].approved
      BY <1>0, <2>1 DEF Goto, Proc
    <3>2. (GateFlow(p))'
      BY <3>1 DEF GateFlow, GateFlowPc
    <3>3. Exists(jobs'[j]) /\ procs[p].approved => (ApprovedGate(j, "diff_policy"))'
      <4>1. Exists(jobs'[j]) /\ procs[p].approved => ApprovedGate(j, "diff_policy")
        BY <1>1, <1>2 DEF Judged, JobOf, ApplyLoad, At
      <4>2. UNCHANGED gates
        BY <1>2 DEF ApplyLoad
      <4> QED BY <4>1, <4>2 DEF ApprovedGate, GatesOf
    <3>4. (Judged(p))'
      BY <1>0, <3>1, <3>3 DEF Judged, JobOf
    <3> QED BY <3>2, <3>4
  <2>2. CASE Goto(p, "apply_exit")
    BY <1>0, <2>2, ElsewhereMoves, ElsewhereKeeps DEF GateFlowPc
  <2> QED BY <1>2, <2>1, <2>2 DEF ApplyLoad
<1>3. CASE ApplyJudge(p)
  <2> DEFINE approved == procs[p].approved \/ ApprovedGate(j, "diff_policy")
             verdict == PolicyVerdict(jobs[j].policy, approved)
  <2>1. CASE ApplyFails(p)
    BY <1>0, <2>1, ElsewhereMoves, ElsewhereKeeps DEF ApplyFails
  <2>2. CASE Exists(jobs[j]) /\ verdict = "allow" /\ Goto(p, "apply_branch")
    <3>1. procs'[p].pc = "apply_branch" /\ procs'[p].job = j
      BY <1>0, <2>2 DEF Goto, Proc
    <3>2. Allowed(j)
      BY <1>3, <2>2 DEF Judged, JobOf, ApplyJudge, At, Allowed, PolicyVerdict
    <3>3. Exists(jobs'[j]) => (Allowed(j))'
      BY <1>0, <3>2, ApprovalLasts
    <3>4. (GateFlow(p))'
      BY <3>1 DEF GateFlow, GateFlowPc
    <3>5. (Judged(p))'
      BY <1>0, <3>1, <3>3 DEF Judged, JobOf
    <3> QED BY <3>4, <3>5
  <2>3. CASE Goto(p, "apply_gate") \/ Goto(p, "apply_exit")
    BY <1>0, <2>3, ElsewhereMoves, ElsewhereKeeps DEF GateFlowPc
  <2>4. verdict \in {"allow", "gate", "deny"}
    BY <1>0 DEF PolicyVerdict, Row, Policy
  <2> QED BY <1>3, <2>1, <2>2, <2>3, <2>4 DEF ApplyJudge, JobOf
<1>4. CASE ApplyBranch(p)
  BY <1>0, <1>4, ElsewhereMoves, ElsewhereKeeps DEF ApplyBranch, ApplyFails, GateFlowPc
<1>5. CASE ApplyGate(p) \/ ApplyPark(p)
  BY <1>0, <1>5, ElsewhereMoves, ElsewhereKeeps DEF ApplyGate, ApplyPark, GateFlowPc
<1> QED BY <1>2, <1>3, <1>4, <1>5 DEF Applies

(***************************************************************************)
(* The invariant, step by step.                                            *)
(***************************************************************************)
LEMMA FlowsKeep ==
  ASSUME TypeInv, BornInv, GateInv, [Next]_vars
  PROVE  \A q \in Procs : (GateFlow(q) /\ Judged(q))'
<1>0. /\ procs \in [Procs -> Proc] /\ Handlers \subseteq Procs /\ Replicas \subseteq Procs
      /\ \A q \in Procs : GateFlow(q) /\ Judged(q)
  BY DEF TypeInv, GoodProc, Procs, GateInv
<1>1. ASSUME NEW p \in Procs, \A q \in Procs \ {p} : procs'[q] = procs[q],
             Elsewhere(p) \/ procs'[p] = procs[p] \/ (GateFlow(p) /\ Judged(p))'
      PROVE  \A q \in Procs : (GateFlow(q) /\ Judged(q))'
  BY <1>0, <1>1, FlowStays, ElsewhereKeeps
<1>2. ASSUME NEW p \in Procs, NEW x, procs' = [procs EXCEPT ![p] = x],
             x.pc \notin GateFlowPc \cup {"apply_load", "apply_judge", "apply_branch"}
      PROVE  \A q \in Procs : (GateFlow(q) /\ Judged(q))'
  BY <1>0, <1>1, <1>2, ElsewhereMoves
<1>3. CASE Calm
  <2>1. \A q \in Procs : procs'[q] = procs[q] \/ Elsewhere(q)
    BY <1>3 DEF Calm, CalmFlow, CalmPc, LoopPc, FinalizePc, Elsewhere, GateFlowPc
  <2> QED BY <1>0, <2>1, FlowStays, ElsewhereKeeps
<1>4. ASSUME NEW w \in Replicas, Provisions(w)
      PROVE  \A q \in Procs : (GateFlow(q) /\ Judged(q))'
  <2>1. CASE Claim(w)
    <3>1. PICK k \in Jobs :
            procs' = [procs EXCEPT ![w].pc = "prepare", ![w].job = k,
                           ![w].claim = claims + 1, ![w].slots = @ - 1]
      BY <2>1 DEF Claim
    <3>2. procs'[w].pc = "prepare" /\ \A q \in Procs \ {w} : procs'[q] = procs[q]
      BY <1>0, <3>1 DEF Proc
    <3> QED BY <1>0, <1>1, <3>2 DEF Elsewhere, GateFlowPc
  <2>2. CASE Prepare(w) \/ Provision(w)
    <3>1. Elsewhere(w)
      BY <1>0, <2>2, ElsewhereMoves DEF Prepare, Provision, Start, Adopt, AtCapacity, Refused,
           Answered, GateFlowPc
    <3> QED BY <1>0, <1>1, <2>2, <3>1, NamedOnward DEF Onward
  <2>3. CASE Release(w)
    <3> DEFINE x == [Idle EXCEPT !.pc = "claim", !.slots = procs[w].slots]
    <3>1. x.pc \notin GateFlowPc \cup {"apply_load", "apply_judge", "apply_branch"}
      BY DEF Idle, GateFlowPc
    <3>2. procs' = [procs EXCEPT ![w] = x]
      BY <2>3 DEF Release, NextClaim
    <3> HIDE DEF x
    <3> QED BY <1>0, <1>2, <3>1, <3>2
  <2> QED BY <1>4, <2>1, <2>2, <2>3 DEF Provisions
<1>5. ASSUME NEW c \in Claims, RunnerCalls(c)
      PROVE  \A q \in Procs : (GateFlow(q) /\ Judged(q))'
  <2>1. PICK h \in Handlers, at \in Replicas, stage \in {"boot", "work"},
            pc \in {"spec", "result", "phase"}, goal \in Goal :
          Call(c, h, at, stage, pc, goal)
    BY <1>5 DEF RunnerCalls, RunnerApiStep, SpecCall, ResultCall, PhaseCall, Goal
  <2> DEFINE x == [Idle EXCEPT !.pc = pc, !.at = at, !.claim = c,
                       !.job = runners[c].job, !.row = RunnerJob(c), !.goal = goal]
  <2>2. x.pc \notin GateFlowPc \cup {"apply_load", "apply_judge", "apply_branch"}
    BY DEF Idle, GateFlowPc
  <2>3. UNCHANGED procs \/ procs' = [procs EXCEPT ![h] = x]
    BY <2>1 DEF Call, Serve
  <2> HIDE DEF x
  <2>4. h \in Procs
    BY <1>0
  <2> QED BY <1>1, <1>2, <2>2, <2>3, <2>4
<1>6. ASSUME NEW h \in Handlers, Replies(h) \/ HeldOpen(h)
      PROVE  \A q \in Procs : (GateFlow(q) /\ Judged(q))'
  <2>1. Elsewhere(h)
    <3>1. CASE PhaseJudge(h)
      <4>1. procs'[h].pc \in {"idle", "advance", "park_advance", "fin_read"}
        <5>1. ASSUME NEW t, Carry(h, t)
              PROVE  procs'[h].pc \in {"advance", "park_advance", "fin_read"}
          <6>1. procs'[h].pc = PcOf(t.act)
            BY <1>0, <5>1 DEF Carry, Proc
          <6> QED BY <6>1 DEF PcOf
        <5>2. Leave(h) => procs'[h].pc = "idle"
          BY <1>0 DEF Leave, Idle
        <5> QED BY <3>1, <5>1, <5>2 DEF PhaseJudge
      <4> QED BY <4>1 DEF Elsewhere, GateFlowPc
    <3>2. CASE HeldOpen(h) \/ SpecReply(h) \/ ResultRecord(h) \/ PhaseAdvance(h)
                 \/ ParkAdvance(h) \/ ParkOpen(h) \/ ParkRow(h)
      BY <1>0, <3>2, ElsewhereMoves DEF HeldOpen, SpecReply, ResultRecord, PhaseAdvance,
         ParkAdvance, ParkOpen, ParkRow, GateFlowPc
    <3> QED BY <1>6, <3>1, <3>2 DEF Replies
  <2> QED BY <1>0, <1>1, <1>6, <2>1, NamedOnward DEF Onward
<1>7. ASSUME NEW h \in Handlers, Decides(h)
      PROVE  \A q \in Procs : (GateFlow(q) /\ Judged(q))'
  <2>1. (GateFlow(h) /\ Judged(h))'
    BY <1>0, <1>7, DecisionArrives, DecisionDriven DEF Decides
  <2> QED BY <1>0, <1>1, <1>7, <2>1, NamedOnward DEF Onward
<1>8. ASSUME NEW p \in Procs, Applies(p)
      PROVE  \A q \in Procs : (GateFlow(q) /\ Judged(q))'
  BY <1>0, <1>1, <1>8, ApplyJudges, NamedOnward DEF Onward
<1>9. ASSUME NEW j \in Jobs, Inserts(j) \/ Delete(j)
      PROVE  \A q \in Procs : (GateFlow(q) /\ Judged(q))'
  <2>1. CASE UNCHANGED procs
    BY <1>0, <2>1, FlowStays
  <2>2. ASSUME NEW h \in Handlers, NEW at \in Replicas, CreateHeld(h, j, at)
        PROVE  \A q \in Procs : (GateFlow(q) /\ Judged(q))'
    <3> DEFINE x == [Idle EXCEPT !.pc = "held_open", !.at = at, !.job = j]
    <3>1. x.pc \notin GateFlowPc \cup {"apply_load", "apply_judge", "apply_branch"}
      BY DEF Idle, GateFlowPc
    <3>2. procs' = [procs EXCEPT ![h] = x]
      BY <2>2 DEF CreateHeld, Begin
    <3> HIDE DEF x
    <3> QED BY <1>0, <1>2, <3>1, <3>2
  <2> QED BY <1>9, <2>1, <2>2 DEF Inserts, Create, Retry, Delete
<1>10. ASSUME NEW h \in Handlers, NEW at \in Replicas, NEW g \in GateIds, GateArrival(h, g, at)
       PROVE  \A q \in Procs : (GateFlow(q) /\ Judged(q))'
  <2>1. CASE Resolve(h, g, at)
    <3>1. PICK decision \in GateDecision :
            procs' = [procs EXCEPT ![h] = [Idle EXCEPT !.pc = "resolve", !.at = at,
                        !.gate = g, !.job = gates[g].job, !.goal = decision]]
      BY <2>1 DEF Resolve
    <3> DEFINE x == [Idle EXCEPT !.pc = "resolve", !.at = at,
                        !.gate = g, !.job = gates[g].job, !.goal = decision]
    <3>2. x.pc = "resolve" /\ x.gate = g /\ x.job = gates[g].job
      BY DEF Idle
    <3>3. procs'[h] = x /\ \A q \in Procs \ {h} : procs'[q] = procs[q]
      BY <1>0, <3>1
    <3> HIDE DEF x
    <3>4. UNCHANGED gates /\ Opened(g)
      BY <2>1 DEF Resolve, Opened, GateDecision
    <3>5. (GateFlow(h))'
      BY <3>2, <3>3, <3>4 DEF GateFlow, Opened
    <3>6. (Judged(h))'
      BY <3>2, <3>3 DEF Judged
    <3> QED BY <1>0, <1>1, <3>3, <3>5, <3>6
  <2>2. CASE GateExpires(h, g, at)
    <3> DEFINE x == [Idle EXCEPT !.pc = "fin_read", !.at = at, !.gate = g,
                 !.job = gates[g].job, !.to = "cancelled", !.next = "leave"]
    <3>1. x.pc \notin GateFlowPc \cup {"apply_load", "apply_judge", "apply_branch"}
      BY DEF Idle, GateFlowPc
    <3>2. procs' = [procs EXCEPT ![h] = x]
      BY <2>2 DEF GateExpires
    <3> HIDE DEF x
    <3> QED BY <1>0, <1>2, <3>1, <3>2
  <2> QED BY <1>10, <2>1, <2>2 DEF GateArrival
<1> QED BY <1>3, <1>4, <1>5, <1>6, <1>7, <1>8, <1>9, <1>10, StepsSorted DEF Named

\* A branch is created by an apply that the policy let through, and neither the
\* policy nor the approval changes while the job exists.
LEMMA PolicyKeeps ==
  ASSUME TypeInv, BornInv, GateInv, [Next]_vars
  PROVE  PolicyRespected'
<1> SUFFICES ASSUME NEW j \in Jobs, Exists(jobs'[j]), forge'[j].branch
             PROVE  (Allowed(j))'
  BY DEF PolicyRespected, Allowed
<1>1. CASE forge[j].branch
  <2>1. Born(j) /\ Exists(jobs[j])
    BY <1>1, RowsLast DEF BornInv, Lasting
  <2>2. Allowed(j)
    BY <1>1, <2>1 DEF GateInv, PolicyRespected, Allowed
  <2> QED BY <2>1, <2>2, ApprovalLasts
<1>2. CASE ~forge[j].branch
  <2>1. PICK p \in Procs : ApplyBranch(p) /\ procs[p].job = j
    <3>1. forge \in [Jobs -> [branch : BOOLEAN, prs : Nat]] /\ forge' # forge
      BY <1>2 DEF TypeInv
    <3>2. ~Calm
      BY <1>2 DEF Calm
    <3>3. PICK p \in Procs : Applies(p) /\ forge' # forge
      <4>1. \A w \in Replicas : Provisions(w) => UNCHANGED forge
        BY DEF Provisions, Claim, Prepare, Provision, Release
      <4>2. \A c \in Claims : RunnerCalls(c) => UNCHANGED forge
        BY DEF RunnerCalls, RunnerApiStep, SpecCall, ResultCall, PhaseCall, Call
      <4>3. \A h \in Handlers : Replies(h) => UNCHANGED forge
        BY DEF Replies, SpecReply, ResultRecord, PhaseJudge, PhaseAdvance, ParkAdvance, ParkOpen, ParkRow
      <4>4. \A h \in Handlers : Decides(h) \/ HeldOpen(h) => UNCHANGED forge
        BY DEF Decides, ResolveFlip, ResolveStuck, DriveBrief, DriveRequeue, ResumeGuard, ResumeFlip, HeldOpen
      <4>5. \A k \in Jobs : Inserts(k) \/ Delete(k) => UNCHANGED forge
        BY DEF Inserts, Create, Retry, CreateHeld, Delete
      <4>6. \A h \in Handlers, at \in Replicas, g \in GateIds : GateArrival(h, g, at) => UNCHANGED forge
        BY DEF GateArrival, Resolve, GateExpires
      <4>7. Named
        BY <3>2, StepsSorted
      <4> QED BY <3>1, <4>1, <4>2, <4>3, <4>4, <4>5, <4>6, <4>7 DEF Named
    <3>4. ApplyBranch(p) /\ forge' = [forge EXCEPT ![procs[p].job].branch = TRUE]
      BY <3>3 DEF Applies, ApplyLoad, ApplyJudge, ApplyBranch, ApplyGate, ApplyPark
    <3> QED BY <1>2, <3>1, <3>4
  <2>2. Born(j) /\ Exists(jobs[j]) /\ procs[p].pc = "apply_branch"
    <3>1. procs[p].pc = "apply_branch" /\ procs[p].pc \notin LoopPc
      BY <2>1 DEF ApplyBranch, At, LoopPc
    <3> QED BY <2>1, <3>1, RowsLast DEF BornInv, Lasting
  <2>3. Allowed(j)
    BY <2>1, <2>2 DEF GateInv, Judged, JobOf
  <2> QED BY <2>2, <2>3, ApprovalLasts
<1> QED BY <1>1, <1>2

\* GateInv holds of every reachable state: the decided gate stands behind each flow
\* that drives it, the verdict and the approval behind each branch
\* (gateStore.resolve, the drive of gate decisions, DiffApplyService.apply).
THEOREM DecisionsHold == Spec => []GateInv
<1>1. Init => GateInv
  <2>1. Idle.pc = "idle"
    BY DEF Idle
  <2>2. ASSUME Init, NEW p \in Procs
        PROVE  GateFlow(p) /\ Judged(p)
    BY <2>1, <2>2 DEF Init, GateFlow, GateFlowPc, Judged
  <2>3. Init => PolicyRespected
    BY DEF Init, PolicyRespected
  <2> QED BY <2>2, <2>3 DEF GateInv
<1>2. TypeInv /\ BornInv /\ GateInv /\ [Next]_vars => GateInv'
  BY FlowsKeep, PolicyKeeps DEF GateInv
<1> QED BY <1>1, <1>2, TypesHold, NothingUnborn, PTL DEF Spec

\* A denied diff never gets a branch, a gated one only after a holder resolved
\* its gate (evaluateDiffPolicy before forge.applyDiff).
THEOREM PolicyHasTheLastWord == Spec => []PolicyRespected
BY DecisionsHold, PTL DEF GateInv

(***************************************************************************)
(* An approval outlives the apply it was given to.                         *)
(***************************************************************************)
LEMMA OnlyItsJudge ==
  ASSUME TypeInv, BornInv, [Next]_vars, NEW p \in Procs, At(p, "apply_judge")
  PROVE  procs'[p] = procs[p] \/ procs'[p].pc \in CalmPc \/ ApplyJudge(p)
<1>1. CASE Calm
  BY <1>1 DEF Calm, CalmFlow
<1>2. ASSUME Acts(p)
      PROVE  ApplyJudge(p)
  BY <1>2 DEF At, Acts, Applies, ApplyLoad, ApplyBranch, ApplyGate, ApplyPark,
     Provisions, Claim, Prepare, Provision, Release,
     Calls, RunnerApiStep, SpecCall, ResultCall, PhaseCall, Call,
     Replies, SpecReply, ResultRecord, PhaseJudge, PhaseAdvance, ParkAdvance, ParkOpen, ParkRow,
     Decides, ResolveFlip, ResolveStuck, DriveBrief, DriveRequeue, ResumeGuard, ResumeFlip,
     HeldOpen, CreateHeld, GateArrival, Resolve, GateExpires
<1>3. ASSUME NEW j \in Jobs, TableOnly(j)
      PROVE  procs'[p] = procs[p]
  BY <1>3 DEF TableOnly, Create, Delete, Retry
<1> QED BY <1>1, <1>2, <1>3, StepsSorted, ActorsSorted

\* Once a holder approved a job's diff, no apply that starts to judge it asks
\* again (PolicyGate.evaluate reads the approval from the gate table).
THEOREM ApprovalIsDurable == Spec => ApprovalSurvives
<1>1. TypeInv /\ BornInv /\ [Next]_vars => \A p \in Procs : JudgedAgain(p)
  <2> SUFFICES ASSUME TypeInv, BornInv, [Next]_vars, NEW p \in Procs, At(p, "apply_judge"),
                      ApprovedGate(procs[p].job, "diff_policy")
               PROVE  procs'[p].pc # "apply_gate"
    BY DEF JudgedAgain
  <2>1. CASE procs'[p] = procs[p] \/ procs'[p].pc \in CalmPc
    BY <2>1 DEF At, CalmPc, LoopPc, FinalizePc
  <2>2. CASE ApplyJudge(p)
    <3>1. PolicyVerdict(JobOf(p).policy, TRUE) # "gate"
      BY DEF PolicyVerdict
    <3>2. procs \in [Procs -> Proc]
      BY DEF TypeInv, GoodProc
    <3>3. ApplyFails(p) => procs'[p].pc = "fin_read"
      BY <3>2 DEF ApplyFails, CallFinalize, Proc
    <3>4. \A pc : Goto(p, pc) => procs'[p].pc = pc
      BY <3>2 DEF Goto, Proc
    <3>5. JobOf(p).policy \in {"allow", "gate", "deny"}
      <4>1. procs[p].pc \notin LoopPc
        BY DEF At, LoopPc
      <4> QED BY <4>1, JobTyped DEF Row, Policy
    <3>6. PolicyVerdict(JobOf(p).policy, TRUE) \in {"allow", "deny"}
      BY <3>5 DEF PolicyVerdict
    <3>7. Goto(p, "apply_branch") \/ Goto(p, "apply_exit") \/ ApplyFails(p)
      BY <2>2, <3>6 DEF ApplyJudge, PolicyVerdict
    <3> QED BY <3>3, <3>4, <3>7
  <2> QED BY <2>1, <2>2, OnlyItsJudge
<1> QED BY <1>1, TypesHold, NothingUnborn, PTL DEF Spec, ApprovalSurvives
=============================================================================
