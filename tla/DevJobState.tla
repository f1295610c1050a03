---------------------------- MODULE DevJobState ----------------------------
(***************************************************************************)
(* The state the dev-platform components share: the dev_jobs and           *)
(* dev_job_gates tables, the runners and the forge outside, and one record *)
(* of local variables for every control flow of the middleware: the worker *)
(* loop of each replica and the HTTP handlers and timers (`Handlers'), each *)
(* of them cut at its awaits.  A step of a flow is one database statement  *)
(* or one external call.                                                   *)
(***************************************************************************)
EXTENDS DevJobRow, Integers, FiniteSets

CONSTANTS
  Jobs,         \* identities of dev_jobs rows; never reused
  Replicas,     \* middleware processes; each runs one DevJobWorker
  Handlers,     \* slots for concurrent HTTP handlers and deadline ticks
  MaxClaims,    \* bound: claims made in a behaviour
  MaxGates,     \* bound: gates opened in a behaviour
  MaxCrashes,   \* bound: replica crashes in a behaviour
  MaxConcurrent,\* the configured concurrency cap
  Clocks,       \* bound: which clocks run
  Kinds,        \* job kinds created
  Policies,     \* verdicts the diff policy may give
  Backends,     \* backends jobs are created for
  NoJob, NoReplica

ASSUME BoundsAssumption ==
  /\ MaxClaims \in Nat /\ MaxGates \in Nat /\ MaxCrashes \in Nat
  /\ MaxConcurrent \in Nat
ASSUME SortsAssumption ==
  /\ Kinds \subseteq Kind /\ Policies \subseteq Policy
  /\ Backends \subseteq Backend /\ Clocks \subseteq Clock
  /\ Replicas \cap Handlers = {} /\ IsFiniteSet(Jobs) /\ IsFiniteSet(Replicas)
  /\ NoJob \notin Jobs /\ NoReplica \notin Replicas

VARIABLES
  jobs,      \* dev_jobs
  gates,     \* dev_job_gates; a gate id is a number, unused ones are "unopened"
  claims,    \* how many claims were made; the latest claim's number
  runners,   \* runner process per claim
  forge,     \* per job: does its branch exist, how many pull requests
  procs,     \* the local state of each control flow
  applying,  \* per replica: the worker's in-memory in-flight set
  crashes    \* replica crashes so far

vars == <<jobs, gates, claims, runners, forge, procs, applying, crashes>>

Claims == 1..MaxClaims
GateIds == 1..MaxGates
Procs == Replicas \cup Handlers

GateStatus == {"unopened", "waiting", "resolved", "rejected", "expired", "deleted"}
GateKind == {"review", "diff_policy"}
Gate == [status : GateStatus, kind : GateKind, job : Jobs \cup {NoJob}]
NoGate == [status |-> "unopened", kind |-> "review", job |-> NoJob]

\* boot: about to GET /spec; work: running a phase; call: awaiting a reply;
\* gone: the process ended; removed: its container, machine or workspace too.
RunnerStage == {"none", "boot", "work", "call", "gone", "removed"}
Runner == [stage : RunnerStage, job : Jobs \cup {NoJob}, shim : {"phased", "single"},
           phase : Phase]
NoRunner == [stage |-> "none", job |-> NoJob, shim |-> "single", phase |-> "analyze"]
\* A runner that ended, whatever it was doing.
Over(rn) == [rn EXCEPT !.stage = "gone", !.phase = "analyze"]
Torn(rn) == [rn EXCEPT !.stage = "removed", !.phase = "analyze"]

\* Where a control flow stands: in the worker's loop, between two jobs, ...
LoopPc == {"idle", "apply_next", "wall_list", "wall_next", "stall_list", "stall_next",
           "reap_list", "reap_next", "count", "claim"}
\* ... provisioning a job it claimed, finalizing one, inside an apply, ...
ProvisionPc == {"prepare", "provision", "release", "attach", "orphan"}
FinalizePc == {"fin_read", "fin_flip", "fin_stop"}
ApplyPc == {"apply_load", "apply_judge", "apply_branch", "apply_pr", "apply_gate",
            "apply_park", "apply_exit", "resume"}
\* ... answering a runner's call, or deciding a gate.
ReplyPc == {"spec", "result", "phase", "advance", "park_advance", "park_open", "park_row"}
GatePc == {"held_open", "resolve", "resolve_stuck", "brief", "requeue", "resume_guard"}
Pc == LoopPc \cup ProvisionPc \cup FinalizePc \cup ApplyPc \cup ReplyPc \cup GatePc
        \cup {"reply_exit", "leave"}

\* Where finalizeDevJob and an apply return to.
NextPc == {"idle", "apply_exit", "wall_next", "stall_next", "reap_next", "claim",
           "reply_exit", "leave"}
BackPc == {"idle", "apply_next"}

Outcome == {"diff_ready", "no_changes", "failed"}
GateDecision == {"resolved", "rejected"}
Goal == {"none"} \cup Phase \cup Outcome \cup GateDecision

(***************************************************************************)
(* Local variables of a control flow: `row' the job snapshot a handler     *)
(* read; `to', `pr', `next' and `stop' the arguments, the return point and *)
(* the handle of a finalize call; `back' the return point of an apply;     *)
(* `todo' and `dead' the lists a sweep read; `approved' the gate approval  *)
(* in hand; `claim' the lease, or the runner whose call is served; `gate'  *)
(* the gate served; `goal' the transition, outcome or decision in hand.    *)
(***************************************************************************)
Proc == [pc : Pc, job : Jobs \cup {NoJob}, at : Replicas \cup {NoReplica},
         row : Row, claim : Nat, gate : Nat, slots : Int,
         todo : SUBSET Jobs, dead : SUBSET Nat,
         to : Terminal, next : NextPc, back : BackPc, stop : Nat,
         pr : BOOLEAN, approved : BOOLEAN, goal : Goal]
Idle == [pc |-> "idle", job |-> NoJob, at |-> NoReplica, row |-> EmptyRow,
         claim |-> 0, gate |-> 0, slots |-> 0, todo |-> {}, dead |-> {},
         to |-> "failed", next |-> "idle", back |-> "idle", stop |-> 0,
         pr |-> FALSE, approved |-> FALSE, goal |-> "none"]

\* The replica a flow runs on.
Home(p) == IF p \in Replicas THEN p ELSE procs[p].at

Init ==
  /\ jobs = [j \in Jobs |-> EmptyRow]
  /\ gates = [g \in GateIds |-> NoGate]
  /\ claims = 0
  /\ runners = [c \in Claims |-> NoRunner]
  /\ forge = [j \in Jobs |-> [branch |-> FALSE, prs |-> 0]]
  /\ procs = [p \in Procs |-> Idle]
  /\ applying = [r \in Replicas |-> {}]
  /\ crashes = 0

(***************************************************************************)
(* Plumbing.                                                               *)
(***************************************************************************)
At(p, pc) == procs[p].pc = pc
JobOf(p) == jobs[procs[p].job]

\* One guarded statement on row j; a guard that fails matches no row.
Write(j, guard, new) == jobs' = [jobs EXCEPT ![j] = Update(guard, new, @)]

Goto(p, pc) == procs' = [procs EXCEPT ![p].pc = pc]

\* Call finalizeDevJob(to) on the flow's job and return to `next'.
CallFinalize(p, to, pr, next) ==
  procs' = [procs EXCEPT ![p].pc = "fin_read", ![p].to = to, ![p].pr = pr,
                         ![p].next = next]

\* finalizeDevJob returns: its locals are gone.
Return(p) ==
  procs' = [procs EXCEPT ![p].pc = procs[p].next, ![p].next = "idle",
                         ![p].to = "failed", ![p].pr = FALSE, ![p].stop = 0]

\* The end of a flow: a handler's slot is free again.
Leave(p) == procs' = [procs EXCEPT ![p] = Idle]

GatesOf(j, kind) == {g \in GateIds : gates[g].job = j /\ gates[g].kind = kind}
WaitingGates(j) == {g \in GateIds : gates[g].job = j /\ gates[g].status = "waiting"}
ApprovedGate(j, kind) == \E g \in GatesOf(j, kind) : gates[g].status = "resolved"
FreshGates == {g \in GateIds : gates[g].status = "unopened"}

\* Does gates.open find or make a gate (else the bound on gates is reached)?
CanOpen(j) == WaitingGates(j) # {} \/ FreshGates # {}

\* gates.open: INSERT unless one waits for the job already, then that one.
OpenGate(j, kind) ==
  IF WaitingGates(j) # {} THEN gates' = gates
  ELSE \E g \in FreshGates :
         /\ \A h \in FreshGates : g <= h
         /\ gates' = [gates EXCEPT ![g] = [status |-> "waiting", kind |-> kind, job |-> j]]

\* The runners of a job its backend still has, dead or alive.
Held(j) == {c \in Claims : runners[c].job = j /\ runners[c].stage \notin {"none", "removed"}}

\* backend.terminate: docker deletes whatever the daemon holds for the job, the
\* other backends kill the one runner the handle names.
TearDown(j, handle) ==
  LET doomed == IF jobs[j].backend = "docker" THEN Held(j) ELSE Held(j) \cap {handle}
  IN runners' = [c \in Claims |-> IF c \in doomed THEN Torn(runners[c]) ELSE runners[c]]

(***************************************************************************)
(* finalizeDevJob: read, guarded flip, and only for the call that flipped  *)
(* the row, terminate the runner.  Its event and its revocations are not   *)
(* kept; a terminate that throws is swallowed and leaves the runner up.    *)
(***************************************************************************)
FinalizeRead(p) ==
  /\ At(p, "fin_read")
  /\ IF Live(JobOf(p))
     THEN procs' = [procs EXCEPT ![p].pc = "fin_flip", ![p].stop = JobOf(p).handle]
     ELSE Return(p)
  /\ UNCHANGED <<jobs, gates, claims, runners, forge, applying, crashes>>

HandleToStop(before, after) == IF before # 0 THEN before ELSE after

FinalizeFlip(p) ==
  /\ At(p, "fin_flip")
  /\ Write(procs[p].job, CanFinish(JobOf(p)), Finished(JobOf(p), procs[p].to, procs[p].pr))
  /\ IF CanFinish(JobOf(p))
     THEN procs' = [procs EXCEPT ![p].pc = "fin_stop",
                      ![p].stop = HandleToStop(procs[p].stop, JobOf(p).handle)]
     ELSE Return(p)
  /\ UNCHANGED <<gates, claims, runners, forge, applying, crashes>>

FinalizeStop(p) ==
  /\ At(p, "fin_stop")
  /\ \/ procs[p].stop # 0 /\ TearDown(procs[p].job, procs[p].stop)
     \/ UNCHANGED runners
  /\ Return(p)
  /\ UNCHANGED <<jobs, gates, claims, forge, applying, crashes>>

FinalizeStep(p) == FinalizeRead(p) \/ FinalizeFlip(p) \/ FinalizeStop(p)

(***************************************************************************)
(* The environment.                                                        *)
(***************************************************************************)
\* A row's heartbeat and start time grow older.
TimePasses(j, clock) ==
  /\ Live(jobs[j])
  /\ Older(jobs[j], clock) # jobs[j]
  /\ jobs' = [jobs EXCEPT ![j] = Older(@, clock)]
  /\ UNCHANGED <<gates, claims, runners, forge, procs, applying, crashes>>

\* A runner process dies: killed, out of memory, host lost.
RunnerDies(c) ==
  /\ runners[c].stage \in {"boot", "work", "call"}
  /\ runners' = [runners EXCEPT ![c] = Over(@)]
  /\ UNCHANGED <<jobs, gates, claims, forge, procs, applying, crashes>>

\* The daemon removes a container past its lease or its hard deadline, or found
\* exited at its boot; fly destroys a machine that exited (auto_destroy).
Reclaimed(c) ==
  /\ runners[c].stage = "gone"
  /\ jobs[runners[c].job].backend # "local"
  /\ runners' = [runners EXCEPT ![c] = Torn(@)]
  /\ UNCHANGED <<jobs, gates, claims, forge, procs, applying, crashes>>

\* A replica crashes and restarts: its flows and in-flight set are lost, and
\* a runner whose call it was serving gets a connection error and exits.
CrashedHandlers(r) == {h \in Handlers : procs[h].at = r}
Crash(r) ==
  /\ crashes < MaxCrashes
  /\ crashes' = crashes + 1
  /\ procs' = [p \in Procs |-> IF p = r \/ p \in CrashedHandlers(r) THEN Idle ELSE procs[p]]
  /\ applying' = [applying EXCEPT ![r] = {}]
  /\ runners' = [c \in Claims |->
       IF runners[c].stage = "call" /\ \E h \in CrashedHandlers(r) : procs[h].claim = c
       THEN Over(runners[c]) ELSE runners[c]]
  /\ UNCHANGED <<jobs, gates, claims, forge>>
=============================================================================
