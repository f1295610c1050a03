# The dev platform, specified

TLA+ specifications of the omadia dev platform: the plugin that takes a coding
job, runs an agent on it in a container, a machine or a process of its own, asks
a human for the plan and for risky diffs, and opens one pull request from the
host. One group of modules models the **dev-job lifecycle**: the rows of
`dev_jobs` and `dev_job_gates`, the worker loop, the runners and the API they
call, the gates, the apply of a diff and the operator's routes, on several
replicas that may crash. The others model **what the lifecycle stands on**: the
runner daemon and its engine, the backends, the shim, the egress proxy and the
LLM budget on the side of the runner; triggers, the event log, tokens, policies,
diffs, onboarding and the plugin's own life on the side of the host. TLC checks
small instances (`*.cfg`), TLAPS proves thirty-four theorems for every instance.

    tlc -config GatedDocker.cfg MCDevJob      # a run; see the table of runs
    tlapm DevJobSafety.tla                    # a proof module

`PROJECT.json` maps every definition to the lines it models, lists the runs, the
mutant each property must refute, the hazards and the theorems.

## 1. Inventory of the system

Paths are relative to `src/packages/plugin/src/` unless they start with a
directory of the repository.

| Component | State it keeps | Operations | Talks to |
|---|---|---|---|
| Job store (`devJobStore.ts`, `devJobWorkerSeams.ts`) | one `dev_jobs` row per job: status, phase, lease (`claimed_by`), runner handle, token hash, provision counter, review state, result, brief, heartbeat and start time | one guarded `UPDATE` per operation; zero matched rows mean "lost" | everybody |
| Worker (`devJobWorker.ts`, `devJobWorkerPolicy.ts`) | in memory: the set of jobs whose apply is in flight | a tick: apply sweep, reap, wall clock and heartbeat sweep, claim and provision up to the cap | store, backends, apply service, gates |
| Finalize choke point (`finalizeDevJob.ts`) | none | read, guarded flip to a terminal status, event, revoke, terminate | store, backends |
| Runner API (`routes/devRunnerApi.ts`, `routes/devRunnerJobPolicyRoute.ts`) | one-shot set of issued clone tokens | `GET /spec`, `POST /events`, `/heartbeat`, `/phase-result`, `/result`, artifact upload, scm token; the daemon's policy fetch | runners, daemon, store, phase engine |
| Phase engine (`pipeline/phaseEngine.ts`, `transitions.ts`, `reviewLoop.ts`) | phase, review attempt and fingerprint on the row | a phase result becomes advance, loop, park, fail or done | store, gates, finalize |
| Gates (`pipeline/gateStore.ts`, `routes/devPlatformGates.ts`, deadline tick in `wireDevPlatform.ts`) | `dev_job_gates`: waiting, resolved, rejected, expired, cancelled | open, resolve (compare-and-swap), re-drive a decision whose job is stuck, expire | store, worker (resume of an apply), finalize |
| Host-side apply (`diffApplyService.ts`, `githubForgeClient.ts`, `policy/`) | the stored diff; the branch and pull request at the forge | parse, judge, apply hunks, branch, pull request | forge, gates, finalize |
| Admin routes (`routes/devPlatform.ts`) | none | create, cancel, delete, apply, retry, event stream | store, worker, gates, event bus |
| Triggers (`triggers/`, `routes/devWebhooks.ts`, `githubIssuesTracker.ts`) | webhook deliveries, poll cursors | a delivery or a ticket becomes at most one job; first-source gate | store, gates, GitHub |
| Docker backend (`dockerBackend.ts`) | tracked leases, leases condemned by a terminate under way | provision, renew, terminate, reap, rehydrate | daemon |
| Fly backend (`flyMachinesBackend.ts`) | mirror of machine ids | create and prove, wait, terminate, reap | Fly |
| Local backend (`localProcessBackend.ts`) | workspaces, pid files, live map | spawn, terminate and reap a process group | the OS |
| Runner shim (`src/packages/runner-shim/`) | the child, the stop flags and timers, the chain of event batches | single-shot run, or the phase loop | runner API |
| Runner daemon (`src/sidecars/dev-runner-daemon/`) | records, creations in flight, destroys in flight, cancelled ids | create, renew, destroy, adopt, boot rebuild, lease and orphan sweep | Docker, middleware, proxy |
| Egress proxy and warmer (`proxy.mjs`, `egressPolicy.mjs`, `warmer.mjs` of the daemon) | registrations, tunnels, the pull in flight | register, withdraw, CONNECT, warm | daemon, runner |
| LLM proxy (`llmProxy.ts`, `llmProxyAccounting.ts`) | token and cost counters on the row | forward a call, meter it, warn at 80 %, end the job at 100 % | Anthropic, store, finalize |
| Events (`appendEvents` of the store, `devJobEventBus.ts`, `packages/ui/src/lib/useDevJobEvents.ts`) | `dev_job_events`, live subscribers | append with a cap, publish, replay then live, prune | runners, UI |
| Tokens (`githubApp/installationTokens.ts`) | minted tokens per job | mint, revoke at park and at the end | GitHub |
| Repositories and Apps (`routes/devPlatformRepos.ts`, `devPlatformGithubApp.ts`, `githubApp/`, `host/`) | rows, vault secrets, pending flows | add, delete, connect, register an App, bind | GitHub, vault |
| Job policy (`deriveJobPolicy.ts`, `policyClient.mjs` and `netClassify.mjs` of the daemon) | none | repository row to container environment and allowlist | daemon, proxy |
| Plugin (`plugin.ts`, `wireDevPlatform.ts`, `ledgerHandoff.ts`, `routes/devPlatformPurge.ts`) | disposers, migration ledger | activate, migrate, register, start loops, close, purge | host |
| Artifacts, chat tool, UI | their tables | CRUD, presentation | store |

**What makes them hard.** Every handler awaits between two statements, so a flow
works on a row it read some time ago; two replicas, several handlers and timers
act on one row at once; the runner of an earlier provision may still call; a
replica, the middleware or the daemon may stop between any two statements;
answers of the daemon, of Fly, of the engine and of the forge may be lost after
the effect took place; several operations are two or three writes that are not
one transaction (park, approval, expiry, a held job and its gate, a row and its
secrets); ids are handed out in another order than they become visible. The
hazards are listed, at their lines, in `PROJECT.json`.

**What makes them correct.**

- Row and runner: a row that nobody runs holds no lease and no handle; only the
  runner of the present claim moves it; a claim always comes to an end.
- Ending: one finalize wins and a terminal row stays as it is.
- Gates: nothing is implemented before the plan is approved, an approval has its
  effect exactly once and is never lost, a waiting job has somebody to wait for
  and does not wait for ever.
- Apply: the policy comes before the forge; what is committed is what was judged;
  one pull request.
- Containers: one per job on every backend, a handle on each, nothing destroyed
  that belongs to a successor, everything gone in the end, whoever crashed.
- Bounds: spend goes over a budget by the calls in flight at most; slots, tunnels
  and the hourly limit are exact; a stop reaches its child.
- Feeds: no event lost to a stream or sent twice; no ticket skipped by a cursor;
  no held job runs unapproved.
- Credentials: one clone token per provision, dead when the job has left; secrets
  exist as long as their rows.

## 2. The modules

    PhasePipeline        phases, ComputeTransition, DecideReview        (pure)
      DevJobRow          one row and its guarded statements             (pure)
        DevJobState      tables, runners, forge, flows; finalize, environment
          DiffApply      the apply of a diff
            DevJobWorker     the worker's tick
            GateRoutes       resolve, re-drive, expire
            AdminRoutes      create, cancel, delete, apply, retry
          RunnerApi      spec, heartbeat, phase result, result; the runners
            DevJobSystem     Next, Spec, fairness
              DevJobProperties   type invariant, safety, liveness, refinement
                DevJobClaims     what a comment or document says and the code does not keep
    DevJobLifecycle      the abstract specification
    DevJobTypes          proofs: types
      DevJobSafety       rows, leases, the forge
        DevJobSteps      what each step touches; decisions, policy, approvals
          DevJobFencing    who may act for a job: the regime of a claim
            DevJobRegime     it holds; what follows of runners, phases, refinement
    DaemonProofs, RunnerSideProofs, HostSideProofs   proofs about the machines
    MCDevJob, MCClaims   instances for TLC

    RunnerDaemon         JobManager and Reaper                 -- MCRunnerDaemon
    JobResources   LlmBudget   EgressProxy   ImageWarmer
    DockerWire   RunnerShim   FlyMachines   LocalRunner        -- MCRunnerSide
    WebhookIntake   TrackerPoll   EventLog   ScmTokens
    JobPolicy   UnifiedDiff   Onboarding   PluginLifecycle     -- MCHostSide

**A row** (`DevJobRow`) is a record. A statement of `DevJobStore` is a pair of
operators: `CanPark` is the `WHERE` clause of `parkForGate`, `Parked` its `SET`.
`Update(guard, new, old)` is the statement: a guard that fails matches no row.
The number of a claim stands for everything minted with it: the lease
(`claimed_by`), the runner's token and the runner. A handle is the number of the
claim it was attached under. Times are kept as the ages the sweeps compare them
with (`beat`, `age`), the brief as the set of gates whose answers it contains,
the diff as the fact that there is one and the class the policy will give it.

**A flow** (`DevJobState`) is the worker loop of a replica or a handler: an HTTP
request or one gate of a deadline tick. Its record in `procs` holds a program
counter, the row it read (`row`), what it decided (`goal`) and where a called
procedure returns (`next`, `back`). A step is one database statement, one
external call, or the in-memory work up to the next `await`; in particular the
check of the in-flight set and its update are one step, as they are in the code.
`FinalizeRead`, `FinalizeFlip`, `FinalizeStop` are `finalizeDevJob`, called by
the worker, the runner API, the gates, the apply and the cancel route.

**Outside** are the runners (`runners`, one per claim, with the shim it was
started with), the forge (`forge`: branch and number of pull requests), and
`Environment`: clocks, a runner that dies, a container that is reclaimed, a
replica that crashes and loses its flows and its in-flight set. An external call
may fail, or succeed and lose its answer, wherever the code has a branch for it.
A database error that aborts a flow has the same effect as a crash of that flow
and is not a step of its own; where the code catches it and does something else
(`Attach`, `ApplyJudge`, `ApplyGate`), it is a disjunct.

**Backends, as the lifecycle sees them.** On docker the daemon answers `create`
with the record it has, the daemon fetches the job's policy and with it a new
token, and `terminate` deletes whatever the daemon holds for the job. On fly and
local a provision starts a runner of its own. A reap on docker reports jobs the
daemon holds nothing for, on fly machines of jobs that ended, on local dead
processes; docker and fly handles are named after the job, so the lookup of a
reaped handle (`HandleOwners`) may find a later claim, as in the code. Only
docker passes the pipeline mode on, so only its runners are phased (`Shim`).

**The machines around it.** Each of the other modules is one machine, small
enough to be explored in full, that opens a box the lifecycle leaves closed:

| Module | Box it opens | Its actions |
|---|---|---|
| `RunnerDaemon` | what the daemon does with create, renew, delete and time | each engine, policy or proxy call of `#provision`, `#destroyOnce` and the sweeps; two passes may overlap because a pass can be abandoned by its deadline; a registration that lapses, a proxy that restarts and forgets them all, a register or withdraw call that is given up and arrives later |
| `JobResources` | what one create or teardown does on the engine | each network, volume, container and sidecar call, failing or losing its answer; restart and adoption by label |
| `DockerWire` | the calls between `DockerBackend` and the daemon | post, lost answer, confirmation, policy lookup, attach, renew, delete, reap, restarts of both sides |
| `FlyMachines` | the Machines API | create, doubtful create and its proof, wait, undo, owner read, stop, delete, reap |
| `LocalRunner` | process groups | workspace, spawn, pid file, leader and child exit, terminate, reap, middleware death |
| `RunnerShim` | the inside of the container | spec, clone, child, batches, cancel, wall clock, the one grace timer, drain, report, phase loop |
| `EgressProxy` | what a registration lets through | control calls that may arrive after they were given up, CONNECT to teardown, deadlines, restarts |
| `ImageWarmer` | the one pull in flight | join, success, failure, deadline, late end |
| `LlmBudget` | the usage counters of the row | admission, upstream, `accumulate` and its read back, warning, finalize and its failure |
| `WebhookIntake` | from a signed delivery to a row | claim of the GUID, dedupes, reservation, policy refusal, insert, gate, a throw anywhere |
| `TrackerPoll` | the poller | listing, ticket by ticket, cursor, throw |
| `EventLog` | the event table and its readers | append in ranges of ids, commit in any order, marker, publish, read and write a page, flush, live, reconnect, prune |
| `ScmTokens` | the clone token | ask, mint, record, send, expiry, restart; the runs of the revoker, token by token, which overlap when a parked job is cancelled before its first run has ended |
| `JobPolicy` | the policy fetch | derive, look up, clamp (image, environment keys, egress), compile, over classes of host spellings and under the two tests of internal addresses the two code bases have |
| `UnifiedDiff` | the class of a diff | parse one hunk, as git writes it or doctored, refuse it outright, judge it, and apply it line by line to a base that may have carriage returns |
| `Onboarding` | repositories and Apps | each awaited step of POST, DELETE, connect, callback; crash |
| `PluginLifecycle` | the process's own life | activate, seed, migrate, register, dispose, close, purge, deadline ticks |

They share no variable with each other and, but for what a comment names, not
with the lifecycle: what another component does to their state is a free choice
(`JobEnds`, `BudgetedJobEnds`, `JobLeaves` may come at any moment), which allows
more than the composed system does. `MCRunnerSide` and `MCHostSide` explore
several machines in one run: a variable `machine` is chosen at the start, the
chosen machine moves, the others rest. Since no machine reads the state of
another, the sum has the behaviours of each of them and their properties hold of
the sum exactly if they hold of each.

**Abstractions worth knowing.** The kind `implement` takes the path of
`fix_issue` and is represented by it. A job's row is never reused. Authorization
of people is taken as granted. A deadline is a matter of days, so a gate does not
expire during the single statement between opening it and parking its job
(`Parking`). What an agent does in a phase is a free choice among the results the
API accepts. In `RunnerShim` a call ends, and the grace window is longer than a
read of the local clone; a child that is killed closes its pipes. In `LlmBudget`
the two budgets are one. In `JobPolicy` a host is the class of its spelling; the
daemon's check of the echoed job id is left out, since the route echoes the job it
was asked about (`devRunnerJobPolicyRoute.ts`). In `UnifiedDiff` a line is its text
and whether a carriage return ends it, and a protected path, a secret, a git-internal
path or link is a property of the upload. Fly's machine name and owner metadata are
the job itself. The age of a container in `RunnerDaemon` has three values: younger
than the lifetime counted from its provision's start, between that and the lifetime
counted from its birth, and older. `TrackerPoll` is the poller as it is written; the
plugin ships it dormant and starts none (`plugin.ts:585-598`). The deadline ticks in
`PluginLifecycle` carry no property; they are there for what section 4 says of
`stop()`.

## 3. Properties

`DevJobProperties` states those of the lifecycle, each with the code it is about.

| Property | Says | Why it could fail |
|---|---|---|
| `TypeOK` | every variable has its type | |
| `LeaseDiscipline` | no lease or handle on a parked or queued row; only the handle of the present lease on a claimed one | late workers attach, park and requeue race |
| `RunsUnderItsLease` | a running job runs on the token of its lease | `markRunning` is not fenced on the lease |
| `RunnerFenced` | a handler changes a row for a runner only while that runner's token is current | token is checked once, statements come later, on phase fences only |
| `WithinConcurrencyCap` | no replica claims more than the cap | slots are counted once per tick |
| `TerminalIsFinal` | a terminal row is only deleted, given a token, or parked by a re-apply | dozens of statements in flight |
| `ImplementAfterApproval` | implement, review and pr only after a resolved gate whose answers are in the brief | approval is three writes, re-driven |
| `ApprovalRequeuesOnce` | provisions ≤ 1 + approvals | re-drive races the winner |
| `WaitingIsActionable` | a waiting job has a gate or a flow about to act; a crash strands it after its gate expired or before its first, nowhere else | park and expiry are several writes |
| `ApprovalSurvives` | an apply never asks again for what was approved | crash, sweep, retry lose the option in hand |
| `PolicyRespected` | no branch for a denied diff, none for a gated one before its approval | decision and kind of a gate are read back from the table |
| `OnePullRequestPerJob` | at most one pull request | replicas, crashes, lost answers |
| `KeepsLifecycle` | the system implements `DevJobLifecycle` | every statement on every interleaving |
| `WaitEnds`, `ClaimEnds` | a wait ends unless a replica crashes, a claim ends | crash, silent death, lost answer |

The others are stated at the end of their modules.

| Property | Says | Why it could fail |
|---|---|---|
| `HandlesAreKept` | the daemon has a handle on every container it made, through restarts | a cancel during a create, a rollback that fails, a teardown that fails |
| `EgressWhileRunning` | a running container within its lifetime has its own registration in force, unless the proxy restarted or a call of an earlier provision arrived late | withdrawal by job id races the next create |
| `OrphanSweepSparesRecords` | the orphan sweep never touches a recorded container | it works on an old listing |
| `EveryContainerEnds` | no container stands for ever | lost handles, restarts, abandoned passes, a middleware that renews |
| `TeardownIsProof` | a teardown that succeeds has left nothing | sidecar by name only, adoption after restart |
| `NothingIsStranded` | what failures and restarts left is removed | the sweep must find it by label or name |
| `EndedJobsLoseTheirContainer` | a job that is over loses its container | renewal after the end, failed DELETE, late create, restart of either side |
| `OneMachineOfAJob` | one Fly machine per job, unless the undo of a failed start failed | create committed behind an error |
| `NoGroupIsStranded` | a live process group can be found again | the leader dies before its child, death between spawn and cleanup |
| `StoppedProvisionEnds` | a stopped gated provision exits | stop between phases, child that traps SIGTERM |
| `SlotsAreExact` | the tunnel counter is the number of tunnels | teardown comes from eight places, several at once |
| `DeadDaemonLeavesNothing` | egress ends after the daemon died | control calls that arrive late, a proxy that restarts |
| `EveryWarmIsAnswered` | callers of a warm are answered, the slot is freed | a pull that hangs for ever |
| `BoundedOvershoot`, `OverBudgetEnds` | spend exceeds the budget by the calls in flight at most; an over-budget job ends | burst at the edge, finalize that fails |
| `WithinHourlyLimit` | jobs of an hour are within the limit | count and reservation race, throws |
| `HeldUntilApproved` | a job born under a gate is not claimed before the approval | insert and gate are two writes |
| `CursorFollowsWork` | the cursor of one poller never passes a listed update nobody has handled | throw in mid-list, updates between listing and cursor |
| `StreamIsComplete` | each event at most once, in order, and all that were committed in order | subscribe, replay and flush overlap with commits |
| `OneTokenPerProvision`, `RegisteredTokensDie` | one clone token per provision; recorded tokens of a job that left are dead once every run of the revoker has ended | await between check and mint, push to a list a run walks, two runs on one list |
| `DerivedIsAdmitted` | what the host derives, look-alikes of internal addresses aside, the daemon refuses for its image or its length only, and the proxy compiles it entry for entry | three classifications over two tests of an internal address |
| `CommittedAsJudged` | what is committed is the diff, as it was parsed, merged into a base whose lines it names, with the numstat of the parse and within what was judged or approved | doctored counts, stale context, carriage returns |
| `SecretsFollowRows` | rows and secrets stay together | two stores, crash, delete overtaking add |
| `SchemaBeforeService` | nothing is registered before the schema exists | a ledger that claims more than the database has |

Each has a mutant: a definition of the model changed as a plausible bug would
change the code (a dropped guard, the in-memory option instead of the table, the
loser's decision instead of the winner's, the cursor moved with each ticket, the
slot counted before the reservation), under which the same run refutes it.

## 4. Runs

| Run | Bounds | Shows | States |
|---|---|---|---|
| `gated_docker` | 1 job, 1 replica, 2 handlers, 2 claims, 1 gate, analyze and fix_issue, docker | both provisions of a gated job, two requests in flight | 2.9 M |
| `replicas_crash` | 1 job, 2 replicas, 1 handler, 1 claim, 1 gate, 1 crash, verdicts gate and allow, local | two applies at once, crash at any statement, who can act for a parked job | 2.7 M |
| `fleet` | 2 jobs, 1 replica, 1 handler, 2 claims, cap 1, fly | two jobs, one slot, capacity answers | 2.6 M |
| `jobs_end` | 1 job, 1 handler, 1 claim, 1 gate, fair; docker with the wall clock and no crash, or local with both clocks and 1 crash | liveness of the wait and of a claim | 0.9 M |
| `daemon_sweeps` | 1 job, 2 creates, 2 overlapping passes, 1 fault (a restart, a refused or lost call), caps 1, no proxy, fair | create, destroy, sweep and restart of one job | 0.3 M |
| `daemon_egress` | 1 job, 2 creates, 1 pass, 1 fault, 2 losses (a restart of the proxy, a call to it that is given up), caps 1 | the registration of one job through two provisions | 4.2 M |
| `runner_side` | eight machines: 3 rounds and 2 failures of the engine; 2 calls of price 2 on a budget of 5; 2 tunnels on 1 slot, 2 incarnations; 3 pulls; 2 attempts, 2 lookups and 2 faults on the wire; 2 batches and 2 phases; 2 machines and 3 faults; 2 workspaces and 3 faults; fair | everything around a container | 27 492 |
| `host_side` | a job with 2 handlers and 2 policy gates, local, verdicts gate and deny; 2 deliveries of 2 issues, limit 1, 1 throw; 2 tickets, 1 fault; 2 writers, pages of 2, 3 ids, 1 drop; 2 token requests, 2 provisions, 2 tokens, 2 runs of the revoker, 1 fault; 2 base and 2 repository host entries; a base of 2 lines, 1 insertion; 1 add, 2 callbacks, 1 fault; 3 migrations, 2 ticks, 2 activations | gate races on one diff, and every service of the host | 1.6 M |

**Why the bounds are enough.** Two claims are a job before and after its gate, or
a job and its successor in the slot: a stale runner, worker or handle needs no
third. Two gates are the first decision and the one a re-apply asks for. Two
handlers and a worker are a winner, a loser and the sweep. One crash separates
any two statements. Jobs meet only in the concurrency cap, so one job is enough
elsewhere; the daemon keys everything by job id. In the machines a number of two
is a thing and its successor (create, incarnation, attempt, phase, activation) or
a race of two (calls, tunnels, deliveries, writers, requests); faults are as many
as it takes to fail an operation and its compensation. The daemon is checked twice:
what the engine holds does not depend on the proxy, so liveness and overlapping
passes are explored without one (`Proxied`), and the registrations with one pass and
two losses (`MaxLosses`), which is a withdrawal that arrives late and a proxy that
restarts. Two runs of the revoker are a slow one and one that overtakes it, and two
tokens are the one it is at and the one behind. Clocks run only where a
property is about them: a sweep is otherwise one more finalize, which cancel
already represents. In `jobs_end` a docker job, which waits for its plan, has the wall clock and no crash, a local job has both clocks and a
crash (`InBounds`): the bounds are on crashes, on the choice of a backend and on the
heartbeat clock, and fairness asks for no step that leaves them. Symmetry
over handlers, replicas and jobs is used in runs without liveness only. Deadlock is not checked: a behaviour whose jobs have all
ended, with the bounds used up, really stops.

**Fairness.** In the lifecycle (`FairSpec`; `LiveSpec` with the bounds of
the run) a replica re-arms its loop with a
timer after every tick, and a handler once started is driven on by the event
loop, so both are weakly fair; clocks go on; the deadline tick competes with
requests for handler slots and is taken infinitely often whenever a gate is
overdue infinitely often, hence strong fairness. Nothing is assumed of people,
of runners or of the forge. In the machines: intervals and deadlines fire (the
sweeps and the rebuild of the daemon, the expiry of leases and registrations, the
deadlines of tunnels and pulls, the grace timer), and a call under way ends one
way or the other. Strong fairness is stated in three places: an engine that is
asked again and again to remove a container does so in the end
(`TeardownDone`, `OrphanLeaves`); a sweep is started although its guard comes and
goes with other passes; and a provider that answers a job's calls shows its usage
again and again and the database takes the statement again and again
(`BudgetFairness`): without these the code promises nothing.

### Disagreements between the code and what is said of it

Four runs check one statement of the repository each, and TLC refutes it.

| Run | Statement | What happens |
|---|---|---|
| `host_phases` | "await_human / pr are host-only — never handed to a runner." (`phaseRunner.ts:77`) | an approved review is answered with `next: pr`; the runner reports `pr` as failed and the job ends failed |
| `two_provisions` | "two provisions, each a separate container" (`phaseLoop.ts:6`) | the daemon still has the exited container of the first and answers with it |
| `stop_escalates` | "SIGTERM → SIGKILL after a grace window. Both cancel and wall-clock use it" (`runner-shim/src/index.ts:76`) | a cancel during the clone spends the one grace timer before there is a child; a child that traps SIGTERM is not killed by the cancel, nor later by the wall clock |
| `applied_is_reviewed` | "the committed tree would diverge from the diff a human reviewed" (`parseUnifiedDiff.ts:206`) | a file without final newline whose last line no hunk reaches is committed with one |

Others were met while modelling, can be followed in the modules and are stated
here only; a property that holds names its exception where there is one.

- The registration of a job at the egress proxy is made for the lifetime of the job from
  the start of its provision (`jobs.mjs:440`), and the proxy drops it at that time
  (`egressPolicy.mjs:246`). The sweep that ends an over-age job is periodic and its
  teardown may fail, and an adopted record counts its lifetime from the birth of the
  container, which comes later (`jobs.mjs:664`): a running container loses its egress,
  although `jobs.mjs:438` says "this registration can neither expire under a live job
  nor outlive a dead one" and `proxyClient.mjs:18` that it "can never expire under a
  live job". `EgressWhileRunning` speaks of a container within the lifetime that is
  counted from its provision's start (`age`).
- The two tests of internal addresses differ. The daemon's looks at how a text begins
  (`netClassify.mjs:61`), the middleware's asks for four octets or a colon
  (`host/ssrfGuard.ts:51-67`): `10.example.com`, `fda.gov` or `fcc.gov` on an allowlist
  is kept by the one and refused by the other, with the whole policy, and the job never
  starts. `netClassify.mjs:25` says "the daemon must classify identically so the two can
  never disagree". `DerivedIsAdmitted` exempts these look-alikes.
- Carriage returns are cut off every line of a diff (`parseUnifiedDiff.ts:138-140`) and
  kept in the lines of the base (`:452-457`), with which they are compared (`:243`): a
  hunk git wrote for a CRLF file is refused at its context, and a line it inserts is
  committed without its carriage return (`:234`), although line 16 has CRLF among what
  the parser handles. `CommittedAsJudged` speaks of the hunk as it was parsed.
- A Fly machine's environment carries no pipeline mode
  (`flyMachinesBackend.ts:536`): its shim runs single-shot, so a gated job gets no
  plan gate although `0023_dev_platform_pipeline.js:17` says "'gated' (default)
  opens the plan gate".
- The list of stalled jobs is filtered when it is read (`devJobWorker.ts:285`); a
  job that becomes applying before its turn is ended, although
  `devJobWorkerPolicy.ts:47` says enforcement "MUST skip an `applying` job".
- A pull request that fails after its branch was created cannot be retried
  (`githubForgeClient.ts:225`), although `devJobWorker.ts:570` says "can retry
  against the same stored diff".
- A crash between the expiry of a gate and the cancel of its job
  (`wireDevPlatform.ts:683`) leaves the job waiting: `WaitEnds` speaks of a
  system that has not crashed. So does a crash between the insert of a held job and its
  gate (`triggerJobService.ts:187`). `WaitingIsActionable` exempts these two, and
  shows that there is no third.
- An approval that lands between the apply's read of it and the opening of its
  gate is followed by a second gate (`devJobWorker.ts:560`).
- `recordResult` overwrites the usage the LLM proxy has accumulated
  (`devJobStore.ts:567`); `BoundedOvershoot` exempts it.
- The first-source gate counts reservations (`routes/devWebhooks.ts:235`): a sender
  whose first delivery is still being handled, or threw after its reservation, is
  no longer new, and its second delivery makes a job without a gate.
- An event whose identity is smaller than one already sent is not sent by a live
  stream (`routes/devPlatform.ts:463`); `StreamIsComplete` exempts what was
  overtaken.
- The tunnel cap is read before the name is resolved and the slot taken
  afterwards (`proxy.mjs:283`): tunnels may exceed it by the resolutions under way.
- The lookup that reissues a runner's token (`devRunnerJobPolicyRoute.ts:144`) may
  arrive after the daemon has given it up: the container that was started with an
  earlier answer holds a dead token.
- The cursor of the tracker poller skips what is not newer than it
  (`trackerPoller.ts:160`): a ticket updated at the stamp of the newest one after
  the listing is not looked at. A second poller beside a sweep that was not waited
  for can pass a listed update by in the same way; `CursorFollowsWork` speaks of
  listed updates and one poller, and nothing in the repository starts two.
- A daemon whose rebuild failed answers the list with what it has, and a reap
  reads jobs it does not know as gone (`dockerBackend.ts:561`).
- A DELETE of a repository that overtakes the POST which stores its token leaves
  the token (`devPlatformRepos.ts:194`); `SecretsFollowRows` exempts it.
- A restart of the egress proxy forgets every registration (`egressPolicy.mjs:213`) and
  no running job is registered again; a withdrawal given up at its deadline
  (`proxyClient.mjs`) that reaches the proxy after the next create of the job deletes
  the successor's registration, since it names the job only. `EgressWhileRunning`
  exempts both by name (`severed`).
- A run of the revoker drops the list of the job by its id
  (`installationTokens.ts:219`): a slow run drops a list that was begun anew after a
  faster run had dropped the first, and nobody goes through it.
  `RegisteredTokensDie` exempts a list dropped that way. The run of a park that is
  still under way when the job is provisioned again may revoke the token of the new
  provision.
- Overlapping ticks of the deadline worker share one reference, so `stop()` may
  resolve before one of them has ended, although `wireDevPlatform.ts:706` says "no
  expire/finalize runs after stop() resolves".
- The undo of a Fly machine that did not start is not checked
  (`flyMachinesBackend.ts:325`): if it fails, the requeued job has a second one.
  `OneMachineOfAJob` exempts it.
- The local reap passes over a tracked group whose leader lives
  (`localProcessBackend.ts:356`), so a terminate that could not kill it is not
  retried by the reap; a crash between spawn and the pid file leaves a group no
  file names. `NoGroupIsStranded` exempts the second.

## 5. Proofs

Assumptions of the lifecycle: `BoundsAssumption` and `SortsAssumption` of
`DevJobState` (the bounds are naturals, replicas and handlers are disjoint, the sets
of jobs and replicas are finite, the chosen kinds, verdicts, backends and clocks are
among those there are). Nothing else: the theorems hold for any number of jobs,
replicas, handlers, claims, gates and crashes. Those of the machines rest on the
assumption of their module (`DaemonAssumption`, `ProxyAssumption`, `IntakeAssumption`,
`TokenAssumption`, `BudgetAssumption`, `LifecycleAssumption`, `PollAssumption`,
`PolicyAssumption`, `EventLogAssumption`, `DiffAssumption` and so on): bounds are
naturals, what is counted (tunnels, deliveries, calls, host entries) is finite, and
prices and deliveries are not none at all. One theorem has a hypothesis of its own:
`CursorWaits` (one poller, section 4 says why).

| Theorem | Module | Statement |
|---|---|---|
| `TypeCorrect` | `DevJobTypes` | `Spec => []TypeOK` |
| `TerminalRowsAreFinal` | `DevJobSafety` | `Spec => TerminalIsFinal` |
| `LeasesAreDisciplined` | `DevJobSafety` | `Spec => []LeaseDiscipline` |
| `OnePullRequest` | `DevJobSafety` | `Spec => []OnePullRequestPerJob` |
| `CapIsKept` | `DevJobSafety` | `Spec => []WithinConcurrencyCap` |
| `NothingUnborn` | `DevJobSteps` | `Spec => []BornInv` |
| `DecisionsHold` | `DevJobSteps` | `Spec => []GateInv` |
| `PolicyHasTheLastWord` | `DevJobSteps` | `Spec => []PolicyRespected` |
| `ApprovalIsDurable` | `DevJobSteps` | `Spec => ApprovalSurvives` |
| `OneActsForAJob` | `DevJobRegime` | `Spec => []FenceInv` |
| `JobsRunUnderTheirLease` | `DevJobRegime` | `Spec => []RunsUnderItsLease` |
| `RepliesAreFenced` | `DevJobRegime` | `Spec => RunnerFenced` |
| `PlansAreApproved` | `DevJobRegime` | `Spec => []ImplementAfterApproval` |
| `OneRequeueAnApproval` | `DevJobRegime` | `Spec => []ApprovalRequeuesOnce` |
| `WaitsForSomebody` | `DevJobRegime` | `Spec => []WaitingIsActionable` |
| `LifecycleIsKept` | `DevJobRegime` | `Spec => KeepsLifecycle` |
| `HandlesKept` | `DaemonProofs` | `Spec => []HandlesAreKept` |
| `RunningHasEgress` | `DaemonProofs` | `Spec => []EgressWhileRunning` |
| `SweepSpares` | `DaemonProofs` | `Spec => OrphanSweepSparesRecords` |
| `OvershootBounded` | `RunnerSideProofs` | `BudgetSpec => []BoundedOvershoot` |
| `SlotsExact` | `RunnerSideProofs` | `ProxySpec => []SlotsAreExact` |
| `TeardownsAreWhole` | `RunnerSideProofs` | `ResourcesSpec => TeardownIsProof` |
| `OneMachine` | `RunnerSideProofs` | `FlySpec => []OneMachineOfAJob` |
| `GroupsAreFound` | `RunnerSideProofs` | `LocalSpec => []NoGroupIsStranded` |
| `LimitKept` | `HostSideProofs` | `IntakeSpec => []WithinHourlyLimit` |
| `HeldJobsWait` | `HostSideProofs` | `IntakeSpec => []HeldUntilApproved` |
| `CursorWaits` | `HostSideProofs` | `PollSpec => []CursorFollowsWork`, for one poller |
| `OneTokenEach` | `HostSideProofs` | `ScmSpec => []OneTokenPerProvision` |
| `RecordedTokensDie` | `HostSideProofs` | `ScmSpec => []RegisteredTokensDie` |
| `PoliciesAgree` | `HostSideProofs` | `PolicySpec => []DerivedIsAdmitted` |
| `SchemaComesFirst` | `HostSideProofs` | `LifecycleSpec => []SchemaBeforeService` |
| `SecretsStayWithRows` | `HostSideProofs` | `OnboardingSpec => []SecretsFollowRows` |
| `StreamsMissNothing` | `HostSideProofs` | `EventLogSpec => []StreamIsComplete` |
| `HunksMergeAsJudged` | `HostSideProofs` | `DiffSpec => []CommittedAsJudged` |

### The lifecycle

*Types.* `TypeOK` is not inductive: a handler takes its job from the runner it
serves, the resolve route from the gate, and an apply puts it into the in-flight
set, so that job must be a real one. `TypeInv` adds what refers to a job has one:
a flow inside something (`GoodProc`, which also types the decision in hand), a
live runner (`GoodRunner`), an open or decided gate (`GoodGate`). One lemma per
action or group of actions.

*Rows.* `NextIsOneStatement`: a step changes at most one row, and by one statement
of `DevJobStore` whose guard holds (`Statement`). Both theorems then go by cases
over statements and never look at a flow again. Of all statements only the
deletion, the token mint and the park of a failed job are enabled on a terminal
row. Each statement keeps the lease discipline of its row: a claim takes the
number just drawn and numbers only grow (`ClaimsGrow`), park, release and requeue
clear lease and handle together, and a handle is attached only under its lease.

*Forge.* `OnePullRequestPerJob` is not inductive either: two flows might both be
about to open a pull request. `ForgeInv` adds that a job with a pull request has
its branch, that a flow about to open one has the branch and no pull request is
there yet, and that there is at most one such flow. It is inductive because the
forge refuses to create a branch that exists, so whoever created it is the only
one to go on; a crash can only remove that flow.

*Cap.* A tick counts the active jobs once and claims for a while, during which rows are
claimed, released, parked and finished, and other replicas count and claim too. There is
no sum over replicas in the proof: each replica owns as many slots as the cap (`Slots`,
pairs of a replica and a number), `SlotsLeft` are those its tick may still use, and
`CapInv` says that busy jobs and slots left are no more than there are slots. Only a
claim makes a job busy (`BusyStatement`), and it gives up a slot; only a count sets the
slots of its replica, and it counts more jobs than are busy; every other step leaves both
or lets them fall (`Uncounted`). With one replica the bound is the cap. With two that
count before either claims it is twice the cap, and it is reached: TLC, which
checked `CapInv` on two replicas and two jobs, refutes the cap itself there.

*Steps.* `StepsSorted` splits the steps of the system once for all that follows:
most are calm (a loop walks on, a job is finalized, a runner dies, time passes) and
are dealt with together, the rest are named one by one. It needs `BornInv`: nothing
refers to a row that was never inserted, so a new row starts without a past.

*Decisions.* A flow between a gate's compare-and-swap and its last statement works on
what it read. `GateInv` says that for such a flow the table still holds the gate of its
job with the status it drives (`GateFlow`), as long as the job exists; that an apply
with an approval in hand has a resolved gate behind it; and that one about to create
the branch has the policy's consent (`Judged`). It is inductive because a decided gate
never changes again and goes only with its row (`GatesLast`). `PolicyRespected` is a
part of it, `ApprovalSurvives` is its action form.

*Who acts for a job.* The heart of the development is `FenceInv`. The code fences by
lease in the worker, by token in the runner API, by phase in the phase engine and by
status in `markRunning`; no one of these is enough, and what makes them sufficient
together is a regime every job is in (`Regime`):

- a worker that still provisions a job does so under the row's lease (`Provisioned`);
- a runner of any other claim is spent: it has ended, or the call that parks its job is
  being served (`Fenced`);
- a handler serves the runner of the row's lease and token, but for one that is late to
  park a job whose plan was approved meanwhile, and the phase fence refuses it (`Served`);
- while a plan gate exists or is being opened and the plan is not approved, nobody
  provisions the job and all of its runners are spent (`Planned`);
- a diff is handed over once, by the last call of the runner (`Handed`).

`Numbered`, `Serving`, `Gated` and `HasDiff` complete it: claims are used as they were
drawn, each runner is served one call at a time, no row has another mode than the
default, and no apply is without a diff. `DevJobFencing` defines the regime and proves
what leaves it alone, `DevJobRegime` shows that each named step keeps it.
`RunsUnderItsLease` and `RunnerFenced` follow.

*Plans.* `PlanInv` adds that a flow about to requeue a job has appended the answers of
its gate to the brief or came too late to (`Briefed`), that a phase after the plan has a
resolved gate whose answers are in the brief (`Consented`), and that a job was
provisioned once, or twice with an approved plan and in a phase after it (`Counted`).
That a second re-drive finds nothing to requeue is because the first left
`await_human`, and nothing of the plan leads back there.

*Waiting.* `WaitInv` says that whoever is about to park a row has its gate
(`ParkBegins`: the gate is opened by the step before, and the deadline passes over jobs
that are being parked), and that a waiting row without a gate that waits or was decided
is in the hands of a flow that opens one or ends the job, unless something crashed; and
that a waiting row either was given a gate once, which then has expired, or was never
provisioned (`Unserved`), which only the insert of a held job brings about. A gate stays
until it expires or its job is deleted (`AskedLasts`), and the tick that expires it is
then about to cancel the job; `WaitBegins` finds the three ways into the state,
`EndsWaitLasts` is where a crash breaks the chain, and crashes are never forgotten
(`CrashesGrow`). TLC checked `WaitInv` on four instances (two handlers and two gates on
docker, two replicas on local, two claims and an allowing policy on docker, one crash on
docker and fly) before it was proved.

*Refinement.* `KeepsLifecycle` is a step simulation: `RowsMoveStages` shows that under
the regime a statement takes a row to the same stage or to one that may follow it
(`StageMoves`), and `PrPublishes` that the step which opens a pull request is that of a
job that has none yet.

### The daemon

`HandlesAreKept` is far from inductive: that the record of a job may be dropped needs
that no second container of the job stands, that a container may be adopted needs that
the daemon had no other hand on its job, and that a sweep may tear down what it listed
a while ago needs to know whose it was. `DaemonInv` says so:

- a provision in flight has a number of its own, no record beside it, and the engine has
  of it what its step says (`Numbering`, `Stage`): no container before the last engine
  call, its own while it is being undone, none that stands unnamed once it withdraws;
- a record names a container of its job, a teardown the container of the record, and the
  record goes only after that container is gone (`Records`);
- what a pass has listed was made for the job it is listed under, and the orphan it is
  tearing down is neither recorded nor in flight (`PassAt`): a number is given once, so
  it does not become either again;
- of a job of which nothing was lost (`Known`: no failed rollback, not taken on before
  the engine was read) one container stands at most (`OneBox`), and a running one is
  connected (`Connected`), restarts included, while it is within its lifetime and
  nothing has severed it (`Excused`, which no step takes back: `ExcusedNext`);
- a call to the proxy that was given up is of an earlier provision than the one in
  flight or running (`Late`), so where it cuts off the one in force it is known to have
  done so (`severed`).

Most steps bring nothing new (`Modest`: containers wear down, records keep theirs) and
are dealt with together; the steps of a provision share one account (`ProvisionStep`);
`ProvisionBegins`, `RecordGoes`, `EngineIsRead` and `DaemonRestarts` are the rest.
`EngineIsRead` is where `HandlesAreKept` begins to hold in each life of the daemon. TLC
checked `DaemonInv` on small instances, with a proxy and without, before it was proved.

### The machines

*Slots.* Once every connection is somewhere in `handleConnect`, `SlotsAreExact` is
inductive: a dial adds one member to the finite set of tunnels that hold a slot, and
teardown, however often it runs, removes one that is still there.

*Budget.* Each price beyond the budget settles the call that added it: having read
a position over the budget, it ends the job before it can call again. So usage is
at most the budget less one plus the dearest price for each settled call
(`OvershootCounted`), and there are no more of those than calls. That a finite set of
prices has a dearest is proved by well-foundedness of the subsets above each price.

*Resources.* While a teardown walks its list without an error, every part that stands
is still ahead of it; what a create may make is what the job's own list tears down, and
a handle that was adopted after a restart knows of the sidecar if the job has one
(`ResourcesInv`).

*Machines and groups.* Unless an undo failed, no Fly machine is up behind a create that
may still be committed, and the machine of a start that is waited for or undone is the
only one (`VmsFollowTheJob`). In a workspace that is not spawned yet or is being
removed nothing runs, and a group that runs has its directory and its pid file, or its
provision has it in hand (`Findable`).

*Intake.* The limit speaks of jobs and the transaction counts slots. `IntakeInv` says
that slots are within the limit (`SlotsTaken`), that a job belongs to a delivery with
a slot (`JobsHoldSlots`), and that a GUID is in the hands of one handler
(`OneHandler`), so nobody takes back the outcome under a job. Only the reservation
adds to the count, and by one (`ReservationCounts`).

*Cursor.* What a sweep has listed it has yet to come to, or has looked at
(`SweepsAreThorough`); the cursor moves when nothing is left.

*Tokens.* A request under way owns the reservation of its provision, alone
(`AsksOwnReservations`), which it took before its first await. Every live token is given
up, or about to be recorded, or in a list and somebody's (`LiveAccounted`): in the hand
of the run that has marked it (`InHand`), ahead of a run that goes through its list
(`StillAhead`), or to come, because its list is the job's present one and the job lives or a
run is due (`ToCome`). That marks and lists belong to minted tokens and a token about to
be recorded is in no list yet (`RecordsAreNew`, `ListsAreMinted`, `RunsAreAtTokens`)
carries this through a run that ends, drops the list and leaves the other to it.

*Policies.* `Carried` follows the entries from stage to stage. Of a policy derived from
names that may be trusted only the look-alikes of internal addresses are in what the
daemon refuses (`DerivedAreNames`): a finite case split over the two tests, one for each
side. What the daemon admits the proxy compiles, with no suffix, because it has no
wildcard and the proxy's cap is twice the daemon's (`ClampedCompiles`). That the lengths
agree needs that the allowlist is finite, hence the assumption that the entries are, and
that spelling a canonical name canonically changes nothing (`CanonicalOnce`).

*Operators.* The plugin's own ledger is never ahead of the objects it stands for
(`LifecycleInv`), whatever core's ledger claims, so a ledger that is complete means a
schema that is. A repository under way keeps its row or was outrun by a delete, and a
manifest flow that is consumed once lets one callback save the App (`OnboardingInv`).

*Event log.* What makes a stream complete is the order of four things that overlap:
identities are drawn, rows commit, commits are published, and a stream replays, flushes
and goes live. `LogInv` says that an event stored behind the last one sent was sent, or
was overtaken, or is in publication behind one that is out (`Behind`); that what the
stream has seen stays in the log while a smaller identity is still under way
(`SeenStays`), so a prune cannot hide the gap; that what the bus has handed over is
under way no more (`ArrivedIsOut`); and that the page in hand and the buffer are in
order and ahead of what was sent (`PageIsNext`, `BufferInOrder`). The replay reads the
least events after the last one sent, which is why a page leaves nothing behind.

*Diff.* Line *n* of a side of the hunk has its place behind the lines skipped and the
lines of that side before it (`OldAt`, `NewAt`). `SoFar` says what holds between two
lines of the loop: the hunk fits the base as far as it was read, the cursor is where its
old side says and the output is its new side that far. A mismatch refutes the fit at
that very line, so the loop refuses a base exactly if the hunk does not fit it
(`ApplyIsExact`), and what follows the last line is the rest of the base (`JoinedFile`).
All of it speaks of the hunk as it was parsed (`Body`): what the parse cuts off is cut
off before. `Judged` and `Unstarted` add that only a diff that was not refused outright,
and that the policy allowed or a holder approved, is applied, and from its first line. Stated place by place, without recursion over the
body, it needs no induction over data.

### Only model-checked

- The liveness properties (`WaitEnds`, `ClaimEnds`, `EveryContainerEnds`,
  `NothingIsStranded`, `EndedJobsLoseTheirContainer`, `StoppedProvisionEnds`,
  `DeadDaemonLeavesNothing`, `EveryWarmIsAnswered`, `OverBudgetEnds`): fairness and
  `ENABLED` are beyond the prover. Every other property a passing run checks is the
  statement of a theorem.

## 6. What is not modelled, and why

- The artifact store, the chat tool and the UI but for its stream client: data,
  a façade and presentation. Queries that only read.
- Text: prompts, event translation, glob and secret patterns, quoting of paths in
  diffs, renames and modes, pricing of tokens, header scrubbing, configuration
  parsing, hashes and signatures. Where control depends on what they find, it is a
  class or a free choice.
- `cancelForJob` of the gate store has no caller, so there is no action for it.
- Git, the agent, Docker, Fly, GitHub and the operating system are external: what
  they answer is a free choice within what the code distinguishes.
- The machines are not composed with the lifecycle in one state space: the product
  is out of TLC's reach. Each leaves the other side a free choice instead.

## 7. Plan

Done: the lifecycle, the machines around it, and proofs of every safety property the
runs check.
Next:

1. An abstract resource group (present, absent, in doubt) that `RunnerDaemon`,
   `FlyMachines` and `LocalRunner` each implement, and `DevJobWorker` uses.
2. Several files, renames and deletions in `UnifiedDiff`; artifact upload before a
   result in `RunnerApi`.
