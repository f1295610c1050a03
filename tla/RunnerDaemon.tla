---------------------------- MODULE RunnerDaemon ----------------------------
(***************************************************************************)
(* The runner daemon: the JobManager's registry of job containers and the  *)
(* Reaper that reconciles it with the engine.  Handlers and passes are     *)
(* asynchronous: every engine or proxy call is a step of its own, and the  *)
(* synchronous code between two of them is one step.                       *)
(*                                                                         *)
(* A provision is named by a number, which also names the container it     *)
(* makes and the egress token it registers.  Time is a choice: a lease     *)
(* lapses, and a provision grows older than its lifetime, at any moment.   *)
(* A call to the egress proxy that the daemon has given up, or that it had *)
(* under way when it died, may still arrive, after any later call.         *)
(***************************************************************************)
EXTENDS Naturals, FiniteSets

CONSTANTS Jobs, Passes, NoJob,
          Proxied,      \* an egress proxy is configured; without one nothing is registered
          MaxLive,      \* admission cap over recorded and in-flight jobs
          MaxInflight,  \* admission cap over in-flight provisions
          MaxCreates,   \* bound: provisions ever started
          MaxFaults,    \* bound: restarts, failed boot listings and abandoned passes
          MaxLosses     \* bound: proxy calls left under way, and restarts of the proxy

ASSUME DaemonAssumption ==
  /\ NoJob \notin Jobs /\ Proxied \in BOOLEAN
  /\ MaxLive \in Nat /\ MaxInflight \in Nat /\ MaxCreates \in Nat
  /\ MaxFaults \in Nat /\ MaxLosses \in Nat

VARIABLES
  jobs,       \* the registry: a record per live job
  creates,    \* the provision in flight of each job
  cancelled,  \* jobs a DELETE cancelled while their create was in flight
  destroys,   \* the one teardown in flight of each job
  passes,     \* reaper passes: the current one and abandoned ones
  turn,       \* the pass that holds the single-flight flag, or none
  rebuilt,    \* a boot rebuild has read the engine
  serving,    \* the server listens: the first rebuild has ended, one way or another
  forceReap,  \* boot-stale jobs whose teardown failed
  boxes,      \* the engine's containers, by provision
  age,        \* of a provision: 0, or 1 when its lifetime is over counted from its start,
              \* as its record and its registration do, or 2 counted from its container's birth
  residue,    \* jobs with a labelled network or volume on the engine
  egress,     \* the egress proxy's registration of each job
  stray,      \* calls to the proxy whose caller no longer waits
  severed,    \* history: provisions whose registration a proxy restart, or the
              \* late call of an earlier provision, has taken away
  reported,   \* containers named by a CreateRollbackError
  blind,      \* jobs with a provision admitted before the engine was read
  started, faults, losses

memory == <<jobs, creates, cancelled, destroys, passes, turn, rebuilt, serving, forceReap>>
engine == <<boxes, age, residue, reported>>
proxy == <<egress, stray, severed, losses>>
vars == <<memory, engine, proxy, started, blind, faults>>

Ids == 1..MaxCreates
NoRecord == [box |-> 0, lease |-> FALSE, adopted |-> FALSE]
NoCreate == [pc |-> "none", id |-> 0]
NoDestroy == [pc |-> "none", box |-> 0]
NoPass == [pc |-> "none", force |-> {}, todo |-> {}, on |-> NoJob,
           box |-> 0, stale |-> FALSE]

Recorded(j) == jobs[j] # NoRecord
Inflight(j) == creates[j].pc # "none"
Destroying(j) == destroys[j].pc = "teardown"
Tracks(j) == Recorded(j) \/ Inflight(j) \/ Destroying(j)
BoxesOf(j) == {b \in Ids : boxes[b].job = j /\ boxes[b].state \in {"up", "exited"}}

Init ==
  /\ jobs = [j \in Jobs |-> NoRecord] /\ creates = [j \in Jobs |-> NoCreate]
  /\ cancelled = {} /\ destroys = [j \in Jobs |-> NoDestroy]
  /\ passes = [p \in Passes |-> NoPass] /\ turn = {} /\ rebuilt = FALSE /\ serving = FALSE /\ forceReap = {}
  /\ boxes = [b \in Ids |-> [job |-> NoJob, state |-> "none"]]
  /\ age = [b \in Ids |-> 0] /\ residue = {} /\ reported = {}
  /\ egress = [j \in Jobs |-> 0] /\ stray = {} /\ severed = {} /\ losses = 0
  /\ started = 0 /\ blind = {} /\ faults = 0

-----------------------------------------------------------------------------
(* Settling a teardown wakes every pass that waits for it: a success clears  *)
(* the forced reap, a failure of a boot-stale reap remembers it.             *)
-----------------------------------------------------------------------------
Awaits(p, j) == passes[p].pc = "reap" /\ passes[p].on = j
Settle(j, ok) ==
  /\ destroys' = [destroys EXCEPT ![j] = NoDestroy]
  /\ passes' = [p \in Passes |-> IF Awaits(p, j) THEN [passes[p] EXCEPT !.on = NoJob]
                                 ELSE passes[p]]
  /\ forceReap' = IF \A p \in Passes : ~Awaits(p, j) THEN forceReap
                  ELSE IF ok THEN forceReap \ {j}
                  ELSE IF \E p \in Passes : Awaits(p, j) /\ passes[p].stale
                  THEN forceReap \cup {j} ELSE forceReap

Quiet == UNCHANGED <<destroys, passes, forceReap>>

\* What a call to destroy does first: share the teardown in flight, tear the
\* record's container down, cancel the provision in flight, or nothing at all.
DestroyCall(j) ==
  CASE destroys[j].pc # "none" -> UNCHANGED <<destroys, cancelled>>
    [] destroys[j].pc = "none" /\ Recorded(j) ->
         /\ destroys' = [destroys EXCEPT ![j] = [pc |-> "teardown", box |-> jobs[j].box]]
         /\ UNCHANGED cancelled
    [] destroys[j].pc = "none" /\ ~Recorded(j) /\ Inflight(j) ->
         /\ destroys' = [destroys EXCEPT ![j] = [pc |-> "await", box |-> 0]]
         /\ cancelled' = cancelled \cup {j}
    [] OTHER -> UNCHANGED <<destroys, cancelled>>

\* The teardown of a container by its handle: all of it verified gone, or an
\* error that may leave any part of it behind.
BoxBecomes(b, state) == IF b = 0 THEN boxes ELSE [boxes EXCEPT ![b].state = state]
TornDown(j, b) == boxes' = BoxBecomes(b, "gone") /\ residue' = residue \ {j}
TeardownFails(j, b) ==
  /\ boxes' \in {boxes, BoxBecomes(b, "gone")}
               \cup {BoxBecomes(c, "exited") : c \in {b} \cap {i \in Ids : boxes[i].state = "up"}}
  /\ residue' \in {residue, residue \ {j}}

-----------------------------------------------------------------------------
(* Requests of the middleware.                                               *)
-----------------------------------------------------------------------------
\* A create of a job that is neither being torn down, nor recorded (answered
\* with its record), nor in flight (joined), below both caps.
Create(j) ==
  /\ serving /\ started < MaxCreates
  /\ ~Tracks(j)
  /\ Cardinality({k \in Jobs : Recorded(k)}) + Cardinality({k \in Jobs : Inflight(k)}) < MaxLive
  /\ Cardinality({k \in Jobs : Inflight(k)}) < MaxInflight
  /\ started' = started + 1
  /\ blind' = IF rebuilt THEN blind ELSE blind \cup {j}
  /\ creates' = [creates EXCEPT ![j] = [pc |-> "policy", id |-> started + 1]]
  /\ UNCHANGED <<jobs, cancelled, destroys, passes, turn, rebuilt, serving, forceReap, engine, proxy, faults>>

\* The lifetime is over, as the record counts it: from the provision's start,
\* or, of a record that a rebuild adopted, from the container's birth.
Outlived(j) == age[jobs[j].box] >= (IF jobs[j].adopted THEN 2 ELSE 1)

\* A renewal never extends the lease past the lifetime.
Renew(j) ==
  /\ serving /\ Recorded(j)
  /\ jobs' = [jobs EXCEPT ![j].lease = ~Outlived(j)]
  /\ UNCHANGED <<creates, cancelled, destroys, passes, turn, rebuilt, serving, forceReap, engine, proxy, started, blind, faults>>

Delete(j) ==
  /\ serving /\ DestroyCall(j)
  /\ UNCHANGED <<jobs, creates, passes, turn, rebuilt, serving, forceReap, engine, proxy, started, blind, faults>>

-----------------------------------------------------------------------------
(* A provision, await by await.                                              *)
-----------------------------------------------------------------------------
InCreate(j, pc) == creates[j].pc = pc
CreateGoes(j, pc) == creates' = [creates EXCEPT ![j].pc = pc]

\* The promise settles: the id leaves the in-flight map with its cancellation.
\* A teardown that awaited it is done if the create was cancelled, throws what
\* the create threw, and tears the job down if the create won the race.
CreateSettles(j, outcome) ==
  /\ creates' = [creates EXCEPT ![j] = NoCreate]
  /\ cancelled' = cancelled \ {j}
  /\ IF destroys[j].pc # "await" THEN Quiet
     ELSE IF outcome # "won" THEN Settle(j, outcome = "cancelled")
     ELSE /\ destroys' = [destroys EXCEPT ![j] = [pc |-> "teardown", box |-> creates[j].id]]
          /\ UNCHANGED <<passes, forceReap>>

\* A call to the proxy is given up at its deadline: it is still under way.
GivenUp(call) ==
  /\ losses < MaxLosses
  /\ losses' = losses + 1 /\ stray' = stray \cup {call}
PutOf(j, id) == [op |-> "put", job |-> j, id |-> id]
DeleteOf(j, id) == [op |-> "delete", job |-> j, id |-> id]

\* The policy fetch, and then the egress registration, which may have reached
\* the proxy although its answer is lost; either failure aborts the create.
PolicyFetched(j) ==
  /\ InCreate(j, "policy")
  /\ CreateGoes(j, "register")
  /\ Quiet /\ UNCHANGED <<jobs, cancelled, turn, rebuilt, serving, engine, proxy, started, blind, faults>>

PolicyRefused(j) ==
  /\ InCreate(j, "policy")
  /\ CreateSettles(j, "failed")
  /\ UNCHANGED <<jobs, turn, rebuilt, serving, engine, proxy, started, blind, faults>>

EgressRegistered(j) ==
  /\ InCreate(j, "register")
  /\ egress' = IF Proxied THEN [egress EXCEPT ![j] = creates[j].id] ELSE egress
  /\ CreateGoes(j, "resources")
  /\ Quiet /\ UNCHANGED <<jobs, cancelled, turn, rebuilt, serving, engine, stray, severed, losses, started, blind, faults>>

EgressRefused(j) ==
  /\ InCreate(j, "register") /\ Proxied
  /\ \/ egress' \in {egress, [egress EXCEPT ![j] = creates[j].id]} /\ UNCHANGED <<stray, losses>>
     \/ GivenUp(PutOf(j, creates[j].id)) /\ UNCHANGED egress
  /\ CreateSettles(j, "failed")
  /\ UNCHANGED <<jobs, turn, rebuilt, serving, engine, severed, started, blind, faults>>

\* The network, the volumes and the sidecar come first, then the container.
ResourcesMade(j) ==
  /\ InCreate(j, "resources")
  /\ residue' = residue \cup {j}
  /\ CreateGoes(j, "container")
  /\ Quiet /\ UNCHANGED <<jobs, cancelled, turn, rebuilt, serving, boxes, age, reported, proxy, started, blind, faults>>

\* The container runs: it is registered, unless a DELETE cancelled the create
\* meanwhile, in which case it is torn down again first.
ContainerStarted(j) ==
  /\ InCreate(j, "container")
  /\ boxes' = [boxes EXCEPT ![creates[j].id] = [job |-> j, state |-> "up"]]
  /\ IF j \in cancelled
     THEN CreateGoes(j, "undo") /\ Quiet /\ UNCHANGED <<jobs, cancelled>>
     ELSE /\ jobs' = [jobs EXCEPT ![j] = [box |-> creates[j].id, lease |-> TRUE, adopted |-> FALSE]]
          /\ CreateSettles(j, "won")
  /\ UNCHANGED <<turn, rebuilt, serving, age, residue, reported, proxy, started, blind, faults>>

\* The engine refuses at some step: what was made is rolled back, and whatever
\* survives the rollback is named in the error.
CreateFails(j) ==
  /\ creates[j].pc \in {"resources", "container"}
  /\ LET id == creates[j].id IN
     \/ residue' = residue \ {j} /\ UNCHANGED <<boxes, reported>>
     \/ residue' \in {residue, residue \cup {j}} /\ UNCHANGED <<boxes, reported>>
     \/ /\ InCreate(j, "container")
        /\ \E s \in {"up", "exited"} : boxes' = [boxes EXCEPT ![id] = [job |-> j, state |-> s]]
        /\ residue' \in {residue, residue \cup {j}}
        /\ reported' = reported \cup {id}
  /\ CreateGoes(j, "withdraw")
  /\ Quiet /\ UNCHANGED <<jobs, cancelled, turn, rebuilt, serving, age, proxy, started, blind, faults>>

\* Mutant of UndoFails: the error unwinds without registering the container.
UndoForgets(j) ==
  /\ InCreate(j, "undo")
  /\ TeardownFails(j, creates[j].id)
  /\ CreateSettles(j, "failed")
  /\ UNCHANGED <<jobs, turn, rebuilt, serving, age, reported, proxy, started, blind, faults>>

\* A teardown of the cancelled container that fails keeps its handle.
UndoFails(j) ==
  /\ InCreate(j, "undo")
  /\ TeardownFails(j, creates[j].id)
  /\ jobs' = [jobs EXCEPT ![j] = [box |-> creates[j].id, lease |-> TRUE, adopted |-> FALSE]]
  /\ CreateSettles(j, "failed")
  /\ UNCHANGED <<turn, rebuilt, serving, age, reported, proxy, started, blind, faults>>

UndoSucceeds(j) ==
  /\ InCreate(j, "undo")
  /\ TornDown(j, creates[j].id)
  /\ CreateGoes(j, "withdraw_cancelled")
  /\ Quiet /\ UNCHANGED <<jobs, cancelled, turn, rebuilt, serving, age, reported, proxy, started, blind, faults>>

\* withdrawEgress never throws: the registration is gone or left to its TTL, or
\* the call is given up under way.  It names the job, not the provision.
Withdrawn(j, id) ==
  \/ egress' \in {egress, [egress EXCEPT ![j] = 0]} /\ UNCHANGED <<stray, losses>>
  \/ Proxied /\ GivenUp(DeleteOf(j, id)) /\ UNCHANGED egress

CreateWithdraws(j) ==
  /\ creates[j].pc \in {"withdraw", "withdraw_cancelled"}
  /\ Withdrawn(j, creates[j].id)
  /\ CreateSettles(j, IF InCreate(j, "withdraw") THEN "failed" ELSE "cancelled")
  /\ UNCHANGED <<jobs, turn, rebuilt, serving, engine, severed, started, blind, faults>>

-----------------------------------------------------------------------------
(* A teardown, await by await.                                               *)
-----------------------------------------------------------------------------
\* Mutant of TeardownDone: egress is cut first, so a failed teardown leaves a
\* running container without it.
CutsFirst(j) ==
  /\ Destroying(j)
  /\ egress' = [egress EXCEPT ![j] = 0]
  /\ \/ TornDown(j, destroys[j].box) /\ destroys' = [destroys EXCEPT ![j].pc = "withdraw"]
        /\ UNCHANGED <<passes, forceReap>>
     \/ TeardownFails(j, destroys[j].box) /\ Settle(j, FALSE)
  /\ UNCHANGED <<jobs, creates, cancelled, turn, rebuilt, serving, age, reported,
                 stray, severed, losses, started, blind, faults>>

TeardownDone(j) ==
  /\ Destroying(j)
  /\ TornDown(j, destroys[j].box)
  /\ destroys' = [destroys EXCEPT ![j].pc = "withdraw"]
  /\ UNCHANGED <<jobs, creates, cancelled, passes, turn, rebuilt, serving, forceReap, age, reported, proxy, started, blind, faults>>

\* The engine call throws: the record is kept for a retry.
TeardownBreaks(j) ==
  /\ Destroying(j)
  /\ TeardownFails(j, destroys[j].box)
  /\ Settle(j, FALSE)
  /\ UNCHANGED <<jobs, creates, cancelled, turn, rebuilt, serving, age, reported, proxy, started, blind, faults>>

\* Egress is withdrawn from the proven-gone container, then the record goes.
Forgets(j) ==
  /\ destroys[j].pc = "withdraw"
  /\ Withdrawn(j, destroys[j].box)
  /\ jobs' = [jobs EXCEPT ![j] = IF @.box = destroys[j].box THEN NoRecord ELSE @]
  /\ Settle(j, TRUE)
  /\ UNCHANGED <<creates, cancelled, turn, rebuilt, serving, engine, severed, started, blind, faults>>

-----------------------------------------------------------------------------
(* The reaper.  A pass that outruns its deadline is abandoned, not cancelled:*)
(* it goes on while later passes run.                                        *)
-----------------------------------------------------------------------------
At(p, pc) == passes[p].pc = pc
Fresh(p) == p = CHOOSE q \in Passes : At(q, "none")

\* Mutant of Expired: only the lease is looked at, never the lifetime.
LeaseOver(j) == ~jobs[j].lease
Expired(j) == ~jobs[j].lease \/ Outlived(j)

\* A periodic pass: the forced reaps, then the records of one listing whose
\* lease or lifetime was over when the pass began.
SweepStarts(p) ==
  /\ turn = {} /\ At(p, "none") /\ Fresh(p) /\ rebuilt
  /\ turn' = {p}
  /\ passes' = [passes EXCEPT ![p] = [NoPass EXCEPT !.pc = "reap", !.force = forceReap,
                   !.todo = {[job |-> j, box |-> jobs[j].box] : j \in {k \in Jobs : Recorded(k) /\ Expired(k)}}]]
  /\ UNCHANGED <<jobs, creates, cancelled, destroys, rebuilt, serving, forceReap, engine, proxy, started, blind, faults>>

\* One container per job, of those the engine lists for it: which one of two
\* comes first in a listing is the engine's choice.
Listings ==
  {pick \in [Jobs -> {0} \cup Ids] : \A j \in Jobs :
     IF BoxesOf(j) = {} THEN pick[j] = 0 ELSE pick[j] \in BoxesOf(j)}

\* The boot rebuild, retried by the timer until one completes: every labelled
\* container is adopted with a graced lease, the exited ones are torn down next.
RebuildDone(p) ==
  /\ turn = {} /\ At(p, "none") /\ Fresh(p) /\ ~rebuilt
  /\ turn' = {p} /\ rebuilt' = TRUE
  /\ \E pick \in Listings :
       jobs' = [j \in Jobs |-> IF Tracks(j) \/ pick[j] = 0 THEN jobs[j]
                               ELSE [box |-> pick[j], lease |-> TRUE, adopted |-> TRUE]]
  /\ passes' = [passes EXCEPT ![p] = [NoPass EXCEPT !.pc = "reap",
                   !.force = {j \in Jobs : \E b \in BoxesOf(j) : boxes[b].state = "exited"}]]
  /\ UNCHANGED <<creates, cancelled, destroys, serving, forceReap, engine, proxy, started, blind, faults>>

\* One job of the listing: its record is looked at again when its turn comes,
\* and the teardown that DELETE uses is called and awaited.
ReapNext(p) ==
  /\ At(p, "reap") /\ passes[p].on = NoJob /\ passes[p].force = {}
  /\ \E t \in passes[p].todo :
       LET skip == jobs[t.job].box = t.box /\ ~Expired(t.job) IN
       /\ IF skip THEN UNCHANGED <<destroys, cancelled>> ELSE DestroyCall(t.job)
       /\ passes' = [passes EXCEPT ![p].todo = @ \ {t}, ![p].stale = FALSE,
                       ![p].on = IF skip \/ destroys'[t.job].pc = "none" THEN NoJob ELSE t.job]
  /\ UNCHANGED <<jobs, creates, turn, rebuilt, serving, forceReap, engine, proxy, started, blind, faults>>

\* A boot-stale job, named by its id alone.
ForceNext(p) ==
  /\ At(p, "reap") /\ passes[p].on = NoJob
  /\ \E j \in passes[p].force :
       /\ DestroyCall(j)
       /\ passes' = [passes EXCEPT ![p].force = @ \ {j}, ![p].stale = TRUE,
                       ![p].on = IF destroys'[j].pc = "none" THEN NoJob ELSE j]
       /\ forceReap' = IF destroys'[j].pc = "none" THEN forceReap \ {j} ELSE forceReap
  /\ UNCHANGED <<jobs, creates, turn, rebuilt, serving, engine, proxy, started, blind, faults>>

\* The orphan sweep reads the inventory once.
OrphansListed(p) ==
  /\ At(p, "reap") /\ passes[p].on = NoJob /\ passes[p].force = {} /\ passes[p].todo = {}
  /\ \E pick \in Listings :
       passes' = [passes EXCEPT ![p] = [NoPass EXCEPT !.pc = "orphans", !.todo =
                    {[job |-> j, box |-> pick[j]] : j \in {k \in Jobs : pick[k] # 0 \/ k \in residue}}]]
  /\ UNCHANGED <<jobs, creates, cancelled, destroys, turn, rebuilt, serving, forceReap, engine, proxy, started, blind, faults>>

\* Mutant of IsOrphan: a job counts as tracked only once it is in the registry.
Unrecorded(j) == ~Recorded(j)
IsOrphan(j) == ~Tracks(j)

\* One job of the inventory, skipped while it is tracked.
OrphanNext(p) ==
  /\ At(p, "orphans") /\ passes[p].on = NoJob
  /\ \E t \in passes[p].todo :
       passes' = [passes EXCEPT ![p].todo = @ \ {t},
                    ![p].on = IF IsOrphan(t.job) THEN t.job ELSE NoJob,
                    ![p].box = IF IsOrphan(t.job) THEN t.box ELSE 0]
  /\ UNCHANGED <<jobs, creates, cancelled, destroys, turn, rebuilt, serving, forceReap, engine, proxy, started, blind, faults>>

\* The teardown of an orphan by the handle of the listing; a failure is left to
\* the next sweep.
OrphanLeaves(p, torn) ==
  /\ At(p, "orphans") /\ passes[p].on # NoJob
  /\ IF torn THEN TornDown(passes[p].on, passes[p].box) ELSE TeardownFails(passes[p].on, passes[p].box)
  /\ passes' = [passes EXCEPT ![p].on = NoJob, ![p].box = 0]
  /\ UNCHANGED <<jobs, creates, cancelled, destroys, turn, rebuilt, serving, forceReap, age, reported, proxy, started, blind, faults>>

PassEnds(p) ==
  /\ At(p, "orphans") /\ passes[p].on = NoJob /\ passes[p].todo = {}
  /\ passes' = [passes EXCEPT ![p] = NoPass]
  /\ turn' = turn \ {p} /\ serving' = TRUE
  /\ UNCHANGED <<jobs, creates, cancelled, destroys, rebuilt, forceReap, engine, proxy, started, blind, faults>>

\* withDeadline gives up on the pass; the flag is free, the pass goes on.
PassAbandoned(p) ==
  /\ p \in turn /\ \E q \in Passes : At(q, "none")
  /\ faults < MaxFaults
  /\ faults' = faults + 1
  /\ turn' = {} /\ serving' = TRUE
  /\ UNCHANGED <<jobs, creates, cancelled, destroys, passes, rebuilt, forceReap, engine, proxy, started, blind>>

\* The listing of the first rebuild fails: the daemon serves, and the timer
\* tries again.
BootGivesUp ==
  /\ ~rebuilt /\ ~serving /\ faults < MaxFaults
  /\ serving' = TRUE /\ faults' = faults + 1
  /\ UNCHANGED <<jobs, creates, cancelled, destroys, passes, turn, rebuilt, forceReap, engine, proxy, started, blind>>

-----------------------------------------------------------------------------
(* The environment: time, exiting runners and a restart of the daemon.       *)
-----------------------------------------------------------------------------
LeaseLapses(j) ==
  /\ Recorded(j) /\ jobs[j].lease
  /\ jobs' = [jobs EXCEPT ![j].lease = FALSE]
  /\ UNCHANGED <<creates, cancelled, destroys, passes, turn, rebuilt, serving, forceReap, engine, proxy, started, blind, faults>>

\* What there is of a provision grows older: its container, which is born after
\* the provision has begun, its record, which may outlast it, or its registration.
GrowsOld(b) ==
  /\ \/ boxes[b].state \in {"up", "exited"} /\ age[b] < 2
     \/ (\E j \in Jobs : jobs[j].box = b) /\ age[b] < 2
     \/ (\E j \in Jobs : egress[j] = b) /\ age[b] < 1
  /\ age' = [age EXCEPT ![b] = @ + 1]
  /\ UNCHANGED <<memory, boxes, residue, reported, proxy, started, blind, faults>>

RunnerExits(b) ==
  /\ boxes[b].state = "up"
  /\ boxes' = [boxes EXCEPT ![b].state = "exited"]
  /\ UNCHANGED <<memory, age, residue, reported, proxy, started, blind, faults>>

\* A registration is dropped at its expiry, which the lifetime sets.
EgressLapses(j) ==
  /\ egress[j] # 0 /\ age[egress[j]] >= 1
  /\ egress' = [egress EXCEPT ![j] = 0]
  /\ UNCHANGED <<memory, engine, stray, severed, losses, started, blind, faults>>

\* The proxy keeps its registrations in memory, and nobody makes them again.
ProxyRestarts ==
  /\ losses < MaxLosses
  /\ losses' = losses + 1
  /\ egress' = [j \in Jobs |-> 0]
  /\ severed' = severed \cup ({egress[j] : j \in Jobs} \ {0})
  /\ UNCHANGED <<memory, engine, stray, started, blind, faults>>

\* A call whose caller is gone takes effect on whatever the job has by now.
StrayArrives(c) ==
  /\ stray' = stray \ {c}
  /\ egress' = [egress EXCEPT ![c.job] = IF c.op = "put" THEN c.id ELSE 0]
  /\ severed' = severed \cup {i \in {egress[c.job]} : i > c.id}
  /\ UNCHANGED <<memory, engine, losses, started, blind, faults>>

CallsUnderWay ==
  IF ~Proxied THEN {} ELSE
  {PutOf(j, creates[j].id) : j \in {k \in Jobs : InCreate(k, "register")}}
  \cup {DeleteOf(j, creates[j].id) : j \in {k \in Jobs : creates[k].pc \in {"withdraw", "withdraw_cancelled"}}}
  \cup {DeleteOf(j, destroys[j].box) : j \in {k \in Jobs : destroys[k].pc = "withdraw"}}

\* The daemon dies with all it remembers; the engine and the proxy go on, and
\* any of the calls under way may still reach the proxy.
Restarts ==
  /\ faults < MaxFaults
  /\ faults' = faults + 1
  /\ \E calls \in SUBSET CallsUnderWay :
       /\ losses + Cardinality(calls) <= MaxLosses
       /\ losses' = losses + Cardinality(calls) /\ stray' = stray \cup calls
  /\ jobs' = [j \in Jobs |-> NoRecord] /\ creates' = [j \in Jobs |-> NoCreate]
  /\ cancelled' = {} /\ destroys' = [j \in Jobs |-> NoDestroy]
  /\ passes' = [p \in Passes |-> NoPass] /\ turn' = {} /\ rebuilt' = FALSE /\ serving' = FALSE /\ forceReap' = {}
  /\ UNCHANGED <<engine, egress, severed, started, blind>>

Next ==
  \/ \E j \in Jobs :
       \/ Create(j) \/ Renew(j) \/ Delete(j)
       \/ PolicyFetched(j) \/ PolicyRefused(j) \/ EgressRegistered(j) \/ EgressRefused(j)
       \/ ResourcesMade(j) \/ ContainerStarted(j) \/ CreateFails(j)
       \/ UndoFails(j) \/ UndoSucceeds(j) \/ CreateWithdraws(j)
       \/ TeardownDone(j) \/ TeardownBreaks(j) \/ Forgets(j) \/ LeaseLapses(j) \/ EgressLapses(j)
  \/ \E p \in Passes :
       \/ SweepStarts(p) \/ RebuildDone(p) \/ ReapNext(p) \/ ForceNext(p)
       \/ OrphansListed(p) \/ OrphanNext(p) \/ OrphanLeaves(p, TRUE) \/ OrphanLeaves(p, FALSE)
       \/ PassEnds(p) \/ PassAbandoned(p)
  \/ \E b \in Ids : GrowsOld(b) \/ RunnerExits(b)
  \/ \E c \in stray : StrayArrives(c)
  \/ BootGivesUp \/ Restarts \/ ProxyRestarts

Spec == Init /\ [][Next]_vars

(* Handlers and passes run to their end; the engine lets go of a container   *)
(* it is asked about again and again; the boot listing succeeds some day.    *)
FairSpec ==
  /\ Spec
  /\ \A j \in Jobs :
       /\ WF_vars(PolicyFetched(j) \/ PolicyRefused(j)) /\ WF_vars(EgressRegistered(j) \/ EgressRefused(j))
       /\ WF_vars(ResourcesMade(j) \/ ContainerStarted(j) \/ CreateFails(j))
       /\ WF_vars(UndoFails(j) \/ UndoSucceeds(j)) /\ WF_vars(CreateWithdraws(j))
       /\ SF_vars(TeardownDone(j)) /\ WF_vars(TeardownBreaks(j)) /\ WF_vars(Forgets(j))
  /\ \A p \in Passes :
       /\ SF_vars(SweepStarts(p)) /\ WF_vars(RebuildDone(p)) /\ WF_vars(ReapNext(p)) /\ WF_vars(ForceNext(p))
       /\ WF_vars(OrphansListed(p)) /\ WF_vars(OrphanNext(p)) /\ SF_vars(OrphanLeaves(p, TRUE))
       /\ WF_vars(PassEnds(p))
  /\ \A b \in Ids : WF_vars(GrowsOld(b))

-----------------------------------------------------------------------------
(* Properties.                                                               *)
-----------------------------------------------------------------------------
Standing == {b \in Ids : boxes[b].state \in {"up", "exited"}}
RollbackFailed(j) == \E b \in reported : boxes[b].job = j

\* The daemon holds a handle on every container it made, through restarts too:
\* it is in the registry or in the hands of the provision that made it.  What a
\* failed rollback left (its error names it), and what a daemon that served
\* before it could read the engine did not adopt, wait for a sweep.
HandlesAreKept ==
  rebuilt => \A b \in Standing \ reported :
               LET j == boxes[b].job IN
               jobs[j].box = b \/ creates[j].id = b \/ RollbackFailed(j) \/ j \in blind

\* A running container that is not being torn down may reach the network: its
\* own registration, and no other provision's, is in force at the proxy, until
\* its lifetime is over or the proxy restarts or a late call of an earlier
\* provision arrives: no step of the daemon cuts it off.
EgressWhileRunning ==
  Proxied => \A j \in Jobs :
    LET b == jobs[j].box IN
    /\ Recorded(j) /\ boxes[b].state = "up"
    /\ destroys[j].pc = "none" /\ ~RollbackFailed(j) /\ j \notin blind
    /\ age[b] = 0 /\ b \notin severed
    => egress[j] = b

\* The orphan sweep never touches the container of a record.
OrphanSweepSparesRecords ==
  [][\A p \in Passes : OrphanLeaves(p, TRUE) \/ OrphanLeaves(p, FALSE)
       => \A j \in Jobs : Recorded(j) => boxes'[jobs[j].box] = boxes[jobs[j].box]]_vars

\* The daemon is its own authority: whatever the middleware does, and however
\* often it restarts, every container is removed in the end (provisions are
\* bounded here, so from some point on none stands).
EveryContainerEnds == <>[](Standing = {})
=============================================================================
