---------------------------- MODULE DaemonProofs ----------------------------
(***************************************************************************)
(* The runner daemon, for every number of jobs, reaper passes, provisions  *)
(* and restarts: it holds a handle on every container it made, a running   *)
(* container has its egress, and the orphan sweep spares what is recorded. *)
(***************************************************************************)
EXTENDS RunnerDaemon, TLAPS

BoxRef == 0..MaxCreates
CreatePc == {"none", "policy", "register", "resources", "container", "undo", "withdraw", "withdraw_cancelled"}
DestroyPc == {"none", "await", "teardown", "withdraw"}
Reference == [job : Jobs, box : BoxRef]
Pass == [pc : {"none", "reap", "orphans"}, force : SUBSET Jobs, todo : SUBSET Reference,
         on : Jobs \cup {NoJob}, box : BoxRef, stale : BOOLEAN]
Box == [job : Jobs \cup {NoJob}, state : {"none", "up", "exited", "gone"}]

RegistryTypes ==
  /\ jobs \in [Jobs -> [box : BoxRef, lease : BOOLEAN, adopted : BOOLEAN]]
  /\ \A j \in Jobs : jobs[j].box = 0 => jobs[j] = NoRecord
CreateTypes ==
  /\ creates \in [Jobs -> [pc : CreatePc, id : BoxRef]] /\ started \in BoxRef
  /\ \A j \in Jobs : creates[j].pc = "none" => creates[j].id = 0
TeardownTypes ==
  /\ destroys \in [Jobs -> [pc : DestroyPc, box : BoxRef]]
  /\ passes \in [Passes -> Pass]
EngineTypes ==
  /\ boxes \in [Ids -> Box] /\ reported \subseteq Ids /\ egress \in [Jobs -> BoxRef]
  /\ age \in [Ids -> 0..2] /\ stray \subseteq [op : {"put", "delete"}, job : Jobs, id : Ids]
  /\ \A b \in Ids : boxes[b].state # "none" => boxes[b].job \in Jobs

DaemonTypes ==
  RegistryTypes /\ CreateTypes /\ TeardownTypes /\ EngineTypes /\ rebuilt \in BOOLEAN

\* A container that was made for a job, whatever became of it.
Owns(j, b) == b \in Ids /\ boxes[b].job = j /\ boxes[b].state # "none"

\* A provision in flight has a number of its own and no record beside it.
Numbering ==
  /\ \A j \in Jobs : Inflight(j) => creates[j].id \in 1..started /\ jobs[j].box = 0
  /\ \A j, k \in Jobs : Inflight(j) /\ creates[j].id = creates[k].id => j = k
  /\ \A b \in Ids : b > started => boxes[b].state = "none"
  /\ \A b \in reported : boxes[b].state # "none"

\* A provision whose registration time, the proxy or a late call may have taken away.
Excused(b) == age[b] >= 1 \/ b \in severed
ExcusedNext(b) == age'[b] >= 1 \/ b \in severed'

\* What the engine has of a provision in flight, step by step.
Stage(j) ==
  /\ creates[j].pc \in {"policy", "register", "resources", "container"} => boxes[creates[j].id].state = "none"
  /\ creates[j].pc = "undo" => Owns(j, creates[j].id)
  /\ creates[j].pc \in {"withdraw", "withdraw_cancelled"} =>
       \/ boxes[creates[j].id].state = "none"
       \/ Owns(j, creates[j].id) /\ (boxes[creates[j].id].state = "gone" \/ creates[j].id \in reported)
  /\ Proxied /\ creates[j].pc \in {"resources", "container", "undo"} =>
       egress[j] = creates[j].id \/ Excused(creates[j].id)

\* A record names a container of its job, a teardown the container of the record; before
\* the engine was read there is neither, but for the jobs taken on blindly.
Records(j) ==
  /\ jobs[j].box # 0 => Owns(j, jobs[j].box)
  /\ destroys[j].pc \in {"teardown", "withdraw"} => jobs[j].box # 0 /\ destroys[j].box = jobs[j].box
  /\ destroys[j].pc = "withdraw" => boxes[jobs[j].box].state = "gone"
  /\ ~rebuilt /\ (jobs[j].box # 0 \/ Inflight(j) \/ destroys[j].pc # "none") => j \in blind

\* What a pass has listed was made for the job it is listed under; the orphan it tears
\* down is neither recorded nor in flight.
PassAt(p) ==
  /\ \A t \in passes[p].todo : t.box # 0 => Owns(t.job, t.box)
  /\ passes[p].box # 0 =>
       LET j == passes[p].on IN
       /\ passes[p].pc = "orphans" /\ j \in Jobs /\ Owns(j, passes[p].box)
       /\ jobs[j].box # passes[p].box /\ creates[j].id # passes[p].box
  /\ passes[p].pc # "none" => rebuilt

\* Jobs of which the daemon has lost nothing.
Known(j) == ~RollbackFailed(j) /\ j \notin blind

OneBox == \A b, c \in Standing : boxes[b].job = boxes[c].job /\ Known(boxes[b].job) => b = c

Connected ==
  Proxied => \A b \in Ids : boxes[b].state = "up" /\ Known(boxes[b].job) =>
               egress[boxes[b].job] = b \/ Excused(b)

\* A stray call comes from an earlier provision than the one in flight or running.
Late ==
  \A c \in stray :
    /\ Inflight(c.job) => c.id < creates[c.job].id
    /\ \A b \in Ids : boxes[b].state = "up" /\ boxes[b].job = c.job /\ Known(c.job) => c.id < b
    /\ c.id <= started

DaemonInv ==
  /\ DaemonTypes /\ Numbering
  /\ \A j \in Jobs : Stage(j) /\ Records(j)
  /\ \A p \in Passes : PassAt(p)
  /\ OneBox /\ Connected /\ Late /\ HandlesAreKept

(***************************************************************************)
(* Types.                                                                  *)
(***************************************************************************)
LEMMA TeardownSettles ==
  ASSUME DaemonTypes, NEW j \in Jobs, NEW ok, Settle(j, ok)
  PROVE  TeardownTypes'
<1>1. destroys' \in [Jobs -> [pc : DestroyPc, box : BoxRef]]
  BY DaemonAssumption DEF Settle, DaemonTypes, TeardownTypes, NoDestroy, DestroyPc, BoxRef
<1>2. ASSUME NEW p \in Passes PROVE [passes[p] EXCEPT !.on = NoJob] \in Pass /\ passes[p] \in Pass
  BY DEF DaemonTypes, TeardownTypes, Pass
<1>3. passes' \in [Passes -> Pass]
  BY <1>2 DEF Settle
<1> QED BY <1>1, <1>3 DEF TeardownTypes

LEMMA DestroyCallTyped ==
  ASSUME DaemonTypes, NEW j \in Jobs, DestroyCall(j)
  PROVE  destroys' \in [Jobs -> [pc : DestroyPc, box : BoxRef]]
<1>1. [pc |-> "teardown", box |-> jobs[j].box] \in [pc : DestroyPc, box : BoxRef]
      /\ [pc |-> "await", box |-> 0] \in [pc : DestroyPc, box : BoxRef]
  BY DaemonAssumption DEF DaemonTypes, RegistryTypes, BoxRef, DestroyPc
<1>2. \/ UNCHANGED destroys
      \/ destroys' = [destroys EXCEPT ![j] = [pc |-> "teardown", box |-> jobs[j].box]]
      \/ destroys' = [destroys EXCEPT ![j] = [pc |-> "await", box |-> 0]]
  BY DEF DestroyCall
<1> QED BY <1>1, <1>2 DEF DaemonTypes, TeardownTypes

LEMMA CreateSettlesTyped ==
  ASSUME DaemonTypes, NEW j \in Jobs, NEW outcome, CreateSettles(j, outcome), UNCHANGED started
  PROVE  CreateTypes' /\ TeardownTypes'
<1>1. NoCreate \in [pc : CreatePc, id : BoxRef] /\ NoCreate.id = 0
  BY DaemonAssumption DEF NoCreate, CreatePc, BoxRef
<1>2. CreateTypes'
  BY <1>1 DEF CreateSettles, DaemonTypes, CreateTypes
<1>3. CASE Quiet
  BY <1>2, <1>3 DEF Quiet, DaemonTypes, TeardownTypes
<1>4. CASE Settle(j, outcome = "cancelled")
  BY <1>2, <1>4, TeardownSettles
<1>5. CASE destroys' = [destroys EXCEPT ![j] = [pc |-> "teardown", box |-> creates[j].id]] /\ UNCHANGED passes
  <2>1. [pc |-> "teardown", box |-> creates[j].id] \in [pc : DestroyPc, box : BoxRef]
    BY DEF DaemonTypes, CreateTypes, DestroyPc
  <2> QED BY <1>2, <1>5, <2>1 DEF DaemonTypes, TeardownTypes
<1> QED BY <1>3, <1>4, <1>5 DEF CreateSettles

LEMMA CreateGoesTyped ==
  ASSUME DaemonTypes, NEW j \in Jobs, NEW pc \in CreatePc \ {"none"}, CreateGoes(j, pc), UNCHANGED started
  PROVE  CreateTypes'
<1>1. [creates[j] EXCEPT !.pc = pc] \in [pc : CreatePc, id : BoxRef]
  BY DEF DaemonTypes, CreateTypes
<1> QED BY <1>1 DEF CreateGoes, DaemonTypes, CreateTypes

\* A container in the hands of a create or teardown becomes another state.
LEMMA BoxBecomesTyped ==
  ASSUME DaemonTypes, NEW b \in BoxRef, NEW state \in {"up", "exited", "gone"},
         b = 0 \/ boxes[b].state # "none",
         boxes' = BoxBecomes(b, state), UNCHANGED <<reported, age, egress, stray>>
  PROVE  EngineTypes'
<1>1. CASE b = 0
  BY <1>1 DEF BoxBecomes, DaemonTypes, EngineTypes
<1>2. CASE b # 0
  <2>1. b \in Ids
    BY <1>2, DaemonAssumption DEF BoxRef, Ids
  <2>2. [boxes[b] EXCEPT !.state = state] \in Box /\ boxes[b].job \in Jobs
    BY <1>2, <2>1 DEF DaemonTypes, EngineTypes, Box
  <2>3. boxes' = [boxes EXCEPT ![b] = [boxes[b] EXCEPT !.state = state]]
    BY <1>2 DEF BoxBecomes
  <2> QED BY <2>1, <2>2, <2>3 DEF DaemonTypes, EngineTypes, Box
<1> QED BY <1>1, <1>2

LEMMA TeardownTyped ==
  ASSUME DaemonTypes, NEW j \in Jobs, NEW b \in BoxRef, b = 0 \/ boxes[b].state # "none",
         TornDown(j, b) \/ TeardownFails(j, b), UNCHANGED <<reported, age, egress, stray>>
  PROVE  EngineTypes'
<1>1. CASE boxes' = BoxBecomes(b, "gone")
  BY <1>1, BoxBecomesTyped
<1>2. CASE UNCHANGED boxes
  BY <1>2 DEF DaemonTypes, EngineTypes
<1>3. CASE boxes' = BoxBecomes(b, "exited")
  BY <1>3, BoxBecomesTyped
<1> QED BY <1>1, <1>2, <1>3 DEF TornDown, TeardownFails

(***************************************************************************)
(* Steps that bring nothing new: containers wear down, records keep theirs. *)
(***************************************************************************)
Worn(b) ==
  \/ boxes'[b] = boxes[b]
  \/ /\ boxes[b].state # "none" /\ boxes'[b].job = boxes[b].job
     /\ boxes'[b].state = "gone" \/ (boxes[b].state = "up" /\ boxes'[b].state = "exited")

Modest ==
  /\ UNCHANGED <<creates, egress, stray, reported, started, rebuilt, blind>>
  /\ \A b \in Ids : Excused(b) => ExcusedNext(b)
  /\ \A j \in Jobs : jobs'[j].box = jobs[j].box
  /\ \A b \in Ids : Worn(b)

LEMMA RecordedByBox ==
  ASSUME DaemonTypes, NEW j \in Jobs
  PROVE  Recorded(j) <=> jobs[j].box # 0
BY DEF DaemonTypes, RegistryTypes, Recorded, NoRecord

LEMMA ModestKeeps ==
  ASSUME DaemonInv, Modest
  PROVE  Numbering' /\ (\A j \in Jobs : Stage(j)') /\ OneBox' /\ Connected' /\ Late' /\ HandlesAreKept'
<1>1. /\ \A j \in Jobs : Inflight(j)' = Inflight(j)
      /\ \A j \in Jobs : creates[j].id \in BoxRef /\ (Inflight(j) => creates[j].id \in Ids)
  BY DEF Modest, Inflight, DaemonInv, DaemonTypes, CreateTypes, Numbering, BoxRef, Ids
<1>2. \A b \in Ids : /\ boxes'[b].state = "none" <=> boxes[b].state = "none"
                     /\ boxes[b].state # "none" => boxes'[b].job = boxes[b].job
                     /\ boxes'[b].state = "up" => boxes[b].state = "up"
                     /\ boxes[b].state = "gone" => boxes'[b].state = "gone"
  BY DEF Modest, Worn, Excused, ExcusedNext
<1>3. reported \subseteq Ids
  BY DEF DaemonInv, DaemonTypes, EngineTypes
<1>4. Numbering'
  <2>1. \A b \in reported : boxes'[b].state # "none"
    BY <1>2, <1>3 DEF DaemonInv, Numbering
  <2> QED BY <1>1, <1>2, <2>1 DEF Modest, DaemonInv, Numbering
<1>5. ASSUME NEW j \in Jobs PROVE Stage(j)'
  <2>1. Stage(j)
    BY DEF DaemonInv
  <2>2. CASE ~Inflight(j)
    BY <2>2 DEF Modest, Stage, Inflight
  <2>3. CASE Inflight(j)
    <3>1. creates[j].id \in Ids /\ creates' = creates /\ egress' = egress /\ reported' = reported
      BY <1>1, <2>3 DEF Modest
    <3>2. Owns(j, creates[j].id) => (Owns(j, creates[j].id))'
      BY <1>2, <3>1 DEF Owns
    <3>3. Excused(creates[j].id) => ExcusedNext(creates[j].id)
      BY <3>1 DEF Modest, Excused, ExcusedNext
    <3> QED BY <1>2, <2>1, <3>1, <3>2, <3>3 DEF Stage, Excused, ExcusedNext
  <2> QED BY <2>2, <2>3
<1>6. Standing' \subseteq Standing /\ \A b \in Standing : boxes[b].state # "none"
  <2>1. ASSUME NEW b \in Ids, boxes'[b].state \in {"up", "exited"} PROVE boxes[b].state \in {"up", "exited"}
    BY <2>1 DEF Modest, Worn, Excused, ExcusedNext
  <2> QED BY <2>1 DEF Standing
<1>7. \A k : Known(k)' <=> Known(k)
  <2>1. \A b \in reported : boxes'[b].job = boxes[b].job
    BY <1>2, <1>3 DEF DaemonInv, Numbering
  <2> QED BY <2>1 DEF Known, RollbackFailed, Modest
<1>8. OneBox'
  <2>1. \A b \in Standing' : b \in Standing /\ boxes'[b].job = boxes[b].job
    BY <1>2, <1>6 DEF Standing
  <2> QED BY <1>7, <2>1 DEF DaemonInv, OneBox
<1>9. Connected'
  <2>1. \A b \in Ids : boxes'[b].state = "up" => boxes[b].state = "up" /\ boxes'[b].job = boxes[b].job
    BY <1>2
  <2>2. Proxied => \A b \in Ids : boxes[b].state = "up" /\ Known(boxes[b].job) =>
          egress'[boxes[b].job] = b \/ ExcusedNext(b)
    BY DEF DaemonInv, Connected, Modest
  <2> QED BY <1>7, <2>1, <2>2 DEF Connected, Excused, ExcusedNext
<1>10. HandlesAreKept'
  <2>1. \A b \in Standing' :
          b \in Standing /\ b \in Ids /\ boxes'[b].job = boxes[b].job /\ boxes[b].job \in Jobs
    BY <1>2, <1>6 DEF Standing, DaemonInv, DaemonTypes, EngineTypes
  <2>2. rebuilt => \A b \in Standing \ reported :
          Known(boxes[b].job) => jobs[boxes[b].job].box = b \/ creates[boxes[b].job].id = b
    BY DEF DaemonInv, HandlesAreKept, Known
  <2>3. rebuilt' => \A b \in Standing' \ reported' :
          (Known(boxes[b].job))' => jobs'[boxes'[b].job].box = b \/ creates'[boxes'[b].job].id = b
    BY <1>7, <2>1, <2>2 DEF Modest
  <2> QED BY <2>3 DEF HandlesAreKept, Known
<1>11. Late'
  <2>1. ASSUME NEW c \in stray
        PROVE  /\ Inflight(c.job)' => c.id < creates'[c.job].id
               /\ \A b \in Ids : boxes'[b].state = "up" /\ boxes'[b].job = c.job /\ (Known(c.job))' => c.id < b
               /\ c.id <= started'
    <3>1. /\ Inflight(c.job) => c.id < creates[c.job].id
          /\ \A b \in Ids : boxes[b].state = "up" /\ boxes[b].job = c.job /\ Known(c.job) => c.id < b
          /\ c.id <= started
      BY DEF DaemonInv, Late
    <3>2. (Known(c.job))' => Known(c.job)
      BY <1>7
    <3>3. Inflight(c.job)' => Inflight(c.job)
      BY DEF Modest, Inflight
    <3> QED BY <1>2, <3>1, <3>2, <3>3 DEF Modest
  <2> QED BY <2>1 DEF Late, Modest
<1> QED BY <1>4, <1>5, <1>8, <1>9, <1>10, <1>11

\* A teardown that is called, goes on or settles is still that of the record.
LEMMA RecordsKeep ==
  ASSUME DaemonInv, Modest, NEW j \in Jobs,
         \/ destroys'[j] = destroys[j]
         \/ destroys'[j].pc = "none"
         \/ destroys'[j].pc = "await" /\ Inflight(j)
         \/ destroys'[j].pc = "teardown" /\ jobs[j].box # 0 /\ destroys'[j].box = jobs[j].box
         \/ /\ destroys'[j].pc = "withdraw" /\ Destroying(j) /\ destroys'[j].box = destroys[j].box
            /\ boxes'[destroys[j].box].state = "gone"
  PROVE  Records(j)'
<1>1. /\ Records(j) /\ jobs'[j].box = jobs[j].box /\ creates'[j] = creates[j]
      /\ rebuilt' = rebuilt /\ blind' = blind
  BY DEF DaemonInv, Modest
<1>2. \A b \in Ids : /\ Owns(j, b) => (Owns(j, b))'
                     /\ boxes[b].state = "gone" => boxes'[b].state = "gone"
  BY DEF Modest, Worn, Owns
<1>3. jobs[j].box # 0 => jobs[j].box \in Ids
  BY <1>1 DEF Records, Owns
<1> QED BY <1>1, <1>2, <1>3 DEF Records, Inflight, Destroying, Owns

(***************************************************************************)
(* What a pass has in hand.                                                *)
(***************************************************************************)
Lasting ==
  \A b \in Ids : boxes[b].state # "none" => boxes'[b].job = boxes[b].job /\ boxes'[b].state # "none"

\* What is nobody's handle does not become one.
Strangers ==
  \A j \in Jobs : \A b \in Ids :
    boxes[b].state # "none" /\ jobs[j].box # b /\ creates[j].id # b => jobs'[j].box # b /\ creates'[j].id # b

PassCalm(p) ==
  /\ passes'[p].todo \subseteq passes[p].todo
  /\ passes'[p].pc # "none" => passes[p].pc # "none"
  /\ \/ passes'[p].box = 0
     \/ passes'[p].box = passes[p].box /\ passes'[p].on = passes[p].on /\ passes'[p].pc = passes[p].pc

LEMMA PassKeeps ==
  ASSUME NEW p \in Passes, PassAt(p), Lasting, Strangers, PassCalm(p), rebuilt => rebuilt'
  PROVE  PassAt(p)'
<1>1. \A j, b : Owns(j, b) => (Owns(j, b))'
  BY DEF Lasting, Owns
<1>2. \A t \in passes'[p].todo : t.box # 0 => (Owns(t.job, t.box))'
  BY <1>1 DEF PassCalm, PassAt
<1>3. ASSUME passes'[p].box # 0
      PROVE  /\ passes'[p].pc = "orphans" /\ passes'[p].on \in Jobs /\ (Owns(passes[p].on, passes[p].box))'
             /\ jobs'[passes[p].on].box # passes[p].box /\ creates'[passes[p].on].id # passes[p].box
             /\ passes'[p].on = passes[p].on /\ passes'[p].box = passes[p].box
  <2>1. passes'[p].box = passes[p].box /\ passes'[p].on = passes[p].on /\ passes'[p].pc = passes[p].pc
    BY <1>3 DEF PassCalm
  <2>2. /\ passes[p].pc = "orphans" /\ passes[p].on \in Jobs /\ Owns(passes[p].on, passes[p].box)
        /\ jobs[passes[p].on].box # passes[p].box /\ creates[passes[p].on].id # passes[p].box
    BY <1>3, <2>1 DEF PassAt
  <2>3. passes[p].box \in Ids /\ boxes[passes[p].box].state # "none"
    BY <2>2 DEF Owns
  <2> QED BY <1>1, <2>1, <2>2, <2>3 DEF Strangers
<1>4. passes'[p].pc # "none" => rebuilt'
  BY DEF PassCalm, PassAt
<1> QED BY <1>2, <1>3, <1>4 DEF PassAt, Owns

LEMMA ModestLasts ==
  ASSUME Modest
  PROVE  Lasting /\ Strangers /\ (rebuilt => rebuilt')
BY DEF Modest, Worn, Lasting, Strangers

\* A teardown that settles wakes passes of the reap, which hold no container.
LEMMA SettleIsCalm ==
  ASSUME TeardownTypes, NEW p \in Passes, PassAt(p), NEW j \in Jobs, NEW ok,
         Settle(j, ok) \/ Quiet \/ UNCHANGED passes
  PROVE  PassCalm(p)
<1>1. CASE passes'[p] = passes[p]
  BY <1>1 DEF PassCalm
<1>2. CASE Awaits(p, j) /\ passes'[p] = [passes[p] EXCEPT !.on = NoJob]
  <2>1. passes[p] \in Pass /\ passes[p].pc = "reap"
    BY <1>2 DEF TeardownTypes, Awaits
  <2>2. passes[p].box = 0
    BY <2>1 DEF PassAt
  <2> QED BY <1>2, <2>1, <2>2 DEF PassCalm, Pass
<1> QED BY <1>1, <1>2 DEF Settle, Quiet

(***************************************************************************)
(* Steps of a provision.                                                   *)
(***************************************************************************)
Stands(b) == boxes[b].state \in {"up", "exited"}

\* A provision of a job of which nothing was lost has made no container yet, or its
\* own, which is being undone.
LEMMA ProvisionIsAlone ==
  ASSUME DaemonInv, NEW j \in Jobs, Inflight(j), NEW b \in Ids, Stands(b), boxes[b].job = j, Known(j)
  PROVE  b = creates[j].id
<1>1. Stage(j) /\ Records(j) /\ jobs[j].box = 0
  BY DEF DaemonInv, Numbering
<1>2. rebuilt
  BY <1>1 DEF Records, Known
<1>3. CASE b \in reported
  BY <1>3 DEF Known, RollbackFailed
<1>4. CASE b \notin reported
  <2>1. b \in Standing
    BY DEF Standing, Stands
  <2>2. jobs[j].box = b \/ creates[j].id = b
    BY <1>2, <1>4, <2>1 DEF DaemonInv, HandlesAreKept, Known
  <2> QED BY <1>1, <2>2 DEF Ids
<1> QED BY <1>3, <1>4

\* Where a call to the proxy is under way, the job has no running container.
LEMMA NothingRuns ==
  ASSUME DaemonInv, NEW j \in Jobs, creates[j].pc \in {"register", "withdraw", "withdraw_cancelled"},
         NEW b \in Ids, boxes[b].state = "up", boxes[b].job = j
  PROVE  ~Known(j)
<1>1. ASSUME Known(j) PROVE FALSE
  <2>1. Inflight(j) /\ b = creates[j].id
    BY <1>1, ProvisionIsAlone DEF Inflight, Stands
  <2>2. Stage(j)
    BY DEF DaemonInv
  <2> QED BY <1>1, <2>1, <2>2 DEF Stage, Known, RollbackFailed
<1> QED BY <1>1

LEMMA NothingStands ==
  ASSUME DaemonInv, NEW j \in Jobs, destroys[j].pc = "withdraw",
         NEW b \in Ids, Stands(b), boxes[b].job = j
  PROVE  ~Known(j)
<1>1. ASSUME Known(j) PROVE FALSE
  <2>1. /\ Records(j) /\ jobs[j].box # 0 /\ boxes[jobs[j].box].state = "gone" /\ ~Inflight(j) /\ creates[j].id = 0
    BY DEF DaemonInv, Records, Numbering, DaemonTypes, CreateTypes, Inflight
  <2>2. rebuilt /\ b \notin reported
    BY <1>1, <2>1 DEF Known, Records, RollbackFailed
  <2>3. jobs[j].box = b \/ creates[j].id = b
    BY <1>1, <2>2 DEF DaemonInv, HandlesAreKept, Standing, Stands, Known
  <2> QED BY <2>1, <2>3, DaemonAssumption DEF Stands, Ids
<1> QED BY <1>1

\* The provision of job j goes on or settles: its container is made, wears down or
\* stays, its egress is in force while the container runs (or it is excused), a call it
\* leaves under way is the last of it, and it keeps the handle
\* until the registry or the error has it.
ProvisionStep(j) ==
  LET id == creates[j].id IN
  /\ Inflight(j) /\ UNCHANGED <<started, rebuilt, blind>>
  /\ \A k \in Jobs \ {j} : /\ jobs'[k] = jobs[k] /\ creates'[k] = creates[k]
                           /\ egress'[k] = egress[k] /\ destroys'[k] = destroys[k]
  /\ \A b \in Ids \ {id} : boxes'[b] = boxes[b]
  /\ boxes'[id] = boxes[id] \/ (boxes'[id].job = j /\ boxes'[id].state # "none")
  /\ boxes[id].state = "none" \/ boxes[id].job = j
  /\ reported' = reported \/ (reported' = reported \cup {id} /\ boxes'[id].job = j /\ boxes'[id].state # "none")
  /\ Proxied /\ boxes'[id].state = "up" => \/ egress'[j] = id \/ ExcusedNext(id)
                                           \/ id \in reported' /\ boxes'[id].job = j
  /\ \A b \in Ids : Excused(b) => ExcusedNext(b)
  /\ \A c \in stray' : \/ c \in stray
                      \/ /\ c.job = j /\ c.id = id /\ creates'[j] = NoCreate
                         /\ boxes'[id].state = "up" => id \in reported' /\ boxes'[id].job = j
  /\ \/ creates'[j].pc # "none" /\ creates'[j].id = id /\ jobs'[j].box = jobs[j].box
     \/ creates'[j] = NoCreate /\ jobs'[j].box = jobs[j].box /\ (boxes'[id].state \in {"up", "exited"} => id \in reported')
     \/ creates'[j] = NoCreate /\ jobs'[j].box = id /\ boxes'[id].state # "none" /\ boxes'[id].job = j
  /\ \/ destroys'[j] = destroys[j]
     \/ destroys'[j] = NoDestroy
     \/ destroys'[j].pc = "teardown" /\ destroys'[j].box = id /\ jobs'[j].box = id

LEMMA ProvisionKeeps ==
  ASSUME DaemonInv, NEW j \in Jobs, ProvisionStep(j), Stage(j)', \A p \in Passes : PassCalm(p)
  PROVE  /\ Numbering' /\ (\A k \in Jobs : Stage(k)' /\ Records(k)') /\ (\A p \in Passes : PassAt(p)')
         /\ OneBox' /\ Connected' /\ Late' /\ HandlesAreKept'
<1> DEFINE id == creates[j].id
<1>0. /\ started \in 0..MaxCreates /\ MaxCreates \in Nat /\ Ids = 1..MaxCreates
      /\ \A k \in Jobs : creates[k].id \in 0..MaxCreates
      /\ \A k \in Jobs : creates[k].pc = "none" => creates[k].id = 0
      /\ reported \subseteq Ids
  BY DaemonAssumption DEF DaemonInv, DaemonTypes, CreateTypes, EngineTypes, Ids, BoxRef
<1>1. /\ id \in Ids /\ id <= started /\ jobs[j].box = 0 /\ creates[j].pc # "none"
      /\ \A k \in Jobs \ {j} : creates[k].id # id
  BY <1>0 DEF DaemonInv, Numbering, ProvisionStep, Inflight
<1>2. Lasting
  BY <1>1 DEF ProvisionStep, Lasting
<1>3. ASSUME NEW k \in Jobs \ {j} PROVE jobs[k].box # id
  <2>1. jobs[k].box # 0 => boxes[jobs[k].box].job = k /\ boxes[jobs[k].box].state # "none"
    BY DEF DaemonInv, Records, Owns
  <2> QED BY <1>0, <1>1, <2>1 DEF ProvisionStep
<1>4. NoCreate.pc = "none" /\ NoCreate.id = 0 /\ NoDestroy.pc = "none"
  BY DEF NoCreate, NoDestroy
<1>5. Strangers
  BY <1>0, <1>1, <1>4 DEF ProvisionStep, Strangers
<1>6. \A p \in Passes : PassAt(p)'
  BY <1>2, <1>5, PassKeeps DEF DaemonInv, ProvisionStep
<1>7. Numbering'
  <2>1. \A k \in Jobs : Inflight(k)' => Inflight(k) /\ creates'[k].id = creates[k].id /\ jobs'[k].box = jobs[k].box
    BY <1>4 DEF ProvisionStep, Inflight
  <2>2. \A k, l \in Jobs : Inflight(k)' /\ creates'[k].id = creates'[l].id => k = l
    <3>1. \A k \in Jobs : creates'[k].id = creates[k].id \/ creates'[k].id = 0
      BY <1>4 DEF ProvisionStep
    <3>2. \A k \in Jobs : Inflight(k)' => creates'[k].id # 0
      BY <1>0, <2>1 DEF DaemonInv, Numbering
    <3> QED BY <2>1, <3>1, <3>2 DEF DaemonInv, Numbering
  <2>3. \A b \in Ids : b > started' => boxes'[b].state = "none"
    BY <1>0, <1>1 DEF DaemonInv, Numbering, ProvisionStep
  <2>4. \A b \in reported' : boxes'[b].state # "none"
    <3>1. \A b \in reported : b \in Ids /\ boxes[b].state # "none"
      BY <1>0 DEF DaemonInv, Numbering
    <3>2. \A b \in reported : boxes'[b].state # "none"
      BY <1>2, <3>1 DEF Lasting
    <3> QED BY <3>2 DEF ProvisionStep
  <2> QED BY <1>0, <2>1, <2>2, <2>3, <2>4 DEF DaemonInv, Numbering, ProvisionStep
<1>8. ASSUME NEW k \in Jobs \ {j} PROVE Stage(k)' /\ Records(k)'
  <2>1. Stage(k) /\ Records(k)
    BY DEF DaemonInv
  <2>2. /\ jobs'[k] = jobs[k] /\ creates'[k] = creates[k] /\ egress'[k] = egress[k] /\ destroys'[k] = destroys[k]
        /\ rebuilt' = rebuilt /\ blind' = blind /\ reported \subseteq reported'
    BY DEF ProvisionStep
  <2>3. \A b \in Ids : /\ Owns(k, b) => (Owns(k, b))'
                       /\ Excused(b) => ExcusedNext(b)
    BY <1>2 DEF Lasting, Owns, ProvisionStep
  <2>4. Stage(k)'
    <3>1. CASE creates[k].pc = "none"
      BY <2>2, <3>1 DEF Stage
    <3>2. CASE creates[k].pc # "none"
      <4>1. creates[k].id \in Ids /\ creates[k].id # id
        BY <1>0, <1>1, <3>2 DEF DaemonInv, Numbering, Inflight
      <4>2. boxes'[creates[k].id] = boxes[creates[k].id]
        BY <4>1 DEF ProvisionStep
      <4> QED BY <2>1, <2>2, <2>3, <4>1, <4>2 DEF Stage, Owns, Excused, ExcusedNext
    <3> QED BY <3>1, <3>2
  <2>5. Records(k)'
    <3>1. CASE jobs[k].box = 0
      BY <2>1, <2>2, <3>1 DEF Records, Inflight
    <3>2. CASE jobs[k].box # 0
      <4>1. jobs[k].box \in Ids /\ jobs[k].box # id
        BY <1>3, <2>1, <3>2 DEF Records, Owns
      <4>2. boxes'[jobs[k].box] = boxes[jobs[k].box]
        BY <4>1 DEF ProvisionStep
      <4> QED BY <2>1, <2>2, <4>1, <4>2 DEF Records, Inflight, Owns
    <3> QED BY <3>1, <3>2
  <2> QED BY <2>4, <2>5
<1>9. Records(j)'
  <2>1. Records(j) /\ destroys[j].pc \notin {"teardown", "withdraw"}
    BY <1>1 DEF DaemonInv, Records
  <2>2. ~rebuilt => j \in blind
    BY <2>1 DEF Records, ProvisionStep
  <2>3. jobs'[j].box # 0 => (Owns(j, jobs[j].box))'
    BY <1>1 DEF ProvisionStep, Owns, Excused, ExcusedNext
  <2>4. destroys'[j].pc \in {"teardown", "withdraw"} =>
          destroys'[j].pc = "teardown" /\ jobs'[j].box = id /\ destroys'[j].box = id
    BY <1>4, <2>1 DEF ProvisionStep
  <2> QED BY <1>0, <1>1, <2>2, <2>3, <2>4 DEF Records, ProvisionStep
<1>10. \A k \in Jobs : (Known(k))' => Known(k)
  <2>1. \A b \in reported : b \in reported' /\ boxes'[b].job = boxes[b].job
    BY <1>0, <1>2 DEF DaemonInv, Numbering, Lasting, ProvisionStep
  <2> QED BY <2>1 DEF Known, RollbackFailed, ProvisionStep
<1>11. ASSUME NEW b \in Ids, (Stands(b))', (Known(boxes[b].job))', b # id
       PROVE  /\ boxes'[b] = boxes[b] /\ Stands(b) /\ boxes[b].job \in Jobs \ {j} /\ Known(boxes[b].job)
  <2>1. boxes'[b] = boxes[b] /\ Stands(b)
    BY <1>11 DEF ProvisionStep, Stands
  <2>2. boxes[b].job \in Jobs
    BY <2>1 DEF DaemonInv, DaemonTypes, EngineTypes, Stands
  <2>3. Known(boxes[b].job)
    BY <1>10, <1>11, <2>1, <2>2
  <2> QED BY <1>11, <2>1, <2>2, <2>3, ProvisionIsAlone DEF ProvisionStep
<1>12. boxes'[id].state \in {"up", "exited"} => boxes'[id].job = j
  BY DEF ProvisionStep, Stands
<1>13. OneBox'
  <2>1. ASSUME NEW b \in Ids, NEW c \in Ids, (Stands(b))', (Stands(c))', boxes'[b].job = boxes'[c].job,
               (Known(boxes[b].job))'
        PROVE  b = c
    <3>1. CASE b = id \/ c = id
      <4>1. boxes'[b].job = j /\ boxes'[c].job = j
        BY <1>12, <2>1, <3>1 DEF Stands
      <4>2. (Known(boxes[c].job))'
        BY <2>1, <4>1
      <4>3. b # id => boxes'[b].job # j
        BY <1>11, <2>1
      <4>4. c # id => boxes'[c].job # j
        BY <1>11, <2>1, <4>2
      <4> QED BY <4>1, <4>3, <4>4
    <3>2. CASE b # id /\ c # id
      BY <1>11, <2>1, <3>2 DEF DaemonInv, OneBox, Standing, Stands
    <3> QED BY <3>1, <3>2
  <2> QED BY <2>1 DEF OneBox, Standing, Stands
<1>14. Connected'
  <2>1. ASSUME Proxied, NEW b \in Ids, boxes'[b].state = "up", (Known(boxes[b].job))'
        PROVE  egress'[boxes'[b].job] = b \/ ExcusedNext(b)
    <3>1. CASE b = id
      <4>1. boxes'[id].job = j /\ id \notin reported'
        BY <1>12, <2>1, <3>1 DEF Stands, Known, RollbackFailed
      <4> QED BY <2>1, <3>1, <4>1 DEF ProvisionStep, ExcusedNext
    <3>2. CASE b # id
      <4>1. boxes'[b] = boxes[b] /\ boxes[b].job \in Jobs \ {j} /\ Known(boxes[b].job)
        BY <1>11, <2>1, <3>2 DEF Stands
      <4> QED BY <2>1, <4>1 DEF DaemonInv, Connected, ProvisionStep, ExcusedNext, Excused
    <3> QED BY <3>1, <3>2
  <2> QED BY <2>1 DEF Connected, Excused, ExcusedNext
<1>15. HandlesAreKept'
  <2>1. ASSUME rebuilt', NEW b \in Ids, (Stands(b))', b \notin reported', (Known(boxes[b].job))'
        PROVE  jobs'[boxes'[b].job].box = b \/ creates'[boxes'[b].job].id = b
    <3>1. CASE b = id
      BY <1>12, <2>1, <3>1 DEF ProvisionStep, Stands
    <3>2. CASE b # id
      <4>1. boxes'[b] = boxes[b] /\ Stands(b) /\ boxes[b].job \in Jobs \ {j} /\ Known(boxes[b].job)
        BY <1>11, <2>1, <3>2
      <4>2. rebuilt /\ b \in Standing \ reported
        BY <2>1, <4>1 DEF Standing, Stands, ProvisionStep
      <4>3. jobs[boxes[b].job].box = b \/ creates[boxes[b].job].id = b
        BY <4>1, <4>2 DEF DaemonInv, HandlesAreKept, Known
      <4> QED BY <4>1, <4>3 DEF ProvisionStep
    <3> QED BY <3>1, <3>2
  <2> QED BY <2>1 DEF HandlesAreKept, Standing, Stands, Known
<1>16. Late'
  <2>1. ASSUME NEW c \in stray'
        PROVE  /\ Inflight(c.job)' => c.id < creates'[c.job].id
               /\ \A b \in Ids : boxes'[b].state = "up" /\ boxes'[b].job = c.job /\ (Known(c.job))' => c.id < b
               /\ c.id <= started'
    <3>1. CASE c \in stray
      <4>1. /\ Inflight(c.job) => c.id < creates[c.job].id
            /\ \A b \in Ids : boxes[b].state = "up" /\ boxes[b].job = c.job /\ Known(c.job) => c.id < b
            /\ c.id <= started /\ c.job \in Jobs
        BY <3>1 DEF DaemonInv, Late, DaemonTypes, EngineTypes
      <4>2. Inflight(c.job)' => Inflight(c.job) /\ creates'[c.job].id = creates[c.job].id
        BY <1>4, <4>1 DEF ProvisionStep, Inflight
      <4>3. ASSUME NEW b \in Ids, boxes'[b].state = "up", boxes'[b].job = c.job, (Known(c.job))'
            PROVE  c.id < b
        <5>1. CASE b = id
          BY <1>12, <4>1, <4>3, <5>1 DEF ProvisionStep
        <5>2. CASE b # id
          BY <1>11, <4>1, <4>3, <5>2 DEF Stands
        <5> QED BY <5>1, <5>2
      <4> QED BY <4>1, <4>2, <4>3 DEF ProvisionStep
    <3>2. CASE c \notin stray
      <4>1. /\ c.job = j /\ c.id = id /\ creates'[j] = NoCreate
            /\ boxes'[id].state = "up" => id \in reported' /\ boxes'[id].job = j
        BY <2>1, <3>2 DEF ProvisionStep
      <4>2. ASSUME NEW b \in Ids, boxes'[b].state = "up", boxes'[b].job = j, (Known(j))' PROVE FALSE
        <5>1. CASE b = id
          BY <4>1, <4>2, <5>1 DEF Known, RollbackFailed
        <5>2. CASE b # id
          BY <1>11, <4>2, <5>2 DEF Stands
        <5> QED BY <5>1, <5>2
      <4> QED BY <1>1, <1>4, <4>1, <4>2 DEF Inflight, ProvisionStep
    <3> QED BY <3>1, <3>2
  <2> QED BY <2>1 DEF Late
<1> QED BY <1>6, <1>7, <1>8, <1>9, <1>13, <1>14, <1>15, <1>16

(***************************************************************************)
(* The provision, action by action.                                        *)
(***************************************************************************)
LEMMA CreateSettled ==
  ASSUME DaemonInv, NEW j \in Jobs, NEW outcome, CreateSettles(j, outcome)
  PROVE  /\ creates'[j] = NoCreate
         /\ \A k \in Jobs \ {j} : creates'[k] = creates[k] /\ destroys'[k] = destroys[k]
         /\ \/ destroys'[j] = destroys[j]
            \/ destroys'[j] = NoDestroy
            \/ outcome = "won" /\ destroys'[j] = [pc |-> "teardown", box |-> creates[j].id]
         /\ \A p \in Passes : PassCalm(p)
<1>1. creates' = [creates EXCEPT ![j] = NoCreate] /\ creates \in [Jobs -> [pc : CreatePc, id : BoxRef]]
      /\ destroys \in [Jobs -> [pc : DestroyPc, box : BoxRef]] /\ TeardownTypes
  BY DEF CreateSettles, DaemonInv, DaemonTypes, CreateTypes, TeardownTypes
<1>2. CASE Quiet
  BY <1>1, <1>2, SettleIsCalm DEF Quiet, DaemonInv
<1>3. CASE Settle(j, outcome = "cancelled")
  <2>1. destroys' = [destroys EXCEPT ![j] = NoDestroy]
    BY <1>3 DEF Settle
  <2> QED BY <1>1, <1>3, <2>1, SettleIsCalm DEF DaemonInv
<1>4. CASE /\ outcome = "won" /\ UNCHANGED passes
           /\ destroys' = [destroys EXCEPT ![j] = [pc |-> "teardown", box |-> creates[j].id]]
  BY <1>1, <1>4 DEF PassCalm
<1> QED BY <1>2, <1>3, <1>4 DEF CreateSettles

LEMMA CreateWent ==
  ASSUME DaemonInv, NEW j \in Jobs, NEW pc \in CreatePc, CreateGoes(j, pc), Quiet
  PROVE  /\ creates'[j].pc = pc /\ creates'[j].id = creates[j].id /\ destroys' = destroys
         /\ \A k \in Jobs \ {j} : creates'[k] = creates[k]
         /\ \A p \in Passes : PassCalm(p)
BY DEF CreateGoes, Quiet, DaemonInv, DaemonTypes, CreateTypes, PassCalm

\* What is known of the provision of job j while it is under way.
LEMMA ProvisionHas ==
  ASSUME DaemonInv, NEW j \in Jobs, Inflight(j)
  PROVE  /\ creates[j].id \in Ids /\ Stage(j) /\ jobs[j].box = 0
         /\ boxes \in [Ids -> Box] /\ egress \in [Jobs -> BoxRef] /\ jobs \in [Jobs -> [box : BoxRef, lease : BOOLEAN, adopted : BOOLEAN]]
<1>1. creates[j].id \in 1..started /\ started \in 0..MaxCreates /\ MaxCreates \in Nat
  BY DaemonAssumption DEF DaemonInv, DaemonTypes, CreateTypes, Numbering, BoxRef
<1> QED BY <1>1 DEF DaemonInv, DaemonTypes, RegistryTypes, EngineTypes, Numbering, Ids

LEMMA ProvisionConcludes ==
  ASSUME DaemonInv, NEW j \in Jobs, ProvisionStep(j), Stage(j)', DaemonTypes', \A p \in Passes : PassCalm(p)
  PROVE  DaemonInv'
BY ProvisionKeeps DEF DaemonInv

\* Steps of the provision that make no container.
LEMMA ProvisionGoesOn ==
  ASSUME DaemonInv, NEW j \in Jobs, PolicyFetched(j) \/ EgressRegistered(j) \/ ResourcesMade(j)
  PROVE  DaemonInv'
<1> DEFINE id == creates[j].id
<1>1. creates[j].pc \in {"policy", "register", "resources"} /\ Inflight(j) /\ Quiet
      /\ UNCHANGED <<jobs, rebuilt, boxes, reported, age, stray, severed, started, blind>>
  BY DEF PolicyFetched, ResourcesMade, EgressRegistered, InCreate, Inflight, engine, proxy
<1>2. \/ CreateGoes(j, "register") /\ UNCHANGED egress
      \/ CreateGoes(j, "resources") /\ egress' = IF Proxied THEN [egress EXCEPT ![j] = id] ELSE egress
      \/ CreateGoes(j, "container") /\ UNCHANGED egress /\ creates[j].pc = "resources"
  BY DEF PolicyFetched, ResourcesMade, EgressRegistered, InCreate, proxy
<1>3. /\ creates'[j].pc \in {"register", "resources", "container"} /\ creates'[j].id = id /\ destroys' = destroys
      /\ \A k \in Jobs \ {j} : creates'[k] = creates[k]
      /\ \A p \in Passes : PassCalm(p)
      /\ CreateTypes'
  <2>1. {"register", "resources", "container"} \subseteq CreatePc \ {"none"}
    BY DEF CreatePc
  <2> QED BY <1>1, <1>2, <2>1, CreateWent, CreateGoesTyped DEF DaemonInv
<1>4. /\ id \in Ids /\ Stage(j) /\ jobs[j].box = 0 /\ boxes[id].state = "none"
      /\ egress \in [Jobs -> BoxRef] /\ id \in BoxRef
  BY <1>1, ProvisionHas DEF Stage, DaemonInv, DaemonTypes, CreateTypes
<1>5. /\ egress' \in [Jobs -> BoxRef] /\ \A k \in Jobs \ {j} : egress'[k] = egress[k]
      /\ Proxied /\ creates'[j].pc \in {"resources", "container"} => egress'[j] = id \/ Excused(id)
  <2>1. CASE CreateGoes(j, "register") /\ UNCHANGED egress
    BY <1>1, <1>4, <2>1, CreateWent DEF CreatePc
  <2>2. CASE CreateGoes(j, "resources") /\ egress' = IF Proxied THEN [egress EXCEPT ![j] = id] ELSE egress
    BY <1>1, <1>4, <2>2
  <2>3. CASE CreateGoes(j, "container") /\ UNCHANGED egress /\ creates[j].pc = "resources"
    BY <1>1, <1>4, <2>3 DEF Stage
  <2> QED BY <1>2, <2>1, <2>2, <2>3
<1>6. DaemonTypes'
  BY <1>1, <1>3, <1>5 DEF DaemonInv, DaemonTypes, RegistryTypes, TeardownTypes, EngineTypes, Quiet
<1>7. ProvisionStep(j)
  BY <1>1, <1>3, <1>4, <1>5 DEF ProvisionStep, Excused, ExcusedNext
<1>8. Stage(j)'
  BY <1>1, <1>3, <1>4, <1>5 DEF Stage, Excused, ExcusedNext
<1> QED BY <1>3, <1>6, <1>7, <1>8, ProvisionConcludes

\* Steps that end it without a container of its own, or with one the error names.
LEMMA ProvisionEnds ==
  ASSUME DaemonInv, NEW j \in Jobs, PolicyRefused(j) \/ EgressRefused(j) \/ CreateWithdraws(j)
  PROVE  DaemonInv'
<1> DEFINE id == creates[j].id
<1>1. creates[j].pc \in {"policy", "register", "withdraw", "withdraw_cancelled"} /\ Inflight(j)
      /\ UNCHANGED <<jobs, rebuilt, boxes, reported, age, severed, started, blind>>
  BY DEF PolicyRefused, EgressRefused, CreateWithdraws, InCreate, Inflight, engine, proxy
<1>2. PICK outcome \in {"failed", "cancelled"} : CreateSettles(j, outcome)
  <2>1. CreateSettles(j, "failed") \/ CreateSettles(j, "cancelled")
    <3>1. CASE CreateWithdraws(j) /\ InCreate(j, "withdraw")
      BY <3>1 DEF CreateWithdraws
    <3>2. CASE CreateWithdraws(j) /\ ~InCreate(j, "withdraw")
      BY <3>2 DEF CreateWithdraws
    <3> QED BY <3>1, <3>2 DEF PolicyRefused, EgressRefused
  <2> QED BY <2>1
<1>3. /\ egress' = egress \/ egress' = [egress EXCEPT ![j] = id] \/ egress' = [egress EXCEPT ![j] = 0]
      /\ \A c \in stray' : c \in stray \/ c \in {PutOf(j, id), DeleteOf(j, id)}
  BY DEF PolicyRefused, EgressRefused, CreateWithdraws, Withdrawn, GivenUp, proxy
<1>4. /\ creates'[j] = NoCreate /\ NoCreate.pc = "none" /\ (destroys'[j] = destroys[j] \/ destroys'[j] = NoDestroy)
      /\ \A k \in Jobs \ {j} : creates'[k] = creates[k] /\ destroys'[k] = destroys[k]
      /\ \A p \in Passes : PassCalm(p)
  BY <1>2, CreateSettled DEF NoCreate
<1>5. /\ id \in Ids /\ Stage(j) /\ jobs[j].box = 0
      /\ egress \in [Jobs -> BoxRef] /\ id \in BoxRef /\ 0 \in BoxRef
  BY <1>1, ProvisionHas, DaemonAssumption DEF DaemonInv, DaemonTypes, CreateTypes, BoxRef
<1>6. boxes[id].state \in {"none", "gone"} \/ (id \in reported /\ boxes[id].job = j)
  BY <1>1, <1>5 DEF Stage, Owns
<1>7. /\ egress' \in [Jobs -> BoxRef] /\ \A k \in Jobs \ {j} : egress'[k] = egress[k]
      /\ \A c \in stray' : c \in stray \/ (c.job = j /\ c.id = id /\ c \in [op : {"put", "delete"}, job : Jobs, id : Ids])
  BY <1>3, <1>5 DEF PutOf, DeleteOf
<1>8. DaemonTypes'
  <2>1. CreateTypes' /\ TeardownTypes'
    BY <1>1, <1>2, CreateSettlesTyped DEF DaemonInv
  <2> QED BY <1>1, <1>7, <2>1 DEF DaemonInv, DaemonTypes, RegistryTypes, EngineTypes
<1>9. boxes[id].state = "none" \/ boxes[id].job = j
  BY <1>1, <1>5 DEF Stage, Owns
<1>10. ProvisionStep(j)
  BY <1>1, <1>4, <1>5, <1>6, <1>7, <1>9 DEF ProvisionStep, Excused, ExcusedNext
<1>11. Stage(j)'
  BY <1>4 DEF Stage
<1> QED BY <1>4, <1>8, <1>10, <1>11, ProvisionConcludes

\* What the engine has of a container, changed by its provision.
LEMMA ContainerMade ==
  ASSUME DaemonInv, NEW j \in Jobs, NEW id \in Ids, NEW state \in {"up", "exited"},
         boxes' = [boxes EXCEPT ![id] = [job |-> j, state |-> state]],
         reported' \subseteq reported \cup {id}, UNCHANGED <<age, egress, stray>>
  PROVE  EngineTypes' /\ boxes'[id].job = j /\ boxes'[id].state = state /\ \A b \in Ids \ {id} : boxes'[b] = boxes[b]
<1>1. [job |-> j, state |-> state] \in Box
  BY DEF Box
<1> QED BY <1>1 DEF DaemonInv, DaemonTypes, EngineTypes

\* The container runs.
LEMMA ProvisionStarts ==
  ASSUME DaemonInv, NEW j \in Jobs, ContainerStarted(j)
  PROVE  DaemonInv'
<1> DEFINE id == creates[j].id
<1>1. creates[j].pc = "container" /\ Inflight(j) /\ UNCHANGED <<rebuilt, reported, age, egress, stray, severed, started, blind>>
      /\ boxes' = [boxes EXCEPT ![id] = [job |-> j, state |-> "up"]]
  BY DEF ContainerStarted, InCreate, Inflight, proxy
<1>2. /\ id \in Ids /\ id \in BoxRef /\ jobs[j].box = 0 /\ boxes[id].state = "none"
      /\ Proxied => egress[j] = id \/ Excused(id)
      /\ jobs \in [Jobs -> [box : BoxRef, lease : BOOLEAN, adopted : BOOLEAN]]
  BY <1>1, ProvisionHas DEF Stage, DaemonInv, DaemonTypes, CreateTypes
<1>3. EngineTypes' /\ boxes'[id].job = j /\ boxes'[id].state = "up" /\ \A b \in Ids \ {id} : boxes'[b] = boxes[b]
  BY <1>1, <1>2, ContainerMade
<1>4. CASE CreateGoes(j, "undo") /\ Quiet /\ UNCHANGED jobs
  <2>1. /\ creates'[j].pc = "undo" /\ creates'[j].id = id /\ destroys' = destroys
        /\ \A k \in Jobs \ {j} : creates'[k] = creates[k]
        /\ \A p \in Passes : PassCalm(p)
        /\ CreateTypes'
    <3>1. "undo" \in CreatePc \ {"none"}
      BY DEF CreatePc
    <3> QED BY <1>1, <1>4, <3>1, CreateWent, CreateGoesTyped DEF DaemonInv
  <2>2. DaemonTypes'
    BY <1>1, <1>3, <1>4, <2>1 DEF DaemonInv, DaemonTypes, RegistryTypes, TeardownTypes, Quiet
  <2>3. ProvisionStep(j)
    BY <1>1, <1>2, <1>3, <1>4, <2>1 DEF ProvisionStep, Excused, ExcusedNext
  <2>4. Stage(j)'
    BY <1>1, <1>2, <1>3, <2>1 DEF Stage, Owns, Excused, ExcusedNext
  <2> QED BY <2>1, <2>2, <2>3, <2>4, ProvisionConcludes
<1>5. CASE CreateSettles(j, "won") /\ jobs' = [jobs EXCEPT ![j] = [box |-> id, lease |-> TRUE, adopted |-> FALSE]]
  <2>1. /\ creates'[j] = NoCreate /\ NoCreate.pc = "none"
        /\ \A k \in Jobs \ {j} : creates'[k] = creates[k] /\ destroys'[k] = destroys[k]
        /\ \/ destroys'[j] = destroys[j]
           \/ destroys'[j] = NoDestroy
           \/ destroys'[j] = [pc |-> "teardown", box |-> id]
        /\ \A p \in Passes : PassCalm(p)
    BY <1>5, CreateSettled DEF NoCreate
  <2>2. /\ jobs'[j].box = id /\ \A k \in Jobs \ {j} : jobs'[k] = jobs[k]
        /\ RegistryTypes'
    <3>1. [box |-> id, lease |-> TRUE, adopted |-> FALSE] \in [box : BoxRef, lease : BOOLEAN, adopted : BOOLEAN] /\ id # 0
      BY <1>2 DEF Ids
    <3> QED BY <1>5, <1>2, <3>1 DEF DaemonInv, DaemonTypes, RegistryTypes
  <2>3. DaemonTypes'
    BY <1>1, <1>3, <1>5, <2>2, CreateSettlesTyped DEF DaemonInv, DaemonTypes
  <2>4. ProvisionStep(j)
    BY <1>1, <1>2, <1>3, <2>1, <2>2 DEF ProvisionStep, Excused, ExcusedNext
  <2>5. Stage(j)'
    BY <2>1 DEF Stage
  <2> QED BY <2>1, <2>3, <2>4, <2>5, ProvisionConcludes
<1> QED BY <1>4, <1>5 DEF ContainerStarted

\* The engine refuses: what was made is rolled back or named in the error.
LEMMA ProvisionRollsBack ==
  ASSUME DaemonInv, NEW j \in Jobs, CreateFails(j)
  PROVE  DaemonInv'
<1> DEFINE id == creates[j].id
<1>1. /\ creates[j].pc \in {"resources", "container"} /\ Inflight(j)
      /\ UNCHANGED <<jobs, rebuilt, age, egress, stray, severed, started, blind>> /\ CreateGoes(j, "withdraw") /\ Quiet
      /\ \/ UNCHANGED <<boxes, reported>>
         \/ /\ \E s \in {"up", "exited"} : boxes' = [boxes EXCEPT ![id] = [job |-> j, state |-> s]]
            /\ reported' = reported \cup {id}
  BY DEF CreateFails, InCreate, Inflight, proxy
<1>2. /\ id \in Ids /\ jobs[j].box = 0 /\ boxes[id].state = "none"
      /\ Proxied => egress[j] = id \/ Excused(id)
  BY <1>1, ProvisionHas DEF Stage
<1>3. /\ creates'[j].pc = "withdraw" /\ creates'[j].id = id /\ destroys' = destroys
      /\ \A k \in Jobs \ {j} : creates'[k] = creates[k]
      /\ \A p \in Passes : PassCalm(p)
      /\ CreateTypes'
  <2>1. "withdraw" \in CreatePc \ {"none"}
    BY DEF CreatePc
  <2> QED BY <1>1, <2>1, CreateWent, CreateGoesTyped DEF DaemonInv
<1>4. /\ EngineTypes' /\ \A b \in Ids \ {id} : boxes'[b] = boxes[b]
      /\ \/ boxes' = boxes /\ reported' = reported
         \/ boxes'[id].job = j /\ boxes'[id].state \in {"up", "exited"} /\ reported' = reported \cup {id}
  <2>1. CASE UNCHANGED <<boxes, reported>>
    BY <1>1, <2>1 DEF DaemonInv, DaemonTypes, EngineTypes
  <2>2. ASSUME NEW s \in {"up", "exited"}, boxes' = [boxes EXCEPT ![id] = [job |-> j, state |-> s]],
               reported' = reported \cup {id}
        PROVE  /\ EngineTypes' /\ \A b \in Ids \ {id} : boxes'[b] = boxes[b]
               /\ boxes'[id].job = j /\ boxes'[id].state \in {"up", "exited"} /\ reported' = reported \cup {id}
    <3>1. id \in Ids /\ UNCHANGED <<age, egress, stray>> /\ reported' \subseteq reported \cup {id}
      BY <1>1, <1>2, <2>2
    <3> HIDE DEF id
    <3>2. EngineTypes' /\ boxes'[id].job = j /\ boxes'[id].state = s /\ \A b \in Ids \ {id} : boxes'[b] = boxes[b]
      BY <2>2, <3>1, ContainerMade
    <3> QED BY <2>2, <3>2
  <2> QED BY <1>1, <2>1, <2>2
<1>5. DaemonTypes'
  BY <1>1, <1>3, <1>4 DEF DaemonInv, DaemonTypes, RegistryTypes, TeardownTypes, Quiet
<1>6. ProvisionStep(j)
  BY <1>1, <1>2, <1>3, <1>4 DEF ProvisionStep, Excused, ExcusedNext
<1>7. Stage(j)'
  BY <1>2, <1>3, <1>4 DEF Stage, Owns
<1> QED BY <1>3, <1>5, <1>6, <1>7, ProvisionConcludes

\* The container of a cancelled provision is torn down, or kept by its record.
LEMMA ProvisionUndone ==
  ASSUME DaemonInv, NEW j \in Jobs, UndoFails(j) \/ UndoSucceeds(j)
  PROVE  DaemonInv'
<1> DEFINE id == creates[j].id
<1>1. creates[j].pc = "undo" /\ Inflight(j) /\ UNCHANGED <<rebuilt, reported, age, egress, stray, severed, started, blind>>
  BY DEF UndoFails, UndoSucceeds, InCreate, Inflight, proxy
<1>2. /\ id \in Ids /\ id \in BoxRef /\ id # 0 /\ jobs[j].box = 0 /\ Owns(j, id)
      /\ Proxied => egress[j] = id \/ Excused(id)
      /\ boxes \in [Ids -> Box] /\ jobs \in [Jobs -> [box : BoxRef, lease : BOOLEAN, adopted : BOOLEAN]]
  BY <1>1, ProvisionHas DEF Stage, DaemonInv, DaemonTypes, CreateTypes, Ids
<1>3. EngineTypes'
  BY <1>1, <1>2, TeardownTyped DEF UndoFails, UndoSucceeds, DaemonInv, Owns
<1>4. /\ \A b \in Ids \ {id} : boxes'[b] = boxes[b]
      /\ boxes'[id].job = j /\ boxes'[id].state # "none"
      /\ UndoSucceeds(j) => boxes'[id].state = "gone"
  <2>1. boxes' \in {boxes, BoxBecomes(id, "gone"), BoxBecomes(id, "exited")}
        /\ (UndoSucceeds(j) => boxes' = BoxBecomes(id, "gone"))
    BY DEF UndoFails, UndoSucceeds, TeardownFails, TornDown
  <2>2. ASSUME NEW s \in {"gone", "exited"}, boxes' = BoxBecomes(id, s)
        PROVE  boxes'[id].job = boxes[id].job /\ boxes'[id].state = s /\ \A b \in Ids \ {id} : boxes'[b] = boxes[b]
    BY <1>2, <2>2 DEF BoxBecomes, Box
  <2> QED BY <1>2, <2>1, <2>2 DEF Owns
<1>5. CASE UndoFails(j)
  <2>1. /\ creates'[j] = NoCreate /\ NoCreate.pc = "none"
        /\ \A k \in Jobs \ {j} : creates'[k] = creates[k] /\ destroys'[k] = destroys[k]
        /\ (destroys'[j] = destroys[j] \/ destroys'[j] = NoDestroy)
        /\ \A p \in Passes : PassCalm(p)
    <3>1. PICK outcome \in {"failed"} : CreateSettles(j, outcome)
      BY <1>5 DEF UndoFails
    <3> QED BY <3>1, CreateSettled DEF NoCreate
  <2>2. /\ jobs'[j].box = id /\ \A k \in Jobs \ {j} : jobs'[k] = jobs[k]
        /\ RegistryTypes'
    <3>1. [box |-> id, lease |-> TRUE, adopted |-> FALSE] \in [box : BoxRef, lease : BOOLEAN, adopted : BOOLEAN]
      BY <1>2
    <3> QED BY <1>5, <1>2, <3>1 DEF DaemonInv, DaemonTypes, RegistryTypes, UndoFails
  <2>3. DaemonTypes'
    BY <1>1, <1>3, <1>5, <2>2, CreateSettlesTyped DEF DaemonInv, DaemonTypes, UndoFails
  <2>4. ProvisionStep(j)
    BY <1>1, <1>2, <1>4, <2>1, <2>2 DEF ProvisionStep, Owns, Excused, ExcusedNext
  <2>5. Stage(j)'
    BY <2>1 DEF Stage
  <2> QED BY <2>1, <2>3, <2>4, <2>5, ProvisionConcludes
<1>6. CASE UndoSucceeds(j)
  <2>1. CreateGoes(j, "withdraw_cancelled") /\ Quiet /\ UNCHANGED jobs
    BY <1>6 DEF UndoSucceeds
  <2>2. /\ creates'[j].pc = "withdraw_cancelled" /\ creates'[j].id = id /\ destroys' = destroys
        /\ \A k \in Jobs \ {j} : creates'[k] = creates[k]
        /\ \A p \in Passes : PassCalm(p)
        /\ CreateTypes'
    <3>1. "withdraw_cancelled" \in CreatePc \ {"none"}
      BY DEF CreatePc
    <3> QED BY <1>1, <2>1, <3>1, CreateWent, CreateGoesTyped DEF DaemonInv
  <2>3. DaemonTypes'
    BY <1>1, <1>3, <2>1, <2>2 DEF DaemonInv, DaemonTypes, RegistryTypes, TeardownTypes, Quiet
  <2>4. ProvisionStep(j)
    BY <1>1, <1>2, <1>4, <2>1, <2>2 DEF ProvisionStep, Owns, Excused, ExcusedNext
  <2>5. Stage(j)'
    BY <1>2, <1>4, <1>6, <2>2 DEF Stage, Owns
  <2> QED BY <2>2, <2>3, <2>4, <2>5, ProvisionConcludes
<1> QED BY <1>5, <1>6

(***************************************************************************)
(* Requests, time and teardowns.                                           *)
(***************************************************************************)
LEMMA ModestConcludes ==
  ASSUME DaemonInv, Modest, DaemonTypes', \A j \in Jobs : Records(j)', \A p \in Passes : PassAt(p)'
  PROVE  DaemonInv'
BY ModestKeeps DEF DaemonInv

LEMMA DestroyCallKeeps ==
  ASSUME DaemonInv, Modest, NEW j \in Jobs, DestroyCall(j)
  PROVE  \A k \in Jobs : Records(k)'
<1> TAKE k \in Jobs
<1>1. destroys \in [Jobs -> [pc : DestroyPc, box : BoxRef]]
  BY DEF DaemonInv, DaemonTypes, TeardownTypes
<1>2. CASE destroys'[k] = destroys[k]
  BY <1>2, RecordsKeep
<1>3. CASE k = j /\ Recorded(j) /\ destroys' = [destroys EXCEPT ![j] = [pc |-> "teardown", box |-> jobs[j].box]]
  <2>1. destroys'[k].pc = "teardown" /\ jobs[k].box # 0 /\ destroys'[k].box = jobs[k].box
    BY <1>1, <1>3, RecordedByBox DEF DaemonInv
  <2> QED BY <2>1, RecordsKeep
<1>4. CASE k = j /\ Inflight(j) /\ destroys' = [destroys EXCEPT ![j] = [pc |-> "await", box |-> 0]]
  <2>1. destroys'[k].pc = "await" /\ Inflight(k)
    BY <1>1, <1>4
  <2> QED BY <2>1, RecordsKeep
<1> QED BY <1>1, <1>2, <1>3, <1>4 DEF DestroyCall

LEMMA UnchangedRecords ==
  ASSUME DaemonInv, Modest, destroys' = destroys
  PROVE  \A j \in Jobs : Records(j)'
BY RecordsKeep

LEMMA CalmPasses ==
  ASSUME DaemonInv, Modest, \A p \in Passes : PassCalm(p)
  PROVE  \A p \in Passes : PassAt(p)'
BY PassKeeps, ModestLasts DEF DaemonInv

\* A lease lapses or is renewed: the record's container is the same.
LEMMA LeaseKeeps ==
  ASSUME DaemonInv, NEW j \in Jobs, Renew(j) \/ LeaseLapses(j)
  PROVE  DaemonInv'
<1>1. /\ Recorded(j) /\ jobs[j] \in [box : BoxRef, lease : BOOLEAN, adopted : BOOLEAN] /\ jobs \in [Jobs -> [box : BoxRef, lease : BOOLEAN, adopted : BOOLEAN]]
      /\ \E l \in BOOLEAN : jobs' = [jobs EXCEPT ![j] = [jobs[j] EXCEPT !.lease = l]]
      /\ UNCHANGED <<creates, destroys, passes, rebuilt, boxes, reported, age, egress, stray, severed, started, blind>>
  BY DEF Renew, LeaseLapses, engine, proxy, DaemonInv, DaemonTypes, RegistryTypes
<1>2. jobs[j].box # 0
  BY <1>1, RecordedByBox DEF DaemonInv
<1>3. jobs' \in [Jobs -> [box : BoxRef, lease : BOOLEAN, adopted : BOOLEAN]] /\ (\A k \in Jobs : jobs'[k].box = jobs[k].box)
      /\ \A k \in Jobs \ {j} : jobs'[k] = jobs[k]
  BY <1>1
<1>4. Modest
  BY <1>1, <1>3 DEF Modest, Worn, Excused, ExcusedNext
<1>5. DaemonTypes'
  BY <1>1, <1>2, <1>3 DEF DaemonInv, DaemonTypes, RegistryTypes, CreateTypes, TeardownTypes, EngineTypes
<1>6. \A p \in Passes : PassCalm(p)
  BY <1>1 DEF PassCalm
<1> QED BY <1>1, <1>4, <1>5, <1>6, UnchangedRecords, CalmPasses, ModestConcludes

LEMMA DeleteKeeps ==
  ASSUME DaemonInv, NEW j \in Jobs, Delete(j)
  PROVE  DaemonInv'
<1>1. DestroyCall(j) /\ UNCHANGED <<jobs, creates, passes, rebuilt, boxes, reported, age, egress, stray, severed, started, blind>>
  BY DEF Delete, engine, proxy
<1>2. Modest
  BY <1>1 DEF Modest, Worn, Excused, ExcusedNext
<1>3. DaemonTypes'
  BY <1>1, DestroyCallTyped DEF DaemonInv, DaemonTypes, RegistryTypes, CreateTypes, TeardownTypes, EngineTypes
<1>4. \A p \in Passes : PassCalm(p)
  BY <1>1 DEF PassCalm
<1> QED BY <1>1, <1>2, <1>3, <1>4, DestroyCallKeeps, CalmPasses, ModestConcludes

\* The engine answers a teardown.
LEMMA TeardownWears ==
  ASSUME DaemonInv, NEW j \in Jobs, NEW b \in BoxRef, b = 0 \/ Owns(j, b),
         TornDown(j, b) \/ TeardownFails(j, b)
  PROVE  /\ \A c \in Ids : Worn(c)
         /\ \A c \in Ids \ {b} : boxes'[c] = boxes[c]
         /\ TornDown(j, b) /\ b # 0 => boxes'[b].state = "gone"
<1>1. boxes \in [Ids -> Box] /\ (b # 0 => b \in Ids /\ boxes[b] \in Box /\ boxes[b].state # "none")
  BY DEF DaemonInv, DaemonTypes, EngineTypes, Owns
<1>2. CASE boxes' = boxes /\ ~TornDown(j, b)
  BY <1>2 DEF Worn
<1>3. CASE boxes' = BoxBecomes(b, "gone")
  BY <1>1, <1>3 DEF Worn, BoxBecomes, Box
<1>4. CASE b # 0 /\ boxes[b].state = "up" /\ boxes' = BoxBecomes(b, "exited") /\ ~TornDown(j, b)
  BY <1>1, <1>4 DEF Worn, BoxBecomes, Box
<1> QED BY <1>1, <1>2, <1>3, <1>4 DEF TornDown, TeardownFails, Ids

LEMMA TeardownGoesOn ==
  ASSUME DaemonInv, NEW j \in Jobs, TeardownDone(j) \/ TeardownBreaks(j)
  PROVE  DaemonInv'
<1> DEFINE b == destroys[j].box
<1>1. /\ Destroying(j) /\ (TornDown(j, b) \/ TeardownFails(j, b))
      /\ UNCHANGED <<jobs, creates, rebuilt, reported, age, egress, stray, severed, started, blind>>
  BY DEF TeardownDone, TeardownBreaks, proxy
<1>2. Records(j) /\ b = jobs[j].box /\ Owns(j, b) /\ b \in BoxRef /\ b # 0
  BY <1>1 DEF DaemonInv, Records, Destroying, DaemonTypes, TeardownTypes
<1>3. Modest
  BY <1>1, <1>2, TeardownWears DEF Modest, Excused, ExcusedNext
<1>4. EngineTypes'
  BY <1>1, <1>2, TeardownTyped DEF DaemonInv, Owns
<1>5. destroys \in [Jobs -> [pc : DestroyPc, box : BoxRef]] /\ TeardownTypes
  BY DEF DaemonInv, DaemonTypes, TeardownTypes
<1>6. CASE TeardownDone(j)
  <2>1. destroys' = [destroys EXCEPT ![j].pc = "withdraw"] /\ UNCHANGED passes
    BY <1>6 DEF TeardownDone
  <2>2. /\ destroys' \in [Jobs -> [pc : DestroyPc, box : BoxRef]]
        /\ destroys'[j].pc = "withdraw" /\ destroys'[j].box = b
        /\ \A k \in Jobs \ {j} : destroys'[k] = destroys[k]
    BY <1>5, <2>1 DEF DestroyPc
  <2>3. boxes'[b].state = "gone"
    BY <1>2, <1>6, TeardownWears DEF TeardownDone
  <2>4. \A k \in Jobs : Records(k)'
    BY <1>1, <1>3, <2>2, <2>3, RecordsKeep
  <2>5. DaemonTypes'
    BY <1>1, <1>4, <2>1, <2>2 DEF DaemonInv, DaemonTypes, RegistryTypes, CreateTypes, TeardownTypes
  <2>6. \A p \in Passes : PassCalm(p)
    BY <2>1 DEF PassCalm
  <2> QED BY <1>3, <2>4, <2>5, <2>6, CalmPasses, ModestConcludes
<1>7. CASE TeardownBreaks(j)
  <2>1. Settle(j, FALSE)
    BY <1>7 DEF TeardownBreaks
  <2>2. destroys'[j].pc = "none" /\ \A k \in Jobs \ {j} : destroys'[k] = destroys[k]
    BY <1>5, <2>1 DEF Settle, NoDestroy
  <2>3. \A k \in Jobs : Records(k)'
    BY <1>3, <2>2, RecordsKeep
  <2>4. DaemonTypes'
    BY <1>1, <1>4, <2>1, TeardownSettles DEF DaemonInv, DaemonTypes, RegistryTypes, CreateTypes
  <2>5. \A p \in Passes : PassCalm(p)
    BY <1>5, <2>1, SettleIsCalm DEF DaemonInv
  <2> QED BY <1>3, <2>3, <2>4, <2>5, CalmPasses, ModestConcludes
<1> QED BY <1>6, <1>7

\* A runner exits, a container grows old, the first listing fails, a pass is given up.
LEMMA TimePasses ==
  ASSUME DaemonInv,
         \/ \E b \in Ids : GrowsOld(b) \/ RunnerExits(b)
         \/ \E p \in Passes : PassAbandoned(p)
         \/ BootGivesUp
  PROVE  DaemonInv'
<1>1. /\ UNCHANGED <<jobs, creates, destroys, passes, rebuilt, reported, egress, stray, severed, started, blind>>
      /\ \/ UNCHANGED age
         \/ \E b \in Ids : age[b] < 2 /\ age' = [age EXCEPT ![b] = @ + 1]
      /\ \/ UNCHANGED boxes
         \/ \E b \in Ids : boxes[b].state = "up" /\ boxes' = BoxBecomes(b, "exited")
  <2>1. age \in [Ids -> 0..2] /\ 0 \notin Ids
    BY DEF DaemonInv, DaemonTypes, EngineTypes, Ids
  <2>2. ASSUME NEW b \in Ids, GrowsOld(b)
        PROVE  age[b] < 2 /\ age' = [age EXCEPT ![b] = @ + 1]
               /\ UNCHANGED <<jobs, creates, destroys, passes, rebuilt, boxes, reported, egress, stray, severed, started, blind>>
    BY <2>1, <2>2 DEF GrowsOld, proxy, memory
  <2>3. ASSUME NEW b \in Ids, RunnerExits(b)
        PROVE  boxes[b].state = "up" /\ boxes' = BoxBecomes(b, "exited")
               /\ UNCHANGED <<jobs, creates, destroys, passes, rebuilt, age, reported, egress, stray, severed, started, blind>>
    BY <2>1, <2>3 DEF RunnerExits, BoxBecomes, proxy, memory
  <2>4. (\E p \in Passes : PassAbandoned(p)) \/ BootGivesUp =>
          UNCHANGED <<jobs, creates, destroys, passes, rebuilt, boxes, age, reported, egress, stray, severed, started, blind>>
    BY DEF PassAbandoned, BootGivesUp, engine, proxy
  <2> QED BY <2>2, <2>3, <2>4
<1>0. /\ age' \in [Ids -> 0..2]
      /\ \A b \in Ids : Excused(b) => ExcusedNext(b)
  <2>1. age \in [Ids -> 0..2]
    BY DEF DaemonInv, DaemonTypes, EngineTypes
  <2>2. ASSUME NEW b \in Ids, age[b] < 2, age' = [age EXCEPT ![b] = @ + 1]
        PROVE  age' \in [Ids -> 0..2] /\ \A c \in Ids : age[c] >= 1 => age'[c] >= 1
    BY <2>1, <2>2
  <2> QED BY <1>1, <2>1, <2>2 DEF Excused, ExcusedNext
<1>2. EngineTypes' /\ \A b \in Ids : Worn(b)
  <2>1. CASE UNCHANGED boxes
    BY <1>0, <1>1, <2>1 DEF DaemonInv, DaemonTypes, EngineTypes, Worn
  <2>2. ASSUME NEW b \in Ids, boxes[b].state = "up", boxes' = BoxBecomes(b, "exited")
        PROVE  EngineTypes' /\ \A c \in Ids : Worn(c)
    <3>1. b \in BoxRef /\ b # 0
      BY DaemonAssumption DEF Ids, BoxRef
    <3>2. boxes' \in [Ids -> Box] /\ \A c \in Ids : boxes'[c].state # "none" => boxes'[c].job \in Jobs
      BY <2>2, <3>1 DEF BoxBecomes, DaemonInv, DaemonTypes, EngineTypes, Box
    <3>3. EngineTypes'
      BY <1>0, <1>1, <3>2 DEF DaemonInv, DaemonTypes, EngineTypes
    <3> QED BY <2>2, <3>1, <3>3 DEF Worn, BoxBecomes, DaemonInv, DaemonTypes, EngineTypes, Box
  <2> QED BY <1>1, <2>1, <2>2
<1>3. Modest
  BY <1>0, <1>1, <1>2 DEF Modest
<1>4. DaemonTypes'
  BY <1>1, <1>2 DEF DaemonInv, DaemonTypes, RegistryTypes, CreateTypes, TeardownTypes
<1>5. \A p \in Passes : PassCalm(p)
  BY <1>1 DEF PassCalm
<1> QED BY <1>1, <1>3, <1>4, <1>5, UnchangedRecords, CalmPasses, ModestConcludes

\* The proxy alone moves: a registration lapses, the proxy restarts, or a call arrives
\* late.  Whom it takes egress from is old, or is on the list of the severed.
LEMMA ProxyMoves ==
  ASSUME DaemonInv,
         (\E j \in Jobs : EgressLapses(j)) \/ ProxyRestarts \/ (\E c \in stray : StrayArrives(c))
  PROVE  DaemonInv'
<1>1. /\ UNCHANGED <<jobs, creates, destroys, passes, rebuilt, boxes, reported, age, started, blind>>
      /\ stray' \subseteq stray /\ severed \subseteq severed'
  BY DEF EgressLapses, ProxyRestarts, StrayArrives, memory, engine
<1>2. /\ egress \in [Jobs -> BoxRef] /\ 0 \in BoxRef /\ Ids = 1..MaxCreates /\ BoxRef = 0..MaxCreates
      /\ stray \subseteq [op : {"put", "delete"}, job : Jobs, id : Ids] /\ MaxCreates \in Nat
  BY DaemonAssumption DEF DaemonInv, DaemonTypes, EngineTypes, BoxRef, Ids
<1>3. /\ egress' \in [Jobs -> BoxRef]
      /\ \A j \in Jobs : egress[j] # 0 =>
           \/ egress'[j] = egress[j] \/ ExcusedNext(egress[j])
           \/ \E c \in stray : c.job = j /\ egress[j] <= c.id
  <2>1. ASSUME NEW j \in Jobs, EgressLapses(j)
        PROVE  egress' = [egress EXCEPT ![j] = 0] /\ ExcusedNext(egress[j])
    BY <1>1, <2>1 DEF EgressLapses, Excused, ExcusedNext
  <2>2. CASE \E j \in Jobs : EgressLapses(j)
    BY <1>1, <1>2, <2>1, <2>2 DEF Excused, ExcusedNext
  <2>3. CASE ProxyRestarts
    BY <1>1, <1>2, <2>3 DEF ProxyRestarts, Excused, ExcusedNext
  <2>4. ASSUME NEW c \in stray, StrayArrives(c)
        PROVE  /\ egress' \in [Jobs -> BoxRef]
               /\ \A j \in Jobs : egress[j] # 0 =>
                    \/ egress'[j] = egress[j] \/ ExcusedNext(egress[j])
                    \/ c.job = j /\ egress[j] <= c.id
    <3>1. /\ c.job \in Jobs /\ c.id \in Ids /\ c.id \in BoxRef
          /\ \E r \in BoxRef : egress' = [egress EXCEPT ![c.job] = r]
          /\ egress[c.job] > c.id => egress[c.job] \in severed'
      <4>1. c.job \in Jobs /\ c.id \in Ids /\ c.id \in BoxRef
        BY <1>2
      <4>2. egress' = [egress EXCEPT ![c.job] = IF c.op = "put" THEN c.id ELSE 0]
        BY <2>4 DEF StrayArrives
      <4>3. egress[c.job] > c.id => egress[c.job] \in severed'
        BY <2>4 DEF StrayArrives
      <4> QED BY <1>2, <4>1, <4>2, <4>3
    <3>2. egress' \in [Jobs -> BoxRef] /\ \A k \in Jobs \ {c.job} : egress'[k] = egress[k]
      BY <1>2, <3>1
    <3>3. egress[c.job] \in Nat /\ c.id \in Nat
      BY <1>2, <3>1
    <3>4. egress[c.job] > c.id \/ egress[c.job] <= c.id
      BY <3>3
    <3> QED BY <3>1, <3>2, <3>4 DEF ExcusedNext
  <2> QED BY <2>2, <2>3, <2>4
<1>4. DaemonTypes'
  BY <1>1, <1>2, <1>3 DEF DaemonInv, DaemonTypes, RegistryTypes, CreateTypes, TeardownTypes, EngineTypes
<1>5. Numbering' /\ OneBox' /\ HandlesAreKept' /\ \A j \in Jobs : Records(j)'
  BY <1>1 DEF DaemonInv, Numbering, Inflight, OneBox, Standing, Known, RollbackFailed, HandlesAreKept, Records, Owns
<1>6. \A p \in Passes : PassAt(p)'
  BY <1>1 DEF DaemonInv, PassAt, Owns
<1>7. \A b : Excused(b) => ExcusedNext(b)
  BY <1>1 DEF Excused, ExcusedNext
<1>8. ASSUME NEW j \in Jobs PROVE Stage(j)'
  <2>1. Stage(j) /\ creates'[j] = creates[j]
    BY <1>1 DEF DaemonInv
  <2>2. ASSUME Proxied, creates[j].pc \in {"resources", "container", "undo"}
        PROVE  egress'[j] = creates[j].id \/ ExcusedNext(creates[j].id)
    <3>1. egress[j] = creates[j].id \/ Excused(creates[j].id)
      BY <2>1, <2>2 DEF Stage
    <3>2. creates[j].id \in Ids /\ Inflight(j)
      BY <2>2, ProvisionHas DEF Inflight
    <3>3. \A c \in stray : c.job = j => c.id \in Ids /\ c.id < creates[j].id
      BY <1>2, <3>2 DEF DaemonInv, Late
    <3>4. CASE Excused(creates[j].id)
      BY <1>7, <3>4
    <3>5. CASE egress[j] = creates[j].id
      <4>1. creates[j].id # 0 /\ creates[j].id \in Nat
        BY <1>2, <3>2
      <4>2. ASSUME NEW c \in stray, c.job = j, creates[j].id <= c.id PROVE FALSE
        BY <1>2, <3>3, <4>1, <4>2
      <4> QED BY <1>3, <3>5, <4>1, <4>2
    <3> QED BY <3>1, <3>4, <3>5
  <2> QED BY <1>1, <2>1, <2>2 DEF Stage, Owns, Excused, ExcusedNext
<1>9. Connected'
  <2>1. ASSUME Proxied, NEW b \in Ids, boxes[b].state = "up", Known(boxes[b].job)
        PROVE  egress'[boxes[b].job] = b \/ ExcusedNext(b)
    <3>1. egress[boxes[b].job] = b \/ Excused(b)
      BY <2>1 DEF DaemonInv, Connected
    <3>2. boxes[b].job \in Jobs
      BY <2>1 DEF DaemonInv, DaemonTypes, EngineTypes
    <3>3. \A c \in stray : c.job = boxes[b].job => c.id \in Ids /\ c.id < b
      BY <1>2, <2>1 DEF DaemonInv, Late
    <3>4. CASE Excused(b)
      BY <1>7, <3>4
    <3>5. CASE egress[boxes[b].job] = b
      <4>1. b # 0 /\ b \in Nat
        BY <1>2
      <4>2. ASSUME NEW c \in stray, c.job = boxes[b].job, b <= c.id PROVE FALSE
        BY <1>2, <3>3, <4>1, <4>2
      <4> QED BY <1>3, <3>2, <3>5, <4>1, <4>2
    <3> QED BY <3>1, <3>4, <3>5
  <2>2. \A k : (Known(k))' <=> Known(k)
    BY <1>1 DEF Known, RollbackFailed
  <2> QED BY <1>1, <2>1, <2>2 DEF Connected, Excused, ExcusedNext
<1>10. Late'
  BY <1>1 DEF DaemonInv, Late, Inflight, Known, RollbackFailed
<1> QED BY <1>4, <1>5, <1>6, <1>8, <1>9, <1>10 DEF DaemonInv

(***************************************************************************)
(* Provisions begin, records go, the engine is read, the daemon restarts.  *)
(***************************************************************************)
LEMMA ProvisionBegins ==
  ASSUME DaemonInv, NEW j \in Jobs, Create(j)
  PROVE  DaemonInv'
<1> DEFINE id == started + 1
<1>1. /\ started < MaxCreates /\ ~Recorded(j) /\ ~Inflight(j) /\ started' = id
      /\ blind \subseteq blind' /\ (~rebuilt => j \in blind')
      /\ creates' = [creates EXCEPT ![j] = [pc |-> "policy", id |-> id]]
      /\ UNCHANGED <<jobs, destroys, passes, rebuilt, boxes, reported, age, egress, stray, severed>>
  BY DEF Create, Tracks, engine, proxy
<1>2. /\ started \in 0..MaxCreates /\ MaxCreates \in Nat /\ Ids = 1..MaxCreates /\ id \in Ids /\ BoxRef = 0..MaxCreates
      /\ creates \in [Jobs -> [pc : CreatePc, id : BoxRef]] /\ jobs[j].box = 0
      /\ \A k \in Jobs : creates[k].pc = "none" => creates[k].id = 0
      /\ \A k \in Jobs : creates[k].pc # "none" => creates[k].id \in 1..started
  BY <1>1, RecordedByBox, DaemonAssumption
     DEF DaemonInv, DaemonTypes, CreateTypes, Numbering, Inflight, Ids, BoxRef
<1>3. /\ creates'[j] = [pc |-> "policy", id |-> id] /\ \A k \in Jobs \ {j} : creates'[k] = creates[k]
  BY <1>1, <1>2
<1>4. DaemonTypes'
  <2>1. [pc |-> "policy", id |-> id] \in [pc : CreatePc, id : BoxRef]
    BY <1>2 DEF CreatePc
  <2>2. CreateTypes'
    BY <1>1, <1>2, <2>1 DEF CreateTypes
  <2> QED BY <1>1, <2>2 DEF DaemonInv, DaemonTypes, RegistryTypes, TeardownTypes, EngineTypes
<1>5. Numbering'
  <2>1. \A k \in Jobs : Inflight(k)' => creates'[k].id \in 1..started' /\ jobs'[k].box = 0
    BY <1>1, <1>2, <1>3 DEF DaemonInv, Numbering, Inflight
  <2>2. \A k, l \in Jobs : Inflight(k)' /\ creates'[k].id = creates'[l].id => k = l
    <3>1. \A k \in Jobs \ {j} : creates'[k].id # id
      BY <1>2, <1>3
    <3> QED BY <1>2, <1>3, <3>1 DEF DaemonInv, Numbering, Inflight
  <2> QED BY <1>1, <1>2, <2>1, <2>2 DEF DaemonInv, Numbering
<1>6. ASSUME NEW k \in Jobs PROVE Stage(k)' /\ Records(k)'
  <2>1. Stage(k) /\ Records(k)
    BY DEF DaemonInv
  <2>2. CASE k # j
    BY <1>1, <1>3, <2>1, <2>2 DEF Stage, Records, Owns, Inflight, Excused, ExcusedNext
  <2>3. CASE k = j
    <3>1. boxes[id].state = "none"
      BY <1>2 DEF DaemonInv, Numbering
    <3> QED BY <1>1, <1>2, <1>3, <2>1, <2>3, <3>1 DEF Stage, Records, Owns
  <2> QED BY <2>2, <2>3
<1>7. \A p \in Passes : PassAt(p)'
  <2>1. \A b \in Ids : boxes[b].state # "none" => b # id
    BY <1>2 DEF DaemonInv, Numbering
  <2>2. Lasting /\ Strangers
    BY <1>1, <1>3, <2>1 DEF Lasting, Strangers
  <2>3. \A p \in Passes : PassCalm(p)
    BY <1>1 DEF PassCalm
  <2> QED BY <1>1, <2>2, <2>3, PassKeeps DEF DaemonInv
<1>8. \A k : (Known(k))' => Known(k)
  BY <1>1 DEF Known, RollbackFailed
<1>9. OneBox' /\ Connected' /\ Late'
  <2>1. OneBox' /\ Connected'
    BY <1>1, <1>8 DEF DaemonInv, OneBox, Connected, Standing, Excused, ExcusedNext
  <2>2. ASSUME NEW c \in stray
        PROVE  c.job \in Jobs /\ c.id \in Ids /\ c.id <= started' /\ (Inflight(c.job)' => c.id < creates'[c.job].id)
    BY <1>1, <1>2, <1>3 DEF DaemonInv, Late, DaemonTypes, EngineTypes, Inflight
  <2>3. \A c \in stray : \A b \in Ids : boxes[b].state = "up" /\ boxes[b].job = c.job /\ (Known(c.job))' => c.id < b
    BY <1>8 DEF DaemonInv, Late
  <2> QED BY <1>1, <2>1, <2>2, <2>3 DEF Late
<1>10. HandlesAreKept'
  <2>1. ASSUME rebuilt', NEW b \in Ids, Stands(b), b \notin reported, (Known(boxes[b].job))'
        PROVE  jobs[boxes[b].job].box = b \/ creates'[boxes[b].job].id = b
    <3>1. Known(boxes[b].job)
      BY <1>1, <1>8, <2>1
    <3>2. boxes[b].job \in Jobs /\ b # 0
      BY <1>2, <2>1 DEF Stands, DaemonInv, DaemonTypes, EngineTypes
    <3>3. jobs[boxes[b].job].box = b \/ creates[boxes[b].job].id = b
      BY <1>1, <2>1, <3>1 DEF DaemonInv, HandlesAreKept, Standing, Stands, Known
    <3> QED BY <1>1, <1>2, <1>3, <3>2, <3>3 DEF Inflight
  <2> QED BY <1>1, <2>1 DEF HandlesAreKept, Standing, Stands, Known, RollbackFailed
<1> QED BY <1>4, <1>5, <1>6, <1>7, <1>9, <1>10 DEF DaemonInv

\* The record of a container proven gone is dropped: of a job of which nothing was
\* lost, no other container stands.
LEMMA RecordGoes ==
  ASSUME DaemonInv, NEW j \in Jobs, Forgets(j)
  PROVE  DaemonInv'
<1>1. /\ destroys[j].pc = "withdraw" /\ Settle(j, TRUE)
      /\ egress' \in {egress, [egress EXCEPT ![j] = 0]}
      /\ jobs' = [jobs EXCEPT ![j] = IF @.box = destroys[j].box THEN NoRecord ELSE @]
      /\ UNCHANGED <<creates, rebuilt, boxes, reported, age, severed, started, blind>>
      /\ stray' \subseteq stray \cup {DeleteOf(j, destroys[j].box)}
  BY DEF Forgets, Withdrawn, GivenUp, engine
<1>2. /\ jobs \in [Jobs -> [box : BoxRef, lease : BOOLEAN, adopted : BOOLEAN]] /\ egress \in [Jobs -> BoxRef]
      /\ destroys \in [Jobs -> [pc : DestroyPc, box : BoxRef]] /\ 0 \in BoxRef /\ TeardownTypes
  BY DaemonAssumption DEF DaemonInv, DaemonTypes, RegistryTypes, EngineTypes, TeardownTypes, BoxRef
<1>3. /\ Records(j) /\ Stage(j) /\ jobs[j].box # 0 /\ destroys[j].box = jobs[j].box
      /\ boxes[jobs[j].box].state = "gone" /\ ~Inflight(j) /\ creates[j].id = 0
  BY <1>1 DEF DaemonInv, Records, Numbering, DaemonTypes, CreateTypes, Inflight
<1>4. NoRecord.box = 0 /\ NoRecord \in [box : BoxRef, lease : BOOLEAN, adopted : BOOLEAN] /\ NoDestroy.pc = "none"
  BY <1>2 DEF NoRecord, NoDestroy
<1>5. /\ jobs'[j] = NoRecord /\ \A k \in Jobs \ {j} : jobs'[k] = jobs[k] /\ egress'[k] = egress[k]
      /\ egress' \in [Jobs -> BoxRef]
      /\ \A c \in stray' : c \in stray \/ (c.job = j /\ c.id = jobs[j].box /\ c \in [op : {"put", "delete"}, job : Jobs, id : Ids])
  <2>1. jobs[j].box \in Ids
    BY <1>3 DEF Records, Owns
  <2> QED BY <1>1, <1>2, <1>3, <2>1 DEF DeleteOf
<1>6. destroys'[j].pc = "none" /\ \A k \in Jobs \ {j} : destroys'[k] = destroys[k]
  BY <1>1, <1>2, <1>4 DEF Settle
<1>7. DaemonTypes'
  <2>1. RegistryTypes'
    BY <1>1, <1>2, <1>3, <1>4 DEF DaemonInv, DaemonTypes, RegistryTypes
  <2> QED BY <1>1, <1>5, <2>1, TeardownSettles DEF DaemonInv, DaemonTypes, CreateTypes, EngineTypes
<1>8. Numbering'
  BY <1>1, <1>3, <1>5 DEF DaemonInv, Numbering, Inflight
<1>9. ASSUME NEW k \in Jobs PROVE Stage(k)' /\ Records(k)'
  <2>1. Stage(k) /\ Records(k)
    BY DEF DaemonInv
  <2>2. CASE k # j
    BY <1>1, <1>5, <1>6, <2>1, <2>2 DEF Stage, Records, Owns, Inflight, Excused, ExcusedNext
  <2>3. CASE k = j
    BY <1>1, <1>3, <1>4, <1>5, <1>6, <2>3 DEF Stage, Records, Inflight, Excused, ExcusedNext
  <2> QED BY <2>2, <2>3
<1>10. \A p \in Passes : PassAt(p)'
  <2>1. Lasting /\ Strangers
    BY <1>1, <1>4, <1>5, DaemonAssumption DEF Lasting, Strangers, Ids
  <2>2. \A p \in Passes : PassCalm(p)
    BY <1>1, <1>2, SettleIsCalm DEF DaemonInv
  <2> QED BY <1>1, <2>1, <2>2, PassKeeps DEF DaemonInv
<1>11. \A k : (Known(k))' <=> Known(k)
  BY <1>1 DEF Known, RollbackFailed
<1>12. ASSUME NEW b \in Ids, Stands(b), Known(boxes[b].job) PROVE boxes[b].job \in Jobs \ {j}
  <2>1. boxes[b].job \in Jobs
    BY <1>12 DEF Stands, DaemonInv, DaemonTypes, EngineTypes
  <2> QED BY <1>1, <1>12, <2>1, NothingStands
<1>13. OneBox'
  BY <1>1, <1>11 DEF DaemonInv, OneBox, Standing
<1>14. Connected'
  <2>1. ASSUME Proxied, NEW b \in Ids, boxes[b].state = "up", Known(boxes[b].job)
        PROVE  egress'[boxes[b].job] = b \/ Excused(b)
    BY <1>5, <1>12, <2>1 DEF Stands, DaemonInv, Connected
  <2> QED BY <1>1, <1>11, <2>1 DEF Connected, Excused, ExcusedNext
<1>15. HandlesAreKept'
  <2>1. ASSUME rebuilt, NEW b \in Ids, Stands(b), b \notin reported, Known(boxes[b].job)
        PROVE  jobs'[boxes[b].job].box = b \/ creates[boxes[b].job].id = b
    BY <1>5, <1>12, <2>1 DEF DaemonInv, HandlesAreKept, Standing, Stands, Known
  <2> QED BY <1>1, <1>11, <2>1 DEF HandlesAreKept, Standing, Stands, Known
<1>16. Late'
  <2>1. ASSUME NEW c \in stray'
        PROVE  /\ Inflight(c.job) => c.id < creates[c.job].id
               /\ \A b \in Ids : boxes[b].state = "up" /\ boxes[b].job = c.job /\ Known(c.job) => c.id < b
               /\ c.id <= started
    <3>1. CASE c \in stray
      BY <3>1 DEF DaemonInv, Late
    <3>2. CASE c.job = j /\ c.id = jobs[j].box
      <4>1. \A b \in Ids : boxes[b].state = "up" /\ boxes[b].job = j => ~Known(j)
        BY <1>12 DEF Stands
      <4>2. c.id <= started
        <5>1. jobs[j].box \in Ids /\ boxes[jobs[j].box].state # "none" /\ started \in 0..MaxCreates /\ MaxCreates \in Nat
          BY <1>3, DaemonAssumption DEF Records, Owns, DaemonInv, DaemonTypes, CreateTypes, BoxRef
        <5>2. ~(jobs[j].box > started)
          BY <5>1 DEF DaemonInv, Numbering
        <5> QED BY <3>2, <5>1, <5>2 DEF Ids
      <4> QED BY <1>3, <3>2, <4>1, <4>2
    <3> QED BY <1>5, <2>1, <3>1, <3>2
  <2> QED BY <1>1, <1>11, <2>1 DEF Late, Inflight
<1> QED BY <1>7, <1>8, <1>9, <1>10, <1>13, <1>14, <1>15, <1>16 DEF DaemonInv

\* The boot rebuild: before it the daemon has a hand only on jobs it took on blindly,
\* and every other standing container is the only one of its job, and adopted.
LEMMA EngineIsRead ==
  ASSUME DaemonInv, NEW p \in Passes, RebuildDone(p)
  PROVE  DaemonInv'
<1>1. PICK pick \in Listings :
        jobs' = [j \in Jobs |-> IF Tracks(j) \/ pick[j] = 0 THEN jobs[j]
                               ELSE [box |-> pick[j], lease |-> TRUE, adopted |-> TRUE]]
  BY DEF RebuildDone
<1>2. /\ ~rebuilt /\ rebuilt'
      /\ UNCHANGED <<creates, destroys, boxes, reported, age, egress, stray, severed, started, blind>>
  BY DEF RebuildDone, engine, proxy
<1>3. PICK force \in SUBSET Jobs :
        passes' = [passes EXCEPT ![p] = [NoPass EXCEPT !.pc = "reap", !.force = force]]
  BY DEF RebuildDone
<1>4. /\ 0 \in BoxRef /\ Ids \subseteq BoxRef /\ 0 \notin Ids
      /\ jobs \in [Jobs -> [box : BoxRef, lease : BOOLEAN, adopted : BOOLEAN]] /\ passes \in [Passes -> Pass]
  BY DaemonAssumption DEF DaemonInv, DaemonTypes, RegistryTypes, TeardownTypes, Ids, BoxRef
<1>5. ASSUME NEW j \in Jobs
      PROVE  /\ BoxesOf(j) = {} => pick[j] = 0
             /\ BoxesOf(j) # {} => pick[j] \in BoxesOf(j)
             /\ pick[j] # 0 => Owns(j, pick[j]) /\ Stands(pick[j]) /\ pick[j] \in Ids
  BY DEF Listings, BoxesOf, Owns, Stands
<1>6. ASSUME NEW j \in Jobs
      PROVE  /\ Records(j) /\ (Tracks(j) => jobs'[j] = jobs[j] /\ j \in blind)
             /\ ~Tracks(j) => jobs[j].box = 0 /\ destroys[j].pc \in {"none", "await"} /\ ~Inflight(j)
             /\ ~Tracks(j) => jobs'[j].box = pick[j]
  <2>1. Records(j) /\ (Recorded(j) <=> jobs[j].box # 0) /\ destroys[j].pc \in DestroyPc
    BY RecordedByBox DEF DaemonInv, DaemonTypes, TeardownTypes
  <2> QED BY <1>1, <1>2, <2>1 DEF Tracks, Records, Destroying, DestroyPc
<1>7. DaemonTypes'
  <2>1. RegistryTypes'
    <3>1. \A j \in Jobs : pick[j] # 0 => [box |-> pick[j], lease |-> TRUE, adopted |-> TRUE] \in [box : BoxRef, lease : BOOLEAN, adopted : BOOLEAN]
      BY <1>4, <1>5
    <3> QED BY <1>1, <1>4, <3>1 DEF DaemonInv, DaemonTypes, RegistryTypes
  <2>2. [NoPass EXCEPT !.pc = "reap", !.force = force] \in Pass
    BY <1>3, <1>4 DEF NoPass, Pass
  <2>3. TeardownTypes'
    BY <1>2, <1>3, <1>4, <2>2 DEF DaemonInv, DaemonTypes, TeardownTypes
  <2> QED BY <1>2, <2>1, <2>3 DEF DaemonInv, DaemonTypes, CreateTypes, EngineTypes
<1>8. Numbering'
  <2>1. \A j \in Jobs : Inflight(j) => jobs'[j] = jobs[j]
    BY <1>6 DEF Tracks
  <2> QED BY <1>2, <2>1 DEF DaemonInv, Numbering, Inflight
<1>9. ASSUME NEW j \in Jobs PROVE Stage(j)' /\ Records(j)'
  <2>1. Stage(j) /\ Records(j)
    BY DEF DaemonInv
  <2>2. Stage(j)'
    BY <1>2, <2>1 DEF Stage, Owns, Excused, ExcusedNext
  <2>3. Records(j)'
    <3>1. CASE Tracks(j)
      BY <1>2, <1>6, <2>1, <3>1 DEF Records, Owns
    <3>2. CASE ~Tracks(j)
      BY <1>2, <1>5, <1>6, <3>2 DEF Records, Owns
    <3> QED BY <3>1, <3>2
  <2> QED BY <2>2, <2>3
<1>10. ASSUME NEW q \in Passes PROVE PassAt(q)'
  <2>1. PassAt(q)
    BY DEF DaemonInv
  <2>2. CASE q # p
    BY <1>2, <1>3, <1>4, <2>1, <2>2 DEF PassAt, Owns
  <2>3. CASE q = p
    <3>1. passes'[p] = [NoPass EXCEPT !.pc = "reap", !.force = force]
      BY <1>3, <1>4
    <3>2. passes'[q].todo = {} /\ passes'[q].box = 0
      BY <2>3, <3>1 DEF NoPass
    <3> QED BY <1>2, <3>2 DEF PassAt
  <2> QED BY <2>2, <2>3
<1>11. \A k : (Known(k))' <=> Known(k)
  BY <1>2 DEF Known, RollbackFailed
<1>12. OneBox' /\ Connected' /\ Late'
  BY <1>2, <1>11 DEF DaemonInv, OneBox, Connected, Late, Excused, ExcusedNext, Inflight, Standing
<1>13. HandlesAreKept'
  <2>1. ASSUME NEW b \in Ids, Stands(b), Known(boxes[b].job) PROVE jobs'[boxes[b].job].box = b
    <3>1. boxes[b].job \in Jobs /\ ~Tracks(boxes[b].job) /\ b \in BoxesOf(boxes[b].job)
      BY <1>6, <2>1 DEF Stands, Known, DaemonInv, DaemonTypes, EngineTypes, BoxesOf
    <3>2. pick[boxes[b].job] \in BoxesOf(boxes[b].job)
      BY <1>5, <3>1
    <3>3. pick[boxes[b].job] = b
      BY <2>1, <3>2 DEF DaemonInv, OneBox, Standing, Stands, BoxesOf
    <3> QED BY <1>6, <3>1, <3>3
  <2> QED BY <1>2, <1>11, <2>1 DEF HandlesAreKept, Standing, Stands, Known
<1> QED BY <1>7, <1>8, <1>9, <1>10, <1>12, <1>13 DEF DaemonInv

\* A restart forgets everything: what stands is found again by the rebuild.
LEMMA DaemonRestarts ==
  ASSUME DaemonInv, Restarts
  PROVE  DaemonInv'
<1>1. /\ jobs' = [j \in Jobs |-> NoRecord] /\ creates' = [j \in Jobs |-> NoCreate]
      /\ destroys' = [j \in Jobs |-> NoDestroy] /\ passes' = [p \in Passes |-> NoPass] /\ ~rebuilt' /\ rebuilt' = FALSE
      /\ UNCHANGED <<boxes, reported, age, egress, severed, started, blind>>
      /\ \A c \in stray' : c \in stray \/ c \in CallsUnderWay
  BY DEF Restarts, engine
<1>2. /\ NoRecord \in [box : BoxRef, lease : BOOLEAN, adopted : BOOLEAN] /\ NoRecord.box = 0
      /\ NoCreate \in [pc : CreatePc, id : BoxRef] /\ NoCreate.pc = "none" /\ NoCreate.id = 0
      /\ NoDestroy \in [pc : DestroyPc, box : BoxRef] /\ NoDestroy.pc = "none"
      /\ NoPass \in Pass /\ NoPass.pc = "none" /\ NoPass.todo = {} /\ NoPass.box = 0
  BY DaemonAssumption DEF NoRecord, NoCreate, NoDestroy, NoPass, BoxRef, CreatePc, DestroyPc, Pass
<1>0. ASSUME NEW c \in CallsUnderWay
      PROVE  /\ c \in [op : {"put", "delete"}, job : Jobs, id : Ids] /\ c.id <= started
             /\ \A b \in Ids : boxes[b].state = "up" /\ boxes[b].job = c.job => ~Known(c.job)
  <2>0. started \in 0..MaxCreates /\ MaxCreates \in Nat /\ Ids = 1..MaxCreates
    BY DaemonAssumption DEF DaemonInv, DaemonTypes, CreateTypes, BoxRef, Ids
  <2>1. ASSUME NEW j \in Jobs, creates[j].pc \in {"register", "withdraw", "withdraw_cancelled"},
               c = PutOf(j, creates[j].id) \/ c = DeleteOf(j, creates[j].id)
        PROVE  <1>0!2
    <3>1. creates[j].id \in Ids /\ creates[j].id <= started
      BY <2>0, <2>1 DEF DaemonInv, Numbering, Inflight
    <3> QED BY <2>1, <3>1, NothingRuns DEF PutOf, DeleteOf
  <2>2. ASSUME NEW j \in Jobs, destroys[j].pc = "withdraw", c = DeleteOf(j, destroys[j].box)
        PROVE  <1>0!2
    <3>1. destroys[j].box \in Ids /\ ~(destroys[j].box > started)
      BY <2>2 DEF DaemonInv, Records, Owns, Numbering
    <3>2. destroys[j].box \in Ids /\ destroys[j].box <= started
      BY <2>0, <3>1
    <3> QED BY <2>2, <3>2, NothingStands DEF DeleteOf, Stands
  <2> QED BY <2>1, <2>2 DEF CallsUnderWay, InCreate
<1>3. DaemonTypes'
  BY <1>0,  <1>1, <1>2 DEF DaemonInv, DaemonTypes, RegistryTypes, CreateTypes, TeardownTypes, EngineTypes
<1>4. Numbering' /\ \A j \in Jobs : Stage(j)' /\ Records(j)'
  BY <1>1, <1>2 DEF DaemonInv, Numbering, Stage, Records, Inflight, Excused, ExcusedNext
<1>5. \A p \in Passes : PassAt(p)'
  BY <1>1, <1>2 DEF PassAt
<1>6. OneBox' /\ Connected' /\ HandlesAreKept'
  BY <1>1 DEF DaemonInv, OneBox, Connected, Excused, ExcusedNext, Standing, Known, RollbackFailed, HandlesAreKept
<1>7. Late'
  <2>1. \A k : (Known(k))' <=> Known(k)
    BY <1>1 DEF Known, RollbackFailed
  <2>2. \A c \in stray' : c.job \in Jobs
    BY <1>3 DEF DaemonTypes, EngineTypes
  <2> QED BY <1>0, <1>1, <1>2, <2>1, <2>2 DEF DaemonInv, Late, Inflight
<1> QED BY <1>3, <1>4, <1>5, <1>6, <1>7 DEF DaemonInv

(***************************************************************************)
(* The passes of the reaper.                                               *)
(***************************************************************************)
\* One pass goes on while the engine rests: it holds what was made for the job it is
\* listed under.
LEMMA PassGoesOn ==
  ASSUME DaemonInv, NEW p \in Passes, NEW pass \in Pass,
         passes' = [passes EXCEPT ![p] = pass],
         \A t \in pass.todo : t.box # 0 => Owns(t.job, t.box),
         pass.box # 0 => /\ pass.pc = "orphans" /\ pass.on \in Jobs /\ Owns(pass.on, pass.box)
                         /\ jobs[pass.on].box # pass.box /\ creates[pass.on].id # pass.box,
         pass.pc # "none" => rebuilt,
         destroys' \in [Jobs -> [pc : DestroyPc, box : BoxRef]],
         \A j \in Jobs : Records(j)',
         UNCHANGED <<jobs, creates, rebuilt, boxes, reported, age, egress, stray, severed, started, blind>>
  PROVE  DaemonInv'
<1>1. passes'[p] = pass /\ (\A q \in Passes \ {p} : passes'[q] = passes[q]) /\ passes' \in [Passes -> Pass]
  BY DEF DaemonInv, DaemonTypes, TeardownTypes
<1>2. Modest
  BY DEF Modest, Worn, Excused, ExcusedNext
<1>3. DaemonTypes'
  BY <1>1 DEF DaemonInv, DaemonTypes, RegistryTypes, CreateTypes, TeardownTypes, EngineTypes
<1>4. ASSUME NEW q \in Passes PROVE PassAt(q)'
  <2>1. PassAt(q)
    BY DEF DaemonInv
  <2>2. CASE q # p
    BY <1>1, <2>1, <2>2 DEF PassAt, Owns
  <2>3. CASE q = p
    BY <1>1, <2>3 DEF PassAt, Owns
  <2> QED BY <2>2, <2>3
<1> QED BY <1>2, <1>3, <1>4, ModestConcludes

LEMMA RestKeepsRecords ==
  ASSUME DaemonInv, UNCHANGED <<jobs, creates, destroys, rebuilt, boxes, reported, age, egress, stray, severed, started, blind>>
  PROVE  (\A j \in Jobs : Records(j)') /\ destroys' \in [Jobs -> [pc : DestroyPc, box : BoxRef]]
BY DEF DaemonInv, Records, Owns, Inflight, DaemonTypes, TeardownTypes

LEMMA CalledKeepsRecords ==
  ASSUME DaemonInv, NEW j \in Jobs, DestroyCall(j),
         UNCHANGED <<jobs, creates, rebuilt, boxes, reported, age, egress, stray, severed, started, blind>>
  PROVE  (\A k \in Jobs : Records(k)') /\ destroys' \in [Jobs -> [pc : DestroyPc, box : BoxRef]]
<1>1. Modest
  BY DEF Modest, Worn, Excused, ExcusedNext
<1> QED BY <1>1, DestroyCallKeeps, DestroyCallTyped DEF DaemonInv

LEMMA NoPassTyped ==
  NoPass \in Pass /\ NoPass.pc = "none" /\ NoPass.todo = {} /\ NoPass.box = 0
BY DaemonAssumption DEF NoPass, Pass, BoxRef

\* A sweep lists the records it finds; the orphan sweep lists the engine.
LEMMA SweepBegins ==
  ASSUME DaemonInv, forceReap \subseteq Jobs, NEW p \in Passes, SweepStarts(p)
  PROVE  DaemonInv'
<1> DEFINE todo == {[job |-> j, box |-> jobs[j].box] : j \in {k \in Jobs : Recorded(k) /\ Expired(k)}}
           pass == [NoPass EXCEPT !.pc = "reap", !.force = forceReap, !.todo = todo]
<1>1. /\ rebuilt /\ UNCHANGED <<jobs, creates, destroys, rebuilt, boxes, reported, age, egress, stray, severed, started, blind>>
      /\ passes' = [passes EXCEPT ![p] = pass]
  BY DEF SweepStarts, engine, proxy
<1>2. todo \subseteq Reference /\ \A t \in todo : t.box # 0 => Owns(t.job, t.box)
  <2>1. ASSUME NEW j \in Jobs
        PROVE  /\ [job |-> j, box |-> jobs[j].box] \in Reference
               /\ jobs[j].box # 0 => Owns(j, jobs[j].box)
    BY DEF DaemonInv, DaemonTypes, RegistryTypes, Reference, Records
  <2> QED BY <2>1
<1>3. /\ pass \in Pass /\ pass.box = 0 /\ pass.todo = todo
  <2>1. todo \in SUBSET Reference /\ forceReap \in SUBSET Jobs /\ "reap" \in {"reap", "orphans"}
    BY <1>2
  <2> HIDE DEF todo
  <2> QED BY <2>1, NoPassTyped DEF Pass
<1> HIDE DEF pass, todo
<1> QED BY <1>1, <1>2, <1>3, RestKeepsRecords, PassGoesOn

LEMMA OrphansAreListed ==
  ASSUME DaemonInv, NEW p \in Passes, OrphansListed(p)
  PROVE  DaemonInv'
<1>1. PICK pick \in Listings :
        passes' = [passes EXCEPT ![p] = [NoPass EXCEPT !.pc = "orphans", !.todo =
                    {[job |-> j, box |-> pick[j]] : j \in {k \in Jobs : pick[k] # 0 \/ k \in residue}}]]
  BY DEF OrphansListed
<1> DEFINE todo == {[job |-> j, box |-> pick[j]] : j \in {k \in Jobs : pick[k] # 0 \/ k \in residue}}
           pass == [NoPass EXCEPT !.pc = "orphans", !.todo = todo]
<1>2. rebuilt /\ UNCHANGED <<jobs, creates, destroys, rebuilt, boxes, reported, age, egress, stray, severed, started, blind>>
  BY DEF OrphansListed, engine, proxy, DaemonInv, PassAt, At
<1>3. todo \subseteq Reference /\ \A t \in todo : t.box # 0 => Owns(t.job, t.box)
  <2>1. ASSUME NEW j \in Jobs
        PROVE  /\ [job |-> j, box |-> pick[j]] \in Reference
               /\ pick[j] # 0 => Owns(j, pick[j])
    <3>1. pick[j] \in BoxRef
      BY DaemonAssumption DEF Listings, BoxRef, Ids
    <3>2. pick[j] # 0 => pick[j] \in BoxesOf(j)
      BY DEF Listings
    <3> QED BY <3>1, <3>2 DEF Reference, BoxesOf, Owns
  <2> QED BY <2>1
<1>4. /\ pass \in Pass /\ pass.box = 0 /\ pass.todo = todo
  <2>1. todo \in SUBSET Reference /\ {} \in SUBSET Jobs /\ "orphans" \in {"reap", "orphans"}
    BY <1>3
  <2> HIDE DEF todo
  <2> QED BY <2>1, NoPassTyped DEF Pass
<1>5. passes' = [passes EXCEPT ![p] = pass]
  BY <1>1
<1> HIDE DEF pass, todo
<1> QED BY <1>2, <1>3, <1>4, <1>5, RestKeepsRecords, PassGoesOn

\* One job of the listing, or one boot-stale job, is torn down.
LEMMA ReapCalls ==
  ASSUME DaemonInv, NEW p \in Passes, ReapNext(p) \/ ForceNext(p)
  PROVE  DaemonInv'
<1>1. /\ passes[p].pc = "reap" /\ passes[p].box = 0 /\ passes[p] \in Pass /\ rebuilt
      /\ \A t \in passes[p].todo : t.box # 0 => Owns(t.job, t.box)
      /\ UNCHANGED <<jobs, creates, rebuilt, boxes, reported, age, egress, stray, severed, started, blind>>
  <2>1. passes[p].pc = "reap" /\ UNCHANGED <<jobs, creates, rebuilt, boxes, reported, age, egress, stray, severed, started, blind>>
    BY DEF ReapNext, ForceNext, At, engine, proxy
  <2> QED BY <2>1 DEF DaemonInv, PassAt, DaemonTypes, TeardownTypes
<1>2. ASSUME NEW todo \in SUBSET passes[p].todo, NEW force \in SUBSET passes[p].force,
             NEW stale \in BOOLEAN, NEW on \in Jobs \cup {NoJob},
             passes' = [passes EXCEPT ![p] = [passes[p] EXCEPT !.todo = todo, !.force = force, !.stale = stale, !.on = on]],
             destroys' \in [Jobs -> [pc : DestroyPc, box : BoxRef]], \A j \in Jobs : Records(j)'
      PROVE  DaemonInv'
  <2> DEFINE pass == [passes[p] EXCEPT !.todo = todo, !.force = force, !.stale = stale, !.on = on]
  <2>1. pass \in Pass /\ pass.todo = todo /\ pass.box = 0 /\ pass.pc = "reap"
    BY <1>1, <1>2 DEF Pass
  <2>2. passes' = [passes EXCEPT ![p] = pass]
    BY <1>2
  <2> HIDE DEF pass
  <2> QED BY <1>1, <1>2, <2>1, <2>2, PassGoesOn
<1>3. CASE ReapNext(p)
  <2>1. PICK t \in passes[p].todo :
          \E skip \in BOOLEAN :
            /\ IF skip THEN UNCHANGED <<destroys, cancelled>> ELSE DestroyCall(t.job)
            /\ passes' = [passes EXCEPT ![p].todo = @ \ {t}, ![p].stale = FALSE,
                            ![p].on = IF skip \/ destroys'[t.job].pc = "none" THEN NoJob ELSE t.job]
    BY <1>3 DEF ReapNext
  <2>2. t.job \in Jobs
    BY <1>1 DEF Pass, Reference
  <2>3. destroys' \in [Jobs -> [pc : DestroyPc, box : BoxRef]] /\ \A j \in Jobs : Records(j)'
    BY <1>1, <2>1, <2>2, CalledKeepsRecords, RestKeepsRecords
  <2>4. PICK on \in {NoJob, t.job} : passes' = [passes EXCEPT ![p].todo = @ \ {t}, ![p].stale = FALSE, ![p].on = on]
    BY <2>1
  <2>5. passes' = [passes EXCEPT ![p] = [passes[p] EXCEPT !.todo = passes[p].todo \ {t}, !.force = passes[p].force,
                                           !.stale = FALSE, !.on = on]]
    BY <1>1, <2>4 DEF DaemonInv, DaemonTypes, TeardownTypes, Pass
  <2>6. passes[p].todo \ {t} \in SUBSET passes[p].todo /\ passes[p].force \in SUBSET passes[p].force
        /\ on \in Jobs \cup {NoJob}
    BY <2>2
  <2> QED BY <1>2, <2>3, <2>5, <2>6
<1>4. CASE ForceNext(p)
  <2>1. PICK j \in passes[p].force :
          /\ DestroyCall(j)
          /\ passes' = [passes EXCEPT ![p].force = @ \ {j}, ![p].stale = TRUE,
                          ![p].on = IF destroys'[j].pc = "none" THEN NoJob ELSE j]
    BY <1>4 DEF ForceNext
  <2>2. j \in Jobs
    BY <1>1 DEF Pass
  <2>3. destroys' \in [Jobs -> [pc : DestroyPc, box : BoxRef]] /\ \A k \in Jobs : Records(k)'
    BY <1>1, <2>1, <2>2, CalledKeepsRecords
  <2>4. PICK on \in {NoJob, j} : passes' = [passes EXCEPT ![p].force = @ \ {j}, ![p].stale = TRUE, ![p].on = on]
    BY <2>1
  <2>5. passes' = [passes EXCEPT ![p] = [passes[p] EXCEPT !.todo = passes[p].todo, !.force = passes[p].force \ {j},
                                           !.stale = TRUE, !.on = on]]
    BY <1>1, <2>4 DEF DaemonInv, DaemonTypes, TeardownTypes, Pass
  <2>6. passes[p].todo \in SUBSET passes[p].todo /\ passes[p].force \ {j} \in SUBSET passes[p].force
        /\ on \in Jobs \cup {NoJob}
    BY <2>2
  <2> QED BY <1>2, <2>3, <2>5, <2>6
<1> QED BY <1>3, <1>4

\* The orphan sweep takes up an orphan, tears it down, and comes to its end.
LEMMA OrphanTakenUp ==
  ASSUME DaemonInv, NEW p \in Passes, OrphanNext(p)
  PROVE  DaemonInv'
<1>1. /\ passes[p].pc = "orphans" /\ passes[p] \in Pass /\ rebuilt
      /\ UNCHANGED <<jobs, creates, destroys, rebuilt, boxes, reported, age, egress, stray, severed, started, blind>>
      /\ passes \in [Passes -> Pass]
  BY DEF OrphanNext, At, engine, proxy, DaemonInv, DaemonTypes, TeardownTypes, PassAt
<1>2. PICK t \in passes[p].todo :
        passes' = [passes EXCEPT ![p].todo = @ \ {t},
                     ![p].on = IF IsOrphan(t.job) THEN t.job ELSE NoJob,
                     ![p].box = IF IsOrphan(t.job) THEN t.box ELSE 0]
  BY DEF OrphanNext
<1> DEFINE on == IF IsOrphan(t.job) THEN t.job ELSE NoJob
           box == IF IsOrphan(t.job) THEN t.box ELSE 0
           pass == [passes[p] EXCEPT !.todo = passes[p].todo \ {t}, !.on = on, !.box = box]
<1>3. t \in Reference /\ t.job \in Jobs /\ t.box \in BoxRef /\ 0 \in BoxRef
  BY <1>1, DaemonAssumption DEF Pass, Reference, BoxRef
<1>4. \A u \in passes[p].todo : u.box # 0 => Owns(u.job, u.box)
  BY DEF DaemonInv, PassAt
<1>5. box # 0 => /\ on = t.job /\ Owns(on, box)
                 /\ jobs[on].box # box /\ creates[on].id # box
  <2>1. box # 0 => IsOrphan(t.job) /\ box = t.box /\ on = t.job
    OBVIOUS
  <2>2. IsOrphan(t.job) => jobs[t.job].box = 0 /\ creates[t.job].id = 0
    BY <1>3, RecordedByBox DEF IsOrphan, Tracks, Inflight, DaemonInv, DaemonTypes, CreateTypes
  <2> QED BY <1>3, <1>4, <2>1, <2>2
<1>6. on \in Jobs \cup {NoJob} /\ box \in BoxRef
  BY <1>3
<1>7. passes' = [passes EXCEPT ![p] = pass]
  BY <1>1, <1>2
<1> HIDE DEF on, box
<1>8. pass \in Pass /\ pass.todo = passes[p].todo \ {t} /\ pass.on = on /\ pass.box = box /\ pass.pc = "orphans"
  BY <1>1, <1>6 DEF Pass
<1> HIDE DEF pass
<1> QED BY <1>1, <1>3, <1>4, <1>5, <1>7, <1>8, RestKeepsRecords, PassGoesOn

LEMMA OrphanTornDown ==
  ASSUME DaemonInv, NEW p \in Passes, NEW torn \in BOOLEAN, OrphanLeaves(p, torn)
  PROVE  DaemonInv'
<1> DEFINE j == passes[p].on
           b == passes[p].box
<1>1. /\ passes[p].pc = "orphans" /\ j # NoJob /\ (TornDown(j, b) \/ TeardownFails(j, b))
      /\ passes' = [passes EXCEPT ![p].on = NoJob, ![p].box = 0]
      /\ UNCHANGED <<jobs, creates, destroys, rebuilt, reported, age, egress, stray, severed, started, blind>>
  BY DEF OrphanLeaves, At, proxy
<1>2. passes \in [Passes -> Pass] /\ passes[p] \in Pass /\ j \in Jobs /\ b \in BoxRef /\ (b = 0 \/ Owns(j, b)) /\ 0 \in BoxRef
  BY <1>1, DaemonAssumption DEF DaemonInv, DaemonTypes, TeardownTypes, Pass, PassAt, BoxRef
<1>3. Modest
  BY <1>1, <1>2, TeardownWears DEF Modest, Excused, ExcusedNext
<1>4. EngineTypes'
  BY <1>1, <1>2, TeardownTyped DEF DaemonInv, Owns
<1>5. /\ \A q \in Passes \ {p} : passes'[q] = passes[q]
      /\ passes'[p] \in Pass /\ passes'[p].todo = passes[p].todo /\ passes'[p].box = 0 /\ passes'[p].pc = passes[p].pc
      /\ passes' \in [Passes -> Pass]
  <2>1. [passes[p] EXCEPT !.on = NoJob, !.box = 0] \in Pass
    BY <1>2 DEF Pass
  <2> QED BY <1>1, <1>2, <2>1 DEF Pass
<1>6. DaemonTypes'
  BY <1>1, <1>4, <1>5 DEF DaemonInv, DaemonTypes, RegistryTypes, CreateTypes, TeardownTypes
<1>7. \A q \in Passes : PassCalm(q)
  BY <1>5 DEF PassCalm
<1> QED BY <1>1, <1>3, <1>6, <1>7, UnchangedRecords, CalmPasses, ModestConcludes

LEMMA SweepCloses ==
  ASSUME DaemonInv, NEW p \in Passes, PassEnds(p)
  PROVE  DaemonInv'
<1>1. /\ passes' = [passes EXCEPT ![p] = NoPass]
      /\ UNCHANGED <<jobs, creates, destroys, rebuilt, boxes, reported, age, egress, stray, severed, started, blind>>
  BY DEF PassEnds, engine, proxy
<1> QED BY <1>1, NoPassTyped, RestKeepsRecords, PassGoesOn

(***************************************************************************)
(* The invariant and what it gives.                                        *)
(***************************************************************************)
LEMMA DaemonInitially ==
  ASSUME Init
  PROVE  DaemonInv /\ forceReap \subseteq Jobs
<1>1. /\ jobs = [j \in Jobs |-> NoRecord] /\ creates = [j \in Jobs |-> NoCreate]
      /\ destroys = [j \in Jobs |-> NoDestroy] /\ passes = [p \in Passes |-> NoPass] /\ rebuilt = FALSE /\ forceReap = {}
      /\ boxes = [b \in Ids |-> [job |-> NoJob, state |-> "none"]]
      /\ reported = {} /\ egress = [j \in Jobs |-> 0] /\ started = 0
      /\ age = [b \in Ids |-> 0] /\ stray = {}
  BY DEF Init
<1>2. /\ NoRecord \in [box : BoxRef, lease : BOOLEAN, adopted : BOOLEAN] /\ NoRecord.box = 0
      /\ NoCreate \in [pc : CreatePc, id : BoxRef] /\ NoCreate.pc = "none" /\ NoCreate.id = 0
      /\ NoDestroy \in [pc : DestroyPc, box : BoxRef] /\ NoDestroy.pc = "none" /\ 0 \in BoxRef
      /\ [job |-> NoJob, state |-> "none"] \in Box
  BY DaemonAssumption DEF NoRecord, NoCreate, NoDestroy, BoxRef, CreatePc, DestroyPc, Box
<1>3. DaemonTypes
  <2>1. RegistryTypes /\ CreateTypes
    BY <1>1, <1>2 DEF RegistryTypes, CreateTypes
  <2>2. TeardownTypes
    BY <1>1, <1>2, NoPassTyped DEF TeardownTypes
  <2>3. EngineTypes
    BY <1>1, <1>2 DEF EngineTypes
  <2> QED BY <1>1, <2>1, <2>2, <2>3 DEF DaemonTypes
<1>4. Numbering /\ \A j \in Jobs : Stage(j) /\ Records(j)
  BY <1>1, <1>2 DEF Numbering, Stage, Records, Inflight
<1>5. \A p \in Passes : PassAt(p)
  BY <1>1, NoPassTyped DEF PassAt
<1>6. OneBox /\ Connected /\ Late /\ HandlesAreKept
  BY <1>1 DEF OneBox, Connected, Late, HandlesAreKept, Standing
<1> QED BY <1>1, <1>3, <1>4, <1>5, <1>6 DEF DaemonInv

\* Only a job whose teardown failed is reaped by force.
LEMMA ForceStep ==
  ASSUME forceReap \subseteq Jobs, [Next]_vars
  PROVE  forceReap' \subseteq Jobs
<1>1. ASSUME NEW j \in Jobs, NEW ok, Settle(j, ok) PROVE forceReap' \subseteq Jobs
  BY <1>1 DEF Settle
<1>2. ASSUME NEW j \in Jobs, NEW outcome, CreateSettles(j, outcome) PROVE forceReap' \subseteq Jobs
  BY <1>1, <1>2 DEF CreateSettles, Quiet
<1>3. ASSUME NEW j \in Jobs, CreateWithdraws(j) PROVE forceReap' \subseteq Jobs
  BY <1>2, <1>3 DEF CreateWithdraws
<1>4. ASSUME NEW j \in Jobs, Create(j) \/ Renew(j) \/ Delete(j) \/ LeaseLapses(j) \/ PolicyFetched(j) \/ EgressRegistered(j)
                 \/ ResourcesMade(j) \/ CreateFails(j) \/ UndoSucceeds(j) \/ TeardownDone(j)
      PROVE  forceReap' \subseteq Jobs
  BY <1>4 DEF Create, Renew, Delete, LeaseLapses, PolicyFetched, EgressRegistered,
       ResourcesMade, CreateFails, UndoSucceeds, TeardownDone, Quiet
<1>5. ASSUME NEW j \in Jobs, PolicyRefused(j) \/ EgressRefused(j) \/ ContainerStarted(j) \/ UndoFails(j)
                 \/ TeardownBreaks(j) \/ Forgets(j)
      PROVE  forceReap' \subseteq Jobs
  BY <1>1, <1>2, <1>5 DEF PolicyRefused, EgressRefused, ContainerStarted, UndoFails, TeardownBreaks, Forgets, Quiet
<1>6. ASSUME NEW p \in Passes, SweepStarts(p) \/ RebuildDone(p) \/ ReapNext(p) \/ ForceNext(p)
                 \/ OrphansListed(p) \/ OrphanNext(p) \/ OrphanLeaves(p, TRUE) \/ OrphanLeaves(p, FALSE)
                 \/ PassEnds(p) \/ PassAbandoned(p)
      PROVE  forceReap' \subseteq Jobs
  BY <1>6 DEF SweepStarts, RebuildDone, ReapNext, ForceNext, OrphansListed, OrphanNext, OrphanLeaves, PassEnds, PassAbandoned
<1>7. CASE \/ \E b \in Ids : GrowsOld(b) \/ RunnerExits(b)
           \/ (\E j \in Jobs : EgressLapses(j)) \/ ProxyRestarts \/ (\E c \in stray : StrayArrives(c))
           \/ BootGivesUp \/ Restarts \/ UNCHANGED vars
  BY <1>7 DEF GrowsOld, RunnerExits, EgressLapses, ProxyRestarts, StrayArrives, BootGivesUp, Restarts, vars, memory
<1> QED BY <1>3, <1>4, <1>5, <1>6, <1>7 DEF Next

LEMMA DaemonStep ==
  ASSUME DaemonInv, forceReap \subseteq Jobs, [Next]_vars
  PROVE  DaemonInv'
<1>1. CASE \E j \in Jobs : \/ Create(j) \/ Renew(j) \/ Delete(j) \/ TeardownDone(j) \/ TeardownBreaks(j)
                           \/ Forgets(j) \/ LeaseLapses(j)
  BY <1>1, ProvisionBegins, LeaseKeeps, DeleteKeeps, TeardownGoesOn, RecordGoes
<1>2. CASE \E j \in Jobs : \/ PolicyFetched(j) \/ PolicyRefused(j) \/ EgressRegistered(j) \/ EgressRefused(j)
                           \/ ResourcesMade(j) \/ ContainerStarted(j) \/ CreateFails(j)
                           \/ UndoFails(j) \/ UndoSucceeds(j) \/ CreateWithdraws(j)
  BY <1>2, ProvisionGoesOn, ProvisionEnds, ProvisionStarts, ProvisionRollsBack, ProvisionUndone
<1>3. CASE \E p \in Passes : \/ SweepStarts(p) \/ RebuildDone(p) \/ ReapNext(p) \/ ForceNext(p)
                             \/ OrphansListed(p) \/ OrphanNext(p) \/ PassEnds(p)
  BY <1>3, SweepBegins, EngineIsRead, ReapCalls, OrphansAreListed, OrphanTakenUp, SweepCloses
<1>4. CASE \E p \in Passes : OrphanLeaves(p, TRUE) \/ OrphanLeaves(p, FALSE)
  <2>1. PICK p \in Passes, torn \in BOOLEAN : OrphanLeaves(p, torn)
    BY <1>4
  <2> QED BY <2>1, OrphanTornDown
<1>5. CASE (\E b \in Ids : GrowsOld(b) \/ RunnerExits(b)) \/ (\E p \in Passes : PassAbandoned(p)) \/ BootGivesUp
  BY <1>5, TimePasses
<1>6. CASE Restarts
  BY <1>6, DaemonRestarts
<1>8. CASE (\E j \in Jobs : EgressLapses(j)) \/ ProxyRestarts \/ (\E c \in stray : StrayArrives(c))
  BY <1>8, ProxyMoves
<1>7. CASE UNCHANGED vars
  <2>1. UNCHANGED <<jobs, creates, destroys, passes, rebuilt, boxes, reported, age, egress, stray, severed, started, blind>>
    BY <1>7 DEF vars, memory, engine, proxy
  <2>2. Modest /\ \A p \in Passes : PassCalm(p)
    BY <2>1 DEF Modest, Worn, PassCalm, Excused, ExcusedNext
  <2>3. DaemonTypes'
    BY <2>1 DEF DaemonInv, DaemonTypes, RegistryTypes, CreateTypes, TeardownTypes, EngineTypes
  <2> QED BY <2>1, <2>2, <2>3, UnchangedRecords, CalmPasses, ModestConcludes
<1> QED BY <1>1, <1>2, <1>3, <1>4, <1>5, <1>6, <1>7, <1>8 DEF Next

LEMMA DaemonHolds == Spec => [](DaemonInv /\ forceReap \subseteq Jobs)
<1>1. Init => DaemonInv /\ forceReap \subseteq Jobs
  BY DaemonInitially
<1>2. DaemonInv /\ forceReap \subseteq Jobs /\ [Next]_vars => (DaemonInv /\ forceReap \subseteq Jobs)'
  BY DaemonStep, ForceStep
<1> QED BY <1>1, <1>2, PTL DEF Spec

\* jobs.mjs keeps a handle on every container it made: in the registry, or in the hands
\* of the provision that made it, from the rebuild of one life of the daemon to its end.
THEOREM HandlesKept == Spec => []HandlesAreKept
<1>1. DaemonInv => HandlesAreKept
  BY DEF DaemonInv
<1> QED BY <1>1, DaemonHolds, PTL

\* A running container of a job that is not being torn down has the registration of its
\* own provision in force at the egress proxy, within its lifetime: no step of jobs.mjs
\* cuts it off, a failed teardown no more than a restart.  Only a restart of the proxy or
\* the late call of an earlier provision does.
THEOREM RunningHasEgress == Spec => []EgressWhileRunning
<1>1. ASSUME DaemonInv PROVE EgressWhileRunning
  <2>1. ASSUME Proxied, NEW j \in Jobs, Recorded(j), boxes[jobs[j].box].state = "up", ~RollbackFailed(j), j \notin blind,
               age[jobs[j].box] = 0, jobs[j].box \notin severed
        PROVE  egress[j] = jobs[j].box
    <3>1. Owns(j, jobs[j].box)
      BY <1>1, <2>1, RecordedByBox DEF DaemonInv, Records
    <3> QED BY <1>1, <2>1, <3>1 DEF DaemonInv, Connected, Known, Owns, Excused, ExcusedNext
  <2> QED BY <2>1 DEF EgressWhileRunning
<1> QED BY <1>1, DaemonHolds, PTL

\* The orphan sweep of reaper.mjs works on a listing that may be old: what it tears down
\* is still not the container of any record.
THEOREM SweepSpares == Spec => OrphanSweepSparesRecords
<1>1. ASSUME DaemonInv, NEW p \in Passes, OrphanLeaves(p, TRUE) \/ OrphanLeaves(p, FALSE), NEW k \in Jobs, Recorded(k)
      PROVE  boxes'[jobs[k].box] = boxes[jobs[k].box]
  <2> DEFINE j == passes[p].on
             b == passes[p].box
  <2>1. passes[p].pc = "orphans" /\ j # NoJob /\ (TornDown(j, b) \/ TeardownFails(j, b))
    BY <1>1 DEF OrphanLeaves, At
  <2>2. j \in Jobs /\ b \in BoxRef /\ (b # 0 => Owns(j, b) /\ jobs[j].box # b)
    BY <1>1, <2>1 DEF DaemonInv, DaemonTypes, TeardownTypes, Pass, PassAt
  <2>3. Owns(k, jobs[k].box) /\ jobs[k].box \in Ids
    BY <1>1, RecordedByBox DEF DaemonInv, Records, Owns
  <2>4. jobs[k].box # b
    BY <2>2, <2>3, DaemonAssumption DEF Owns, Ids
  <2> QED BY <1>1, <2>1, <2>2, <2>3, <2>4, TeardownWears
<1>2. DaemonInv => (\A p \in Passes : OrphanLeaves(p, TRUE) \/ OrphanLeaves(p, FALSE)
        => \A j \in Jobs : Recorded(j) => boxes'[jobs[j].box] = boxes[jobs[j].box])
  BY <1>1
<1> QED BY <1>2, DaemonHolds, PTL DEF OrphanSweepSparesRecords
=============================================================================
