---------------------------- MODULE JobResources ----------------------------
(***************************************************************************)
(* What one job leaves on the engine: a network, a workspace volume, the   *)
(* job container and, for a job with Docker inside, two volumes and a      *)
(* sidecar.  RunnerDaemon sees a create and a teardown as one outcome; here*)
(* every engine call of them is a step that may fail, or succeed with its  *)
(* answer lost, and the daemon may restart between any two.                *)
(***************************************************************************)
EXTENDS Naturals, Sequences, SequencesExt

CONSTANTS MaxRounds,    \* bound: creates and restarts
          MaxFailures   \* bound: removals that fail without a reason

ASSUME ResourcesAssumption == MaxRounds \in Nat /\ MaxFailures \in Nat

VARIABLES
  dind,      \* the job runs with Docker inside
  parts,     \* what stands on the engine under the label of the job
  doing,     \* what the daemon is at
  todo,      \* the engine calls still to make
  made,      \* what a create has in hand, for its rollback
  errors,    \* a removal of the teardown under way failed
  handle,    \* the record of the job: whether it has one, and its sidecar flag
  rounds, failures

resources == <<dind, parts, doing, todo, made, errors, handle, rounds, failures>>

Sidecar == {"images", "certs", "sidecar"}
Parts == {"network", "workspace", "container"} \cup Sidecar
MakeOrder(withDind) ==
  IF withDind THEN <<"network", "workspace", "images", "certs", "sidecar", "container">>
              ELSE <<"network", "workspace", "container">>
BreakOrder == <<"container", "sidecar", "network", "workspace", "images", "certs">>
NoHandle == [held |-> FALSE, dind |-> FALSE]

\* A container, running or not, holds its volumes: they cannot be removed
\* before it.  Its network it holds only while it runs.
InUse(p) == \/ "container" \in parts /\ p \in {"workspace", "certs"}
            \/ "sidecar" \in parts /\ p \in {"images", "certs"}
MayBeInUse(p) == InUse(p) \/ (p = "network" /\ parts \cap {"container", "sidecar"} # {})

Covers(order, set) == SelectSeq(order, LAMBDA p : p \in set)

\* The removals a teardown makes with a handle: the sidecar's only if the handle
\* says there is one, the container's only if the handle names it.
Teardown(withDind, withContainer) ==
  (IF withContainer THEN <<"container">> ELSE <<>>)
    \o (IF withDind THEN <<"sidecar", "network", "workspace", "images", "certs">>
                    ELSE <<"network", "workspace">>)

ResourcesInit ==
  /\ dind \in BOOLEAN /\ parts = {} /\ doing = "idle" /\ todo = <<>> /\ made = {}
  /\ errors = FALSE /\ handle = NoHandle /\ rounds = 0 /\ failures = 0

\* A provision starts: the create options were built and the image is there.
MakesContainer ==
  /\ doing = "idle" /\ parts = {} /\ rounds < MaxRounds
  /\ doing' = "create" /\ rounds' = rounds + 1 /\ made' = {}
  /\ todo' = MakeOrder(dind)
  /\ UNCHANGED <<dind, parts, errors, handle, failures>>

PartMade ==
  /\ doing = "create" /\ todo # <<>>
  /\ parts' = parts \cup {Head(todo)} /\ made' = made \cup {Head(todo)} /\ todo' = Tail(todo)
  /\ UNCHANGED <<dind, doing, errors, handle, rounds, failures>>

ContainerMade ==
  /\ doing = "create" /\ todo = <<>>
  /\ doing' = "live" /\ handle' = [held |-> TRUE, dind |-> dind] /\ made' = {}
  /\ UNCHANGED <<dind, parts, todo, errors, rounds, failures>>

\* A call throws: nothing was made, or the answer was lost, or the container was
\* made and did not start.  Only what the create has in hand is rolled back.
PartFails ==
  /\ doing = "create" /\ todo # <<>>
  /\ LET p == Head(todo) IN
     \E made1 \in {made} \cup (IF p \in {"sidecar", "container"} THEN {made \cup {p}} ELSE {}) :
       /\ parts' \in {parts \cup made1} \cup (IF made1 = made THEN {parts \cup {p}} ELSE {})
       /\ todo' = Covers(BreakOrder, made1)
  /\ doing' = "rollback" /\ made' = {} /\ errors' = FALSE
  /\ UNCHANGED <<dind, handle, rounds, failures>>

-----------------------------------------------------------------------------
Removing == doing \in {"rollback", "destroy", "sweep"} /\ todo # <<>>

\* Removed and verified; a resource that is not there is gone as well.
PartGone ==
  /\ Removing /\ (Head(todo) \in parts => ~InUse(Head(todo)))
  /\ parts' = parts \ {Head(todo)} /\ todo' = Tail(todo)
  /\ UNCHANGED <<dind, doing, made, errors, handle, rounds, failures>>

\* Mutant of PartStays: the remove call is believed without an inspect.
PartBelievedGone ==
  /\ Removing /\ Head(todo) \in parts
  /\ todo' = Tail(todo)
  /\ UNCHANGED <<dind, parts, doing, made, errors, handle, rounds, failures>>

\* Still present after the remove call, or not verifiable: an error, and the
\* teardown goes on with the next resource.
PartStays ==
  /\ Removing /\ Head(todo) \in parts
  /\ \/ MayBeInUse(Head(todo)) /\ UNCHANGED <<parts, failures>>
     \/ /\ failures < MaxFailures /\ failures' = failures + 1
        /\ parts' \in {parts} \cup (IF InUse(Head(todo)) THEN {} ELSE {parts \ {Head(todo)}})
  /\ errors' = TRUE /\ todo' = Tail(todo)
  /\ UNCHANGED <<dind, doing, made, handle, rounds>>

\* The create throws, with the names of what survived if anything did.
RolledBack ==
  /\ doing = "rollback" /\ todo = <<>>
  /\ doing' = "idle" /\ errors' = FALSE
  /\ UNCHANGED <<dind, parts, todo, made, handle, rounds, failures>>

Destroys ==
  /\ doing = "live" /\ handle.held
  /\ doing' = "destroy" /\ todo' = Teardown(handle.dind, TRUE) /\ errors' = FALSE
  /\ UNCHANGED <<dind, parts, made, handle, rounds, failures>>

\* The record is dropped once the teardown had no error, and kept otherwise.
Destroyed ==
  /\ doing = "destroy" /\ todo = <<>>
  /\ IF errors THEN doing' = "live" /\ UNCHANGED handle
               ELSE doing' = "idle" /\ handle' = NoHandle
  /\ errors' = FALSE
  /\ UNCHANGED <<dind, parts, todo, made, rounds, failures>>

\* Mutant of SidecarIn: only the label of the job container tells of a sidecar.
LabelledIn(listed) == dind /\ "container" \in listed

\* What the inventory tells: the label of the job container, or a volume with
\* the name of a sidecar's.  The sidecar container itself is never listed.
SidecarIn(listed) == dind /\ ("container" \in listed \/ listed \cap {"images", "certs"} # {})

\* The orphan sweep of an untracked job, with a handle put together by name.
Sweeps ==
  /\ doing = "idle" /\ parts \ {"sidecar"} # {}
  /\ doing' = "sweep" /\ errors' = FALSE
  /\ todo' = Teardown(SidecarIn(parts), "container" \in parts)
  /\ UNCHANGED <<dind, parts, made, handle, rounds, failures>>

Swept ==
  /\ doing = "sweep" /\ todo = <<>>
  /\ doing' = "idle" /\ errors' = FALSE
  /\ UNCHANGED <<dind, parts, todo, made, handle, rounds, failures>>

\* A restart forgets the call under way; the boot rebuild adopts a container,
\* with the sidecar flag of its label.
DaemonRestarts ==
  /\ doing # "boot" /\ rounds < MaxRounds
  /\ rounds' = rounds + 1
  /\ doing' = "boot" /\ todo' = <<>> /\ made' = {} /\ errors' = FALSE /\ handle' = NoHandle
  /\ UNCHANGED <<dind, parts, failures>>

Adopts ==
  /\ doing = "boot"
  /\ IF "container" \in parts THEN doing' = "live" /\ handle' = [held |-> TRUE, dind |-> dind]
                              ELSE doing' = "idle" /\ UNCHANGED handle
  /\ UNCHANGED <<dind, parts, todo, made, errors, rounds, failures>>

ResourcesNext ==
  \/ MakesContainer \/ PartMade \/ ContainerMade \/ PartFails \/ PartGone \/ PartStays
  \/ RolledBack \/ Destroys \/ Destroyed \/ Sweeps \/ Swept \/ DaemonRestarts \/ Adopts

\* The daemon goes on with what it is at; a live job is destroyed some day (its
\* lease or its lifetime is over), and the sweep never stops sweeping.
ResourcesFairness == WF_resources(ResourcesNext /\ ~DaemonRestarts /\ ~MakesContainer)

ResourcesSpec == ResourcesInit /\ [][ResourcesNext]_resources

-----------------------------------------------------------------------------
\* A teardown that reports success has removed every resource of the job,
\* sidecar included, also for a job adopted after a restart.
TeardownIsProof == [][doing = "destroy" /\ doing' = "idle" => parts' = {}]_resources

\* Whatever failed or lost its answer, and wherever the daemon stopped, what is
\* left of a job is found by its label or its name and removed.
NothingIsStranded == <>[](parts = {})
=============================================================================
