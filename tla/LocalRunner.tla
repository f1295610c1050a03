---------------------------- MODULE LocalRunner ----------------------------
(***************************************************************************)
(* The local process backend (localProcessBackend.ts): a workspace per     *)
(* provision, the process group of the shim and its CLI child, the pid file *)
(* and the live map that name the group, and the three that remove them:   *)
(* a failed provision, terminate and reap.  The group is killed as a whole, *)
(* and its leader may die before its child.                                *)
(***************************************************************************)
EXTENDS Naturals

CONSTANTS Dirs,            \* the workspaces of a behaviour, each made once
          MaxLocalFaults   \* failed writes, surviving groups and restarts

ASSUME LocalAssumption == MaxLocalFaults \in Nat

VARIABLES
  ws,          \* each workspace: its directory, its pid file, its group
               \* ("up", "orphan" without its leader, "none"), whether live
               \* tracks it, the call that has it in hand, whether a handle of it
               \* was returned, and (history) whether its pid never was written
  visiting,    \* the entries a reap pass has still to visit
  localFaults

local == <<ws, visiting, localFaults>>

Unmade == [dir |-> FALSE, file |-> FALSE, group |-> "none", tracked |-> FALSE,
           pc |-> "unmade", held |-> FALSE, unnamed |-> FALSE]

LocalInit == ws = [d \in Dirs |-> Unmade] /\ visiting = {} /\ localFaults = 0

LocalFault == localFaults < MaxLocalFaults /\ localFaults' = localFaults + 1
Becomes(d, r) == ws' = [ws EXCEPT ![d] = r]
Removed(r) == [r EXCEPT !.dir = FALSE, !.file = FALSE, !.tracked = FALSE, !.pc = "none"]

\* Mutant of GroupAlive: the leader alone is asked.
LeaderAlive(r) == r.group = "up"

\* A group is alive while any member of it is.
GroupAlive(r) == r.group # "none"

\* killGroupAndConfirmExit: gone already, or signalled and seen to go; or, within
\* the grace, not seen to go, its leader dead or not.
ConfirmedGone(r) == IF GroupAlive(r) THEN [r EXCEPT !.group = "none"] ELSE r
Survivors(r) == IF GroupAlive(r) THEN {r, [r EXCEPT !.group = "orphan"]} ELSE {}

-----------------------------------------------------------------------------
\* provision: a fresh directory, in the set the reap leaves alone.
WorkspaceMade(d) ==
  /\ ws[d] = Unmade /\ Becomes(d, [Unmade EXCEPT !.dir = TRUE, !.pc = "made"])
  /\ UNCHANGED <<visiting, localFaults>>

ShimSpawned(d) ==
  /\ ws[d].pc = "made" /\ Becomes(d, [ws[d] EXCEPT !.group = "up", !.pc = "spawned"])
  /\ UNCHANGED <<visiting, localFaults>>

SpawnFails(d) ==
  /\ ws[d].pc = "made" /\ LocalFault /\ Becomes(d, Removed(ws[d]))
  /\ UNCHANGED visiting

\* The pid is on disk, and the handle tracked and returned.
PidWritten(d) ==
  /\ ws[d].pc = "spawned"
  /\ Becomes(d, [ws[d] EXCEPT !.file = TRUE, !.tracked = TRUE, !.held = TRUE, !.pc = "none"])
  /\ UNCHANGED <<visiting, localFaults>>

PidWriteFails(d) ==
  /\ ws[d].pc = "spawned" /\ LocalFault /\ Becomes(d, [ws[d] EXCEPT !.pc = "undo"])
  /\ UNCHANGED visiting

\* The undo of a spawn: the directory goes only with the group.  One that survives
\* keeps it, with its pid written again, or not.
SpawnUndone(d) ==
  /\ ws[d].pc = "undo"
  /\ \/ Becomes(d, Removed(ConfirmedGone(ws[d]))) /\ UNCHANGED localFaults
     \/ /\ LocalFault
        /\ \E r \in Survivors(ws[d]), written \in BOOLEAN :
             Becomes(d, [r EXCEPT !.pc = "none", !.file = written, !.unnamed = ~written])
  /\ UNCHANGED visiting

\* terminate, of a handle the row names, however often and after any restart.
GroupTerminated(d) ==
  /\ ws[d].held /\ ws[d].pc = "none"
  /\ \/ /\ Becomes(d, [ConfirmedGone(ws[d]) EXCEPT !.tracked = FALSE, !.pc = "rm"])
        /\ UNCHANGED localFaults
     \/ LocalFault /\ \E r \in Survivors(ws[d]) : Becomes(d, r)
  /\ UNCHANGED visiting

WorkspaceRemoved(d) ==
  /\ ws[d].pc = "rm" /\ Becomes(d, Removed(ws[d]))
  /\ UNCHANGED <<visiting, localFaults>>

\* The shim exits or is killed, with its child or without; the child exits.
LeaderDies(d) ==
  /\ ws[d].group = "up" /\ \E g \in {"orphan", "none"} : Becomes(d, [ws[d] EXCEPT !.group = g])
  /\ UNCHANGED <<visiting, localFaults>>

ChildExits(d) ==
  /\ ws[d].group = "orphan" /\ Becomes(d, [ws[d] EXCEPT !.group = "none"])
  /\ UNCHANGED <<visiting, localFaults>>

-----------------------------------------------------------------------------
ReapReads ==
  /\ visiting = {} /\ visiting' = {d \in Dirs : ws[d].dir} /\ visiting' # {}
  /\ UNCHANGED <<ws, localFaults>>

\* A workspace being born and a tracked one with its leader are left alone.  Of any
\* other the group is killed and, once seen to go, the directory removed.  Without
\* a pid file there is nothing to kill.
Spared(r) == r.pc \in {"made", "spawned", "undo"} \/ (r.tracked /\ r.group = "up")
Known(r) == r.tracked \/ r.file

ReapVisits(d) ==
  /\ d \in visiting /\ visiting' = visiting \ {d}
  /\ \/ Spared(ws[d]) /\ UNCHANGED <<ws, localFaults>>
     \/ /\ ~Spared(ws[d])
        /\ Becomes(d, Removed(IF Known(ws[d]) THEN ConfirmedGone(ws[d]) ELSE ws[d]))
        /\ UNCHANGED localFaults
     \/ /\ ~Spared(ws[d]) /\ Known(ws[d]) /\ LocalFault
        /\ \E r \in Survivors(ws[d]) : Becomes(d, r)

\* The middleware dies; the groups are detached and live on.
MiddlewareDies ==
  /\ LocalFault /\ visiting' = {}
  /\ ws' = [d \in Dirs |->
       IF ws[d].pc = "unmade" THEN ws[d]
       ELSE [ws[d] EXCEPT !.pc = "none", !.tracked = FALSE,
                          !.unnamed = @ \/ ws[d].pc \in {"spawned", "undo"}]]

LocalNext ==
  \/ \E d \in Dirs :
       \/ WorkspaceMade(d) \/ ShimSpawned(d) \/ SpawnFails(d) \/ PidWritten(d)
       \/ PidWriteFails(d) \/ SpawnUndone(d) \/ GroupTerminated(d) \/ WorkspaceRemoved(d)
       \/ LeaderDies(d) \/ ChildExits(d) \/ ReapVisits(d)
  \/ ReapReads \/ MiddlewareDies

LocalSpec == LocalInit /\ [][LocalNext]_local

-----------------------------------------------------------------------------
\* A group that is alive can be found and killed: whatever terminates, reaps, fails
\* and restarts meet, its directory is there with the pid in it, unless its provision
\* still has it in hand.  The exception is a pid that never reached the disk.
NoGroupIsStranded ==
  \A d \in Dirs : ws[d].group # "none" =>
    ws[d].unnamed \/ (ws[d].dir /\ (ws[d].file \/ ws[d].pc \in {"spawned", "undo"}))
=============================================================================
