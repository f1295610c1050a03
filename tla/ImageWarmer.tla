---------------------------- MODULE ImageWarmer ----------------------------
(***************************************************************************)
(* The image warmer of the runner daemon: one pull at a time, joined by     *)
(* whoever asks meanwhile, abandoned at its deadline, and the state that    *)
(* the health endpoint reports.                                            *)
(***************************************************************************)
EXTENDS Naturals

CONSTANTS Askers,     \* the interval timer and administrators asking for a warm
          MaxPulls    \* bound: pulls running in the engine at the same time

ASSUME WarmerAssumption == MaxPulls \in Nat \ {0}

VARIABLES
  inflight,   \* the pull joined by every caller: its number, or 0
  pulls,      \* pulls the engine is running, also those nobody waits for any more
  joined,     \* the pull each caller waits for, 0 for none
  warm,       \* a pull has succeeded, and resolved a digest
  lastError   \* what the last pull that settled left

warming == <<inflight, pulls, joined, warm, lastError>>

WarmerInit ==
  /\ inflight = 0 /\ pulls = {} /\ joined = [a \in Askers |-> 0]
  /\ warm = FALSE /\ lastError = FALSE

FreePulls == 1..MaxPulls \ pulls

\* warm(): join the pull in flight, or start one.
Asks(a) ==
  /\ joined[a] = 0
  /\ \/ /\ inflight # 0 /\ joined' = [joined EXCEPT ![a] = inflight]
        /\ UNCHANGED <<inflight, pulls>>
     \/ /\ inflight = 0
        /\ \E n \in FreePulls :
             /\ inflight' = n /\ pulls' = pulls \cup {n}
             /\ joined' = [joined EXCEPT ![a] = n]
  /\ UNCHANGED <<warm, lastError>>

\* What settling does to the callers: they are answered and the slot is free.
Answered == /\ inflight' = 0 /\ joined' = [a \in Askers |-> 0]

\* The pull in flight succeeds; the refs resolve to digests, or there is none.
PullSucceeds ==
  /\ inflight # 0 /\ Answered
  /\ pulls' = pulls \ {inflight} /\ warm' \in BOOLEAN /\ lastError' = FALSE

\* Nothing of the last good warm is touched.
FailureLeaves == UNCHANGED warm /\ lastError' = TRUE

PullFails ==
  /\ inflight # 0 /\ Answered /\ FailureLeaves
  /\ pulls' = pulls \ {inflight}

\* Mutant of PullOverdue: the callers give up, the slot is held until the pull ends.
OverdueForCallers ==
  /\ inflight # 0 /\ joined' = [a \in Askers |-> 0] /\ FailureLeaves
  /\ UNCHANGED <<inflight, pulls>>

\* withDeadline gives the pull up; the engine goes on with it.
PullOverdue ==
  /\ inflight # 0 /\ Answered /\ FailureLeaves
  /\ UNCHANGED pulls

\* A pull that was given up ends at last, heard by nobody.
PullForgotten(n) ==
  /\ n \in pulls \ {inflight} /\ pulls' = pulls \ {n}
  /\ UNCHANGED <<inflight, joined, warm, lastError>>

WarmerNext ==
  \/ \E a \in Askers : Asks(a)
  \/ PullSucceeds \/ PullFails \/ PullOverdue
  \/ \E n \in 1..MaxPulls : PullForgotten(n)

\* The deadline fires.  Nothing else is sure: a pull may hang for ever.
WarmerFairness == WF_warming(PullOverdue)

WarmerSpec == WarmerInit /\ [][WarmerNext]_warming /\ WarmerFairness

-----------------------------------------------------------------------------
\* A pull that hangs does not hold the slot for ever: every caller is answered,
\* also one that joined late, and the next one starts a pull of its own.
EveryWarmIsAnswered == \A a \in Askers : []<>(joined[a] = 0) /\ []<>(inflight = 0)
=============================================================================
