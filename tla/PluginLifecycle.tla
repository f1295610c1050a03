------------------------- MODULE PluginLifecycle -------------------------
(***************************************************************************)
(* The plugin between activate() and close(): preconditions, the handoff   *)
(* of core's migration ledger, the migrations, the registrations with the  *)
(* stack of their disposers, the loops, and the operator's purge of the    *)
(* schema.  The gate deadline worker is followed tick by tick, because a   *)
(* slow tick overlaps the next and stop() waits for one of them.           *)
(***************************************************************************)
EXTENDS Integers, Sequences, SequencesExt

CONSTANTS Files,           \* the migrations are 1..Files, in slot order
          Ticks,           \* ticks of the gate deadline worker that may overlap
          MaxDue,          \* overdue gates a tick lists
          MaxActivations   \* bound: calls of activate()

ASSUME LifecycleAssumption ==
  Files \in Nat /\ MaxDue \in Nat /\ MaxActivations \in Nat

VARIABLES
  plugin,      \* "off", "migrating", "registering", "active", "undoing"
  disposers,   \* what activate() registered, newest last
  schema,      \* which files' objects exist; core's ledger and the plugin's; purged since activation
  deadline,    \* gateTimer, gateStopped, gateInFlight, and the tick stop() awaits
  ticking,     \* per tick: where it is, gates left, and whether this assembly started it
  activations

lifecycle == <<plugin, disposers, schema, deadline, ticking, activations>>

NoTick == "none"
Registrations == <<"routes", "tools", "nav", "loops", "cron">>
AtRest == [at |-> "idle", left |-> 0, ours |-> FALSE]
Assembled == [timer |-> FALSE, stopped |-> FALSE, inFlight |-> NoTick, awaited |-> NoTick]

\* Core's donor ledger, and a database that may have been restored to before it.
LifecycleInit ==
  /\ plugin = "off" /\ disposers = <<>> /\ activations = 0
  /\ \E d, o \in 0..Files :
       schema = [objects |-> 1..o, donor |-> 1..d, ledger |-> {}, purged |-> FALSE]
  /\ deadline = Assembled
  /\ ticking = [t \in Ticks |-> AtRest]

\* Every failure of activateInner, and close(): undo() walks the disposers backwards.
Undoes == plugin' = "undoing" /\ UNCHANGED <<disposers, schema, deadline, ticking, activations>>

\* Preconditions and interlocks may refuse before a migration runs; the assembly and
\* its deadline worker are new, ticks of an earlier one keep their own.
ActivateBegins ==
  /\ plugin = "off" /\ activations < MaxActivations
  /\ activations' = activations + 1
  /\ plugin' \in {"migrating", "undoing"}
  /\ deadline' = Assembled
  /\ ticking' = [t \in Ticks |-> [ticking[t] EXCEPT !.ours = FALSE]]
  /\ UNCHANGED <<disposers, schema>>

\* Mutant: the naive handoff takes core's ledger at its word.
AdoptedOnTrust == schema.donor

\* A file core applied is adopted only when the last object it creates is there.
Adopted == {m \in schema.donor : m \in schema.objects}

SeedLedger ==
  /\ plugin = "migrating" /\ ~Adopted \subseteq schema.ledger
  /\ schema' = [schema EXCEPT !.ledger = @ \cup Adopted]
  /\ UNCHANGED <<plugin, disposers, deadline, ticking, activations>>

\* runMigrations applies what the ledger lacks, in order, each file in a transaction.
\* A core older than seedLedger comes here without the handoff; the files are idempotent.
MigrateOne ==
  /\ plugin = "migrating"
  /\ \E m \in (1..Files) \ schema.ledger :
       /\ 1..m - 1 \subseteq schema.ledger
       /\ schema' = [schema EXCEPT !.ledger = @ \cup {m}, !.objects = @ \cup {m}]
  /\ UNCHANGED <<plugin, disposers, deadline, ticking, activations>>

MigrationFails == plugin = "migrating" /\ ~1..Files \subseteq schema.ledger /\ Undoes

MigrationsDone ==
  /\ plugin = "migrating" /\ 1..Files \subseteq schema.ledger
  /\ plugin' = "registering"
  /\ schema' = [schema EXCEPT !.purged = FALSE]
  /\ UNCHANGED <<disposers, deadline, ticking, activations>>

Rank(r) == CHOOSE k \in DOMAIN Registrations : Registrations[k] = r
NextUp == IF disposers = <<>> THEN 1 ELSE Rank(disposers[Len(disposers)]) + 1

\* The next registration; without turnContext the chat tools are passed over.
\* start() runs, rehydration first, before its disposer is pushed.
Registers ==
  /\ plugin = "registering" /\ NextUp <= Len(Registrations)
  /\ \E k \in NextUp..Len(Registrations) :
       /\ k = NextUp \/ (Registrations[NextUp] = "tools" /\ k = NextUp + 1)
       /\ disposers' = Append(disposers, Registrations[k])
       /\ deadline' = IF Registrations[k] = "loops"
                      THEN [deadline EXCEPT !.timer = TRUE, !.stopped = FALSE] ELSE deadline
  /\ UNCHANGED <<plugin, schema, ticking, activations>>

RegistrationThrows == plugin = "registering" /\ NextUp <= Len(Registrations) /\ Undoes

ActivateEnds ==
  /\ plugin = "registering" /\ NextUp > Len(Registrations)
  /\ plugin' = "active"
  /\ UNCHANGED <<disposers, schema, deadline, ticking, activations>>

Close == plugin = "active" /\ Undoes

\* One disposer; that of the loops is stop(): it bars further ticks and awaits the one
\* gateInFlight names at that moment.
DisposeOne ==
  /\ plugin = "undoing" /\ disposers # <<>> /\ deadline.awaited = NoTick
  /\ disposers' = Front(disposers)
  /\ deadline' = IF Last(disposers) = "loops"
                 THEN [deadline EXCEPT !.stopped = TRUE, !.timer = FALSE, !.awaited = deadline.inFlight]
                 ELSE deadline
  /\ UNCHANGED <<plugin, schema, ticking, activations>>

UndoEnds ==
  /\ plugin = "undoing" /\ disposers = <<>> /\ deadline.awaited = NoTick
  /\ plugin' = "off"
  /\ UNCHANGED <<disposers, schema, deadline, ticking, activations>>

(* The gate deadline worker. *)
Barred(t) == ~ticking[t].ours \/ deadline.stopped

\* The interval fires whether or not the last tick has ended.
TickStarts(t) ==
  /\ deadline.timer /\ ticking[t].at = "idle"
  /\ ticking' = [ticking EXCEPT ![t] = [at |-> "listing", left |-> 0, ours |-> TRUE]]
  /\ deadline' = [deadline EXCEPT !.inFlight = t]
  /\ UNCHANGED <<plugin, disposers, schema, activations>>

\* The finally of a tick clears gateInFlight, whichever tick that is.
TickEnds(t) ==
  /\ ticking' = [ticking EXCEPT ![t] = AtRest]
  /\ deadline' = IF ticking[t].ours
                 THEN [deadline EXCEPT !.inFlight = NoTick,
                                       !.awaited = IF @ = t THEN NoTick ELSE @]
                 ELSE deadline

\* The tick goes on to a gate's expire unless it was told to stop.
ToNextGate(t, left) ==
  IF left > 0 /\ ~Barred(t)
  THEN /\ ticking' = [ticking EXCEPT ![t].at = "expiring", ![t].left = left - 1]
       /\ UNCHANGED deadline
  ELSE TickEnds(t)

TickLists(t) ==
  /\ ticking[t].at = "listing"
  /\ \E due \in 0..MaxDue : ToNextGate(t, due)
  /\ UNCHANGED <<plugin, disposers, schema, activations>>

\* The winner of expire's CAS cancels the job; a loser goes on.
TickExpires(t) ==
  /\ ticking[t].at = "expiring"
  /\ \/ /\ ticking' = [ticking EXCEPT ![t].at = "finalizing"]
        /\ UNCHANGED deadline
     \/ ToNextGate(t, ticking[t].left)
  /\ UNCHANGED <<plugin, disposers, schema, activations>>

TickFinalizes(t) ==
  /\ ticking[t].at = "finalizing"
  /\ ToNextGate(t, ticking[t].left)
  /\ UNCHANGED <<plugin, disposers, schema, activations>>

\* A query fails: the tick rejects and its finally runs.
TickFails(t) ==
  /\ ticking[t].at # "idle" /\ TickEnds(t)
  /\ UNCHANGED <<plugin, disposers, schema, activations>>

\* POST /admin/purge, confirmed: every table and the plugin's own ledger, not core's.
Purge ==
  /\ "routes" \in {disposers[k] : k \in DOMAIN disposers} /\ plugin # "undoing"
  /\ schema' = [schema EXCEPT !.objects = {}, !.ledger = {}, !.purged = TRUE]
  /\ UNCHANGED <<plugin, disposers, deadline, ticking, activations>>

LifecycleNext ==
  \/ ActivateBegins \/ SeedLedger \/ MigrateOne \/ MigrationFails
  \/ MigrationsDone \/ Registers \/ RegistrationThrows \/ ActivateEnds
  \/ Close \/ DisposeOne \/ UndoEnds \/ Purge
  \/ \E t \in Ticks : TickStarts(t) \/ TickLists(t) \/ TickExpires(t) \/ TickFinalizes(t) \/ TickFails(t)

LifecycleSpec == LifecycleInit /\ [][LifecycleNext]_lifecycle

(* Properties *)

\* plugin.ts:354-392: whatever core's ledger claims of a restored or purged database, no
\* registration is made before every file's objects exist, and they stay until the operator
\* purges.
SchemaBeforeService ==
  disposers # <<>> /\ ~schema.purged => schema.objects = 1..Files
============================================================================
