---------------------------- MODULE TrackerPoll ----------------------------
(***************************************************************************)
(* The tracker poller over one repository: a listing, newest ticket first, *)
(* then one ticket after the other, then the cursor.  A sweep may throw in *)
(* between.  A poller that is stopped lets its sweep run to the end, so a  *)
(* second one may start beside it: Pollers are the activations.            *)
(***************************************************************************)
EXTENDS Naturals, FiniteSets

CONSTANTS Tickets,     \* ticket numbers: a greater one is a newer ticket
          Pollers,     \* activations of the plugin that may have a sweep in flight
          Page,        \* tickets on one page of a listing
          MaxClock,    \* bound: the tracker's clock
          MaxPollFaults

ASSUME PollAssumption ==
  Tickets \subseteq Nat \ {0} /\ Page \in Nat \ {0} /\ MaxClock \in Nat /\ MaxPollFaults \in Nat

VARIABLES
  ticketAt,    \* when each labelled open ticket was updated last, 0 if it is not
  clock,
  cursor,      \* dev_repos.tracker_poll_cursor
  sweeps,      \* each poller's sweep
  listing,     \* the updates each poller has listed last, past the cursor
  looked,      \* ghost: the newest update of each ticket that was looked at
  ticketJob,   \* the tracker job of each ticket
  pollFaults

polling == <<ticketAt, clock, cursor, sweeps, listing, looked, ticketJob, pollFaults>>

Updates == 0..MaxClock
NoSweep == [pc |-> "idle", todo |-> {}, newest |-> 0]

PollInit ==
  /\ ticketAt = [t \in Tickets |-> 0] /\ clock = 1 /\ cursor = 0
  /\ sweeps = [p \in Pollers |-> NoSweep]
  /\ listing = [p \in Pollers |-> [t \in Tickets |-> 0]]
  /\ looked = [t \in Tickets |-> 0] /\ ticketJob = [t \in Tickets |-> "none"] /\ pollFaults = 0

\* The label is set or the ticket edited; the clock of the tracker has a
\* granularity, so two updates may share a stamp.
TicketUpdated(t) ==
  /\ ticketAt[t] < clock /\ ticketAt' = [ticketAt EXCEPT ![t] = clock]
  /\ UNCHANGED <<clock, cursor, sweeps, listing, looked, ticketJob, pollFaults>>

ClockTicks ==
  /\ clock < MaxClock /\ clock' = clock + 1
  /\ UNCHANGED <<ticketAt, cursor, sweeps, listing, looked, ticketJob, pollFaults>>

OnPage(t) ==
  /\ ticketAt[t] > 0
  /\ Cardinality({o \in Tickets : o >= t /\ ticketAt[o] > 0}) <= Page

\* A due repository with a tracker: the cursor of its row and one page of its
\* tickets.  A tracker that fails, or none, leaves everything as it is.
Lists(p) ==
  /\ sweeps[p].pc = "idle"
  /\ LET due == {t \in Tickets : OnPage(t) /\ ticketAt[t] > cursor} IN
     /\ listing' = [listing EXCEPT ![p] = [t \in Tickets |-> IF t \in due THEN ticketAt[t] ELSE 0]]
     /\ sweeps' = [sweeps EXCEPT ![p] = [pc |-> "tickets", newest |-> cursor, todo |-> due]]
  /\ UNCHANGED <<ticketAt, clock, cursor, looked, ticketJob, pollFaults>>

AtTicket(p, t) == /\ sweeps[p].pc = "tickets" /\ t \in sweeps[p].todo
                  /\ \A o \in sweeps[p].todo : o <= t
Later(a, b) == IF a > b THEN a ELSE b
TicketDone(p, t) ==
  /\ sweeps' = [sweeps EXCEPT ![p].pc = "tickets", ![p].todo = @ \ {t},
                              ![p].newest = Later(@, listing[p][t])]
  /\ looked' = [looked EXCEPT ![t] = Later(@, listing[p][t])]

\* Mutant of TicketDeduped: the cursor moves with every ticket.
CursorMovesAlong(p, t) ==
  /\ AtTicket(p, t) /\ ticketJob[t] = "active" /\ TicketDone(p, t)
  /\ cursor' = Later(cursor, listing[p][t])
  /\ UNCHANGED <<ticketAt, clock, listing, ticketJob, pollFaults>>

\* The ticket has an active job; its update counts as handled.
TicketDeduped(p, t) ==
  /\ AtTicket(p, t) /\ ticketJob[t] = "active" /\ TicketDone(p, t)
  /\ UNCHANGED <<ticketAt, clock, cursor, listing, ticketJob, pollFaults>>

\* It has none: the insert is a statement of its own.
TicketFree(p, t) ==
  /\ AtTicket(p, t) /\ ticketJob[t] # "active"
  /\ sweeps' = [sweeps EXCEPT ![p].pc = "insert"]
  /\ UNCHANGED <<ticketAt, clock, cursor, listing, looked, ticketJob, pollFaults>>

Inserting(p, t) == sweeps[p].pc = "insert" /\ t \in sweeps[p].todo /\ \A o \in sweeps[p].todo : o <= t

\* A job, or a refusal on the repository's credential or the backend.
TicketServed(p, t) ==
  /\ Inserting(p, t) /\ TicketDone(p, t)
  /\ \/ ticketJob' = [ticketJob EXCEPT ![t] = IF @ = "active" THEN "twice" ELSE "active"]
     \/ UNCHANGED ticketJob
  /\ UNCHANGED <<ticketAt, clock, cursor, listing, pollFaults>>

\* Forward only, to the newest update handled.
CursorAdvances(p) ==
  /\ sweeps[p].pc = "tickets" /\ sweeps[p].todo = {}
  /\ cursor' = Later(cursor, sweeps[p].newest)
  /\ sweeps' = [sweeps EXCEPT ![p] = NoSweep]
  /\ UNCHANGED <<ticketAt, clock, listing, looked, ticketJob, pollFaults>>

SweepThrows(p) ==
  /\ sweeps[p].pc # "idle" /\ pollFaults < MaxPollFaults
  /\ pollFaults' = pollFaults + 1
  /\ sweeps' = [sweeps EXCEPT ![p] = NoSweep]
  /\ UNCHANGED <<ticketAt, clock, cursor, listing, looked, ticketJob>>

TicketJobEnds(t) ==
  /\ ticketJob[t] = "active" /\ ticketJob' = [ticketJob EXCEPT ![t] = "ended"]
  /\ UNCHANGED <<ticketAt, clock, cursor, sweeps, listing, looked, pollFaults>>

PollNext ==
  \/ ClockTicks
  \/ \E t \in Tickets : TicketUpdated(t) \/ TicketJobEnds(t)
  \/ \E p \in Pollers :
       \/ Lists(p) \/ CursorAdvances(p) \/ SweepThrows(p)
       \/ \E t \in Tickets : TicketDeduped(p, t) \/ TicketFree(p, t) \/ TicketServed(p, t)

PollSpec == PollInit /\ [][PollNext]_polling

-----------------------------------------------------------------------------
\* A sweep of the one poller that throws never leaves the cursor past an update that
\* was listed and nobody has looked at.  Two pollers share the cursor: when one has
\* listed the first of two updates of one stamp and the other both, it may pass the
\* second by.
CursorFollowsWork ==
  \A p \in Pollers, t \in Tickets :
    0 < listing[p][t] /\ listing[p][t] <= cursor => looked[t] >= listing[p][t]
=============================================================================
