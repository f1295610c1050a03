--------------------------- MODULE WebhookIntake ---------------------------
(***************************************************************************)
(* GitHub deliveries of one repository and one allowed sender, from the    *)
(* verified signature to a job: the delivery ledger, the two dedupes, the  *)
(* rate limit, the gate of a sender's first job.  Handlers run side by     *)
(* side and each of their statements may throw; the delivery then answers  *)
(* 500 and may be sent again.                                              *)
(***************************************************************************)
EXTENDS Naturals, FiniteSets

CONSTANTS Guids,       \* delivery GUIDs
          Issues,      \* issues they may be about
          Intakes,    \* requests handled at the same time
          HourlyLimit, \* of jobs, by repository and by sender
          MaxThrows    \* bound: statements that throw

ASSUME IntakeAssumption ==
  HourlyLimit \in Nat /\ MaxThrows \in Nat /\ Guids # {} /\ IsFiniteSet(Guids)

VARIABLES
  deliveries,  \* the ledger: the outcome of each GUID, or none
  aged,        \* deliveries received more than an hour ago
  handlers,    \* each handler: where it is, its delivery, its gate decision
  triggered,   \* the job each delivery has made: its issue, state and gate decision
  approved,    \* ghost: jobs an approval has released
  throws

intake == <<deliveries, aged, handlers, triggered, approved, throws>>

NoIssue == "no issue"
NoJobYet == [issue |-> NoIssue, state |-> "none", gate |-> FALSE]
Resting == [pc |-> "idle", guid |-> CHOOSE g \in Guids : TRUE, gate |-> FALSE]
ActiveStates == {"held", "gated", "queued", "claimed"}

IntakeInit ==
  /\ deliveries = [g \in Guids |-> [outcome |-> "none", issue |-> NoIssue]]
  /\ aged = {} /\ handlers = [h \in Intakes |-> Resting]
  /\ triggered = [g \in Guids |-> NoJobYet] /\ approved = {} /\ throws = 0

GuidOf(h) == handlers[h].guid
Handling(h, pc) == handlers[h].pc = pc
Proceeds(h, pc) == handlers' = [handlers EXCEPT ![h].pc = pc]
Answers(h) == handlers' = [handlers EXCEPT ![h] = Resting]
Finishes(h, outcome) ==
  /\ deliveries' = [deliveries EXCEPT ![GuidOf(h)].outcome = outcome]
  /\ Answers(h)
ActiveFor(issue) == \E g \in Guids : /\ triggered[g].state \in ActiveStates
                                     /\ triggered[g].issue = issue
Counted == {g \in Guids \ aged : deliveries[g].outcome = "job_created"}

\* The atomic claim of a GUID.  A redelivery of a claimed one is a duplicate and
\* changes nothing.
DeliveryClaimed(h) ==
  /\ Handling(h, "idle")
  /\ \E g \in Guids, i \in Issues :
       /\ deliveries[g].outcome = "none"
       /\ deliveries' = [deliveries EXCEPT ![g] = [outcome |-> "received", issue |-> i]]
       /\ handlers' = [handlers EXCEPT ![h] = [pc |-> "filter", guid |-> g, gate |-> FALSE]]
  /\ UNCHANGED <<aged, triggered, approved, throws>>

\* A kill switch, another event or label, a repository that has not opted in, a
\* sender that is not listed.
DeliveryDropped(h) ==
  /\ Handling(h, "filter") /\ Finishes(h, "dropped")
  /\ UNCHANGED <<aged, triggered, approved, throws>>

\* The pre-check of an active job of the issue.
ActiveJobChecked(h) ==
  /\ Handling(h, "filter")
  /\ IF ActiveFor(deliveries[GuidOf(h)].issue)
       THEN Finishes(h, "deduped_active_job")
       ELSE Proceeds(h, "source") /\ UNCHANGED deliveries
  /\ UNCHANGED <<aged, triggered, approved, throws>>

\* A gate is required if the ledger has no job_created row of the pair, ever.
SourceRead(h) ==
  /\ Handling(h, "source")
  /\ handlers' = [handlers EXCEPT ![h].pc = "reserve",
                    ![h].gate = \A g \in Guids : deliveries[g].outcome # "job_created"]
  /\ UNCHANGED <<deliveries, aged, triggered, approved, throws>>

\* Mutant of SlotReserved: the count and the stamp are two statements.
CountsThenStamps(h) ==
  /\ \/ /\ Handling(h, "reserve") /\ Cardinality(Counted) < HourlyLimit
        /\ Proceeds(h, "stamp") /\ UNCHANGED deliveries
     \/ /\ Handling(h, "stamp")
        /\ deliveries' = [deliveries EXCEPT ![GuidOf(h)].outcome = "job_created"]
        /\ Proceeds(h, "create")
  /\ UNCHANGED <<aged, triggered, approved, throws>>

\* One transaction under the repository's advisory lock counts the slots taken
\* and takes one.
SlotReserved(h) ==
  /\ Handling(h, "reserve")
  /\ IF Cardinality(Counted) >= HourlyLimit
       THEN Finishes(h, "rate_limited")
       ELSE /\ deliveries' = [deliveries EXCEPT ![GuidOf(h)].outcome = "job_created"]
            /\ Proceeds(h, "create")
  /\ UNCHANGED <<aged, triggered, approved, throws>>

\* The local backend, a device-flow credential, or one that is not an App's.
PolicyRefuses(h) ==
  /\ Handling(h, "create") /\ Finishes(h, "refused_policy")
  /\ UNCHANGED <<aged, triggered, approved, throws>>

\* The partial unique index over active webhook jobs.
UniqueHolds(issue) == ~ActiveFor(issue)

\* Mutant of BornAs: queued first, parked by a second statement.
QueuedFirst(gate) == "queued"

\* A gated job is born waiting, in the same INSERT.
BornAs(gate) == IF gate THEN "held" ELSE "queued"

JobInserted(h) ==
  /\ Handling(h, "create")
  /\ LET issue == deliveries[GuidOf(h)].issue IN
     IF UniqueHolds(issue)
       THEN /\ triggered' = [triggered EXCEPT ![GuidOf(h)] =
                               [issue |-> issue, state |-> BornAs(handlers[h].gate),
                                gate |-> handlers[h].gate]]
            /\ Proceeds(h, IF handlers[h].gate THEN "gate" ELSE "finish")
            /\ UNCHANGED deliveries
       ELSE Finishes(h, "deduped_active_job") /\ UNCHANGED triggered
  /\ UNCHANGED <<aged, approved, throws>>

\* The first-source gate is opened over the parked job.
SourceGateOpened(h) ==
  /\ Handling(h, "gate")
  /\ triggered' = [triggered EXCEPT ![GuidOf(h)].state = IF @ = "held" THEN "gated" ELSE @]
  /\ Proceeds(h, "finish")
  /\ UNCHANGED <<deliveries, aged, approved, throws>>

JobAnswered(h) ==
  /\ Handling(h, "finish") /\ Finishes(h, "job_created")
  /\ UNCHANGED <<aged, triggered, approved, throws>>

\* A statement throws, or the process stops: what is written stays, and a
\* redelivery is a duplicate.
HandlerThrows(h) ==
  /\ handlers[h].pc # "idle" /\ throws < MaxThrows
  /\ throws' = throws + 1 /\ Answers(h)
  /\ UNCHANGED <<deliveries, aged, triggered, approved>>

-----------------------------------------------------------------------------
\* The life of a triggered job, as far as the intake can tell.
JobBecomes(g, from, to) ==
  /\ triggered[g].state \in from
  /\ triggered' = [triggered EXCEPT ![g].state = to]
  /\ UNCHANGED <<deliveries, aged, handlers, throws>>
JobApproved(g) == JobBecomes(g, {"gated"}, "queued") /\ approved' = approved \cup {g}
JobClaimed(g) == JobBecomes(g, {"queued"}, "claimed") /\ UNCHANGED approved
JobOver(g) == JobBecomes(g, ActiveStates, "ended") /\ UNCHANGED approved

AnHourPasses(g) ==
  /\ deliveries[g].outcome # "none" /\ g \notin aged
  /\ \A h \in Intakes : handlers[h].pc = "idle" \/ GuidOf(h) # g
  /\ aged' = aged \cup {g}
  /\ UNCHANGED <<deliveries, handlers, triggered, approved, throws>>

IntakeNext ==
  \/ \E h \in Intakes :
       \/ DeliveryClaimed(h) \/ DeliveryDropped(h) \/ ActiveJobChecked(h) \/ SourceRead(h)
       \/ SlotReserved(h) \/ PolicyRefuses(h) \/ JobInserted(h) \/ SourceGateOpened(h)
       \/ JobAnswered(h) \/ HandlerThrows(h)
  \/ \E g \in Guids : JobApproved(g) \/ JobClaimed(g) \/ JobOver(g) \/ AnHourPasses(g)

IntakeSpec == IntakeInit /\ [][IntakeNext]_intake

-----------------------------------------------------------------------------
\* The jobs made by the deliveries of an hour are within its limit, however they
\* race and whatever throws.
WithinHourlyLimit ==
  Cardinality({g \in Guids \ aged : triggered[g].state # "none"}) <= HourlyLimit

\* A job born under a gate runs after an approval and never before, also when
\* its handler is between the insert and the gate or has died there.
HeldUntilApproved ==
  \A g \in Guids : triggered[g].gate /\ triggered[g].state = "claimed" => g \in approved
=============================================================================
