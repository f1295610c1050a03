---------------------------- MODULE HostSideProofs ----------------------------
(***************************************************************************)
(* The services of the host, for every value of their constants: webhook   *)
(* intake, the tracker poller, the scoped clone tokens, the derivation of a *)
(* policy, the plugin and onboarding an operator drives, the event log and *)
(* its stream, and the diff that is judged and applied.  Each is proved    *)
(* over its own specification; they share no state.                        *)
(***************************************************************************)
EXTENDS WebhookIntake, TrackerPoll, ScmTokens, JobPolicy, PluginLifecycle, Onboarding, EventLog,
        UnifiedDiff, FiniteSetTheorems, SequenceTheorems, TLAPS

(***************************************************************************)
(* Webhook intake: the hourly limit is kept, a held job waits for its approval. *)
(***************************************************************************)
Outcome == {"none", "received", "dropped", "deduped_active_job", "rate_limited", "refused_policy",
            "job_created"}
Place == {"idle", "filter", "source", "reserve", "create", "gate", "finish"}
JobState == {"none", "ended"} \cup ActiveStates

IntakeTypes ==
  /\ deliveries \in [Guids -> [outcome : Outcome, issue : Issues \cup {NoIssue}]]
  /\ handlers \in [Intakes -> [pc : Place, guid : Guids, gate : BOOLEAN]]
  /\ triggered \in [Guids -> [issue : Issues \cup {NoIssue}, state : JobState, gate : BOOLEAN]]

\* A GUID is claimed once, so it is handled by one handler, which knows its outcome.
OneHandler ==
  \A h \in Intakes : handlers[h].pc # "idle" =>
    /\ deliveries[GuidOf(h)].outcome =
         (IF handlers[h].pc \in {"create", "gate", "finish"} THEN "job_created" ELSE "received")
    /\ handlers[h].pc \in {"filter", "source", "reserve", "create"} => triggered[GuidOf(h)].state = "none"
    /\ \A o \in Intakes : handlers[o].pc # "idle" /\ GuidOf(o) = GuidOf(h) => o = h

\* A job is made by a delivery that holds a slot, and leaves its gate by an approval.
JobsHoldSlots ==
  \A g \in Guids : triggered[g].state # "none" => deliveries[g].outcome = "job_created"
GatedWait ==
  \A g \in Guids : triggered[g].gate /\ triggered[g].state \in {"queued", "claimed"} => g \in approved

SlotsTaken == Cardinality(Counted) <= HourlyLimit

\* The strengthening: slots, not jobs, are what the transaction counts.
IntakeInv == IntakeTypes /\ OneHandler /\ JobsHoldSlots /\ GatedWait /\ SlotsTaken

\* Fewer counted deliveries are within the limit, too.
LEMMA FewerCounted == SlotsTaken /\ Counted' \subseteq Counted => SlotsTaken'
<1>1. IsFiniteSet(Counted)
  BY IntakeAssumption, FS_Subset DEF Counted
<1>2. Counted' \subseteq Counted => Cardinality(Counted') <= Cardinality(Counted)
  BY <1>1, FS_Subset
<1>3. Counted' \subseteq Counted => Cardinality(Counted') \in Nat /\ Cardinality(Counted) \in Nat
  BY <1>1, FS_Subset, FS_CardinalityType
<1> QED BY <1>2, <1>3, IntakeAssumption DEF SlotsTaken

\* The transaction that counts the slots takes at most one.
LEMMA ReservationCounts ==
  ASSUME IntakeInv, NEW h \in Intakes, SlotReserved(h)
  PROVE  SlotsTaken'
<1> USE DEF IntakeInv, IntakeTypes
<1>1. IsFiniteSet(Counted) /\ Cardinality(Counted) \in Nat
  BY IntakeAssumption, FS_Subset, FS_CardinalityType DEF Counted
<1>2. CASE Cardinality(Counted) >= HourlyLimit
  <2>1. Counted' \subseteq Counted
    BY <1>2 DEF SlotReserved, Finishes, Answers, Counted, GuidOf, Outcome
  <2> QED BY <2>1, FewerCounted
<1>3. CASE Cardinality(Counted) < HourlyLimit
  <2>1. Counted' \subseteq Counted \cup {GuidOf(h)}
    BY <1>1, <1>3, IntakeAssumption DEF SlotReserved, Counted, GuidOf
  <2>2. /\ IsFiniteSet(Counted \cup {GuidOf(h)})
        /\ Cardinality(Counted \cup {GuidOf(h)}) <= Cardinality(Counted) + 1
    <3>1. /\ IsFiniteSet(Counted \cup {GuidOf(h)})
          /\ \/ Cardinality(Counted \cup {GuidOf(h)}) = Cardinality(Counted)
             \/ Cardinality(Counted \cup {GuidOf(h)}) = Cardinality(Counted) + 1
      BY <1>1, FS_AddElement, Zenon
    <3> QED BY <1>1, <3>1
  <2>3. Cardinality(Counted') <= Cardinality(Counted \cup {GuidOf(h)})
    BY <2>1, <2>2, FS_Subset
  <2>4. Cardinality(Counted') \in Nat /\ Cardinality(Counted \cup {GuidOf(h)}) \in Nat
    BY <2>1, <2>2, FS_Subset, FS_CardinalityType
  <2> QED BY <1>1, <1>3, <2>2, <2>3, <2>4, IntakeAssumption DEF SlotsTaken
<1> QED BY <1>1, <1>2, <1>3, IntakeAssumption

\* What a step other than the reservation must keep.
Kept == IntakeTypes /\ OneHandler /\ JobsHoldSlots /\ GatedWait

\* Resting is a handler.
LEMMA RestingIsIdle == Resting \in [pc : Place, guid : Guids, gate : BOOLEAN] /\ Resting.pc = "idle"
BY IntakeAssumption DEF Resting, Place

\* A handler that answers forgets its delivery.
LEMMA AnswerKeeps ==
  ASSUME Kept, NEW h \in Intakes, Answers(h), UNCHANGED <<deliveries, triggered, approved>>
  PROVE  Kept'
<1>1. IntakeTypes'
  BY RestingIsIdle DEF Kept, IntakeTypes, Answers
<1>2. OneHandler'
  BY RestingIsIdle DEF Kept, IntakeTypes, OneHandler, Answers, GuidOf
<1> QED BY <1>1, <1>2 DEF Kept, JobsHoldSlots, GatedWait

\* So does one that finishes: a job it has made keeps its outcome.
LEMMA FinishKeeps ==
  ASSUME Kept, NEW h \in Intakes, NEW o \in Outcome, Finishes(h, o), ~Handling(h, "idle"),
         o = "job_created" \/ triggered[GuidOf(h)].state = "none",
         UNCHANGED <<triggered, approved>>
  PROVE  Kept'
<1>1. IntakeTypes'
  BY RestingIsIdle DEF Kept, IntakeTypes, Finishes, Answers, GuidOf
<1>2. OneHandler'
  BY RestingIsIdle DEF Kept, IntakeTypes, OneHandler, Finishes, Answers, GuidOf, Handling
<1>3. JobsHoldSlots'
  BY DEF Kept, IntakeTypes, JobsHoldSlots, Finishes, GuidOf
<1> QED BY <1>1, <1>2, <1>3 DEF Kept, GatedWait

\* One that goes on does so between places where the outcome is the same.
LEMMA ProceedKeeps ==
  ASSUME Kept, NEW h \in Intakes, NEW pc \in Place, Proceeds(h, pc),
         UNCHANGED <<deliveries, triggered, approved>>,
         \/ Handling(h, "filter") /\ pc = "source"
         \/ Handling(h, "gate") /\ pc = "finish"
  PROVE  Kept'
<1>1. IntakeTypes'
  BY DEF Kept, IntakeTypes, Proceeds
<1>2. OneHandler'
  BY DEF Kept, IntakeTypes, OneHandler, Proceeds, GuidOf, Handling
<1> QED BY <1>1, <1>2 DEF Kept, JobsHoldSlots, GatedWait

\* The claim of a GUID that no other handler has.
LEMMA ClaimKeeps ==
  ASSUME Kept, NEW h \in Intakes, DeliveryClaimed(h)
  PROVE  Kept'
<1> USE DEF Kept, IntakeTypes
<1>1. IntakeTypes'
  BY DEF DeliveryClaimed, Outcome, Place
<1>2. OneHandler'
  BY DEF DeliveryClaimed, OneHandler, JobsHoldSlots, GuidOf, Handling
<1>3. JobsHoldSlots' /\ GatedWait'
  BY DEF DeliveryClaimed, JobsHoldSlots, GatedWait
<1> QED BY <1>1, <1>2, <1>3

\* The gate decision is a truth value, read from the ledger.
LEMMA SourceKeeps ==
  ASSUME Kept, NEW h \in Intakes, SourceRead(h)
  PROVE  Kept'
<1> DEFINE first == \A g \in Guids : deliveries[g].outcome # "job_created"
<1>1. first \in BOOLEAN
  OBVIOUS
<1>2. /\ handlers' = [handlers EXCEPT ![h].pc = "reserve", ![h].gate = first]
      /\ Handling(h, "source") /\ UNCHANGED <<deliveries, triggered, approved>>
  BY DEF SourceRead
<1> HIDE DEF first
<1>3. IntakeTypes'
  BY <1>1, <1>2 DEF Kept, IntakeTypes, Place
<1>4. OneHandler'
  BY <1>1, <1>2 DEF Kept, IntakeTypes, OneHandler, GuidOf, Handling
<1> QED BY <1>2, <1>3, <1>4 DEF Kept, JobsHoldSlots, GatedWait

\* A slot is taken: the delivery has its outcome before it has its job.
LEMMA ReservationKeeps ==
  ASSUME Kept, NEW h \in Intakes, SlotReserved(h)
  PROVE  Kept'
<1>1. CASE Finishes(h, "rate_limited")
  BY <1>1, FinishKeeps DEF SlotReserved, Outcome, Kept, OneHandler, Handling
<1>2. CASE /\ deliveries' = [deliveries EXCEPT ![GuidOf(h)].outcome = "job_created"]
           /\ Proceeds(h, "create")
  <2>1. IntakeTypes'
    <3>1. deliveries' \in [Guids -> [outcome : Outcome, issue : Issues \cup {NoIssue}]]
      BY <1>2 DEF Kept, IntakeTypes, GuidOf, Outcome
    <3>2. handlers' \in [Intakes -> [pc : Place, guid : Guids, gate : BOOLEAN]]
      BY <1>2 DEF Kept, IntakeTypes, Proceeds, Place
    <3> QED BY <3>1, <3>2 DEF SlotReserved, Kept, IntakeTypes
  <2>2. OneHandler'
    BY <1>2 DEF SlotReserved, Kept, IntakeTypes, OneHandler, Proceeds, GuidOf, Handling
  <2>3. JobsHoldSlots'
    BY <1>2 DEF SlotReserved, Kept, IntakeTypes, JobsHoldSlots, GuidOf
  <2> QED BY <2>1, <2>2, <2>3 DEF SlotReserved, Kept, GatedWait
<1> QED BY <1>1, <1>2 DEF SlotReserved

\* The insert: the job is parked in the statement that makes it, or not made.
LEMMA InsertKeeps ==
  ASSUME Kept, NEW h \in Intakes, JobInserted(h)
  PROVE  Kept'
<1> DEFINE gate  == handlers[h].gate
           issue == deliveries[GuidOf(h)].issue
           next  == IF gate THEN "gate" ELSE "finish"
           job   == [issue |-> issue, state |-> BornAs(gate), gate |-> gate]
<1>1. gate \in BOOLEAN /\ issue \in Issues \cup {NoIssue} /\ next \in {"gate", "finish"}
  BY DEF Kept, IntakeTypes, GuidOf
<1>2. /\ job \in [issue : Issues \cup {NoIssue}, state : JobState, gate : BOOLEAN]
      /\ job.gate => job.state = "held"
  BY <1>1 DEF JobState, ActiveStates, BornAs
<1>3. CASE Finishes(h, "deduped_active_job") /\ UNCHANGED triggered
  BY <1>3, FinishKeeps DEF JobInserted, Outcome, Kept, OneHandler, Handling
<1>4. CASE /\ triggered' = [triggered EXCEPT ![GuidOf(h)] = job]
           /\ Proceeds(h, next) /\ UNCHANGED deliveries
  <2> HIDE DEF job, next
  <2>1. IntakeTypes'
    <3>1. triggered' \in [Guids -> [issue : Issues \cup {NoIssue}, state : JobState, gate : BOOLEAN]]
      BY <1>2, <1>4 DEF Kept, IntakeTypes
    <3>2. handlers' \in [Intakes -> [pc : Place, guid : Guids, gate : BOOLEAN]]
      BY <1>1, <1>4 DEF Kept, IntakeTypes, Proceeds, Place
    <3> QED BY <1>4, <3>1, <3>2 DEF Kept, IntakeTypes
  <2>2. OneHandler'
    BY <1>1, <1>4 DEF JobInserted, Kept, IntakeTypes, OneHandler, Proceeds, GuidOf, Handling
  <2>3. deliveries[GuidOf(h)].outcome = "job_created"
    BY DEF JobInserted, Kept, OneHandler, Handling
  <2>4. JobsHoldSlots'
    BY <1>4, <2>3 DEF Kept, IntakeTypes, JobsHoldSlots
  <2>5. GatedWait'
    BY <1>2, <1>4 DEF JobInserted, Kept, IntakeTypes, GatedWait
  <2> QED BY <2>1, <2>2, <2>4, <2>5 DEF Kept
<1> QED BY <1>3, <1>4 DEF JobInserted

\* The gate moves a parked job one step nearer to its approval.
LEMMA GateKeeps ==
  ASSUME Kept, NEW h \in Intakes, SourceGateOpened(h)
  PROVE  Kept'
<1> USE DEF SourceGateOpened, Proceeds, GuidOf
<1> DEFINE JobType == [issue : Issues \cup {NoIssue}, state : JobState, gate : BOOLEAN]
           now == triggered[GuidOf(h)].state
           to == IF now = "held" THEN "gated" ELSE now
<1>0. /\ triggered \in [Guids -> JobType] /\ GuidOf(h) \in Guids
      /\ handlers \in [Intakes -> [pc : Place, guid : Guids, gate : BOOLEAN]]
  BY DEF Kept, IntakeTypes
<1>1. IntakeTypes'
  <2>1. [triggered[GuidOf(h)] EXCEPT !.state = to] \in JobType
    <3>1. to \in JobState
      BY <1>0 DEF JobState, ActiveStates
    <3> QED BY <1>0, <3>1
  <2>2. triggered' = [triggered EXCEPT ![GuidOf(h)] = [triggered[GuidOf(h)] EXCEPT !.state = to]]
    BY <1>0
  <2>3. triggered' \in [Guids -> JobType]
    BY <1>0, <2>1, <2>2
  <2>4. handlers' \in [Intakes -> [pc : Place, guid : Guids, gate : BOOLEAN]]
    BY <1>0 DEF Place
  <2> QED BY <2>3, <2>4 DEF Kept, IntakeTypes
<1>2. OneHandler'
  BY DEF Kept, IntakeTypes, OneHandler, Handling
<1>3. JobsHoldSlots'
  BY DEF Kept, IntakeTypes, JobsHoldSlots, OneHandler, Handling
<1>4. GatedWait'
  BY DEF Kept, IntakeTypes, GatedWait
<1> QED BY <1>1, <1>2, <1>3, <1>4 DEF Kept

\* A handler's step: only the reservation can add to the count.
LEMMA HandlerStep ==
  ASSUME IntakeInv, NEW h \in Intakes,
         \/ DeliveryClaimed(h) \/ DeliveryDropped(h) \/ ActiveJobChecked(h) \/ SourceRead(h)
         \/ SlotReserved(h) \/ PolicyRefuses(h) \/ JobInserted(h) \/ SourceGateOpened(h)
         \/ JobAnswered(h) \/ HandlerThrows(h)
  PROVE  IntakeInv'
<1>1. Kept
  BY DEF Kept, IntakeInv
<1>2. CASE DeliveryClaimed(h)
  <2>1. Counted' \subseteq Counted
    BY <1>2 DEF DeliveryClaimed, Counted, IntakeInv, IntakeTypes
  <2> QED BY <1>1, <1>2, <2>1, ClaimKeeps, FewerCounted DEF IntakeInv, Kept
<1>3. CASE SlotReserved(h)
  BY <1>1, <1>3, ReservationKeeps, ReservationCounts DEF IntakeInv, Kept
<1>4. CASE DeliveryDropped(h)
  <2>1. Finishes(h, "dropped")
    BY <1>4 DEF DeliveryDropped
  <2>2. Kept'
    BY <1>1, <1>4, <2>1, FinishKeeps DEF DeliveryDropped, Outcome, Kept, OneHandler, Handling
  <2>3. Counted' \subseteq Counted
    BY <1>4, <2>1 DEF DeliveryDropped, Finishes, Counted, IntakeInv, IntakeTypes, GuidOf
  <2> QED BY <2>2, <2>3, FewerCounted DEF IntakeInv, Kept
<1>5. CASE ActiveJobChecked(h)
  <2>1. \/ Finishes(h, "deduped_active_job")
        \/ Proceeds(h, "source") /\ UNCHANGED deliveries
    BY <1>5 DEF ActiveJobChecked
  <2>2. Kept'
    BY <1>1, <1>5, <2>1, FinishKeeps, ProceedKeeps
       DEF ActiveJobChecked, Outcome, Place, Kept, OneHandler, Handling
  <2>3. Counted' \subseteq Counted
    BY <1>5, <2>1 DEF ActiveJobChecked, Finishes, Counted, IntakeInv, IntakeTypes, GuidOf
  <2> QED BY <2>2, <2>3, FewerCounted DEF IntakeInv, Kept
<1>6. CASE SourceRead(h)
  <2>1. Counted' \subseteq Counted
    BY <1>6 DEF SourceRead, Counted
  <2> QED BY <1>1, <1>6, <2>1, SourceKeeps, FewerCounted DEF IntakeInv, Kept
<1>7. CASE PolicyRefuses(h)
  <2>1. Finishes(h, "refused_policy")
    BY <1>7 DEF PolicyRefuses
  <2>2. Kept'
    BY <1>1, <1>7, <2>1, FinishKeeps DEF PolicyRefuses, Outcome, Kept, OneHandler, Handling
  <2>3. Counted' \subseteq Counted
    BY <1>7, <2>1 DEF PolicyRefuses, Finishes, Counted, IntakeInv, IntakeTypes, GuidOf
  <2> QED BY <2>2, <2>3, FewerCounted DEF IntakeInv, Kept
<1>8. CASE JobInserted(h)
  <2>1. \/ Finishes(h, "deduped_active_job")
        \/ UNCHANGED deliveries
    BY <1>8 DEF JobInserted
  <2>2. Counted' \subseteq Counted
    BY <1>8, <2>1 DEF JobInserted, Finishes, Counted, IntakeInv, IntakeTypes, GuidOf
  <2> QED BY <1>1, <1>8, <2>2, InsertKeeps, FewerCounted DEF IntakeInv, Kept
<1>9. CASE SourceGateOpened(h)
  <2>1. Counted' \subseteq Counted
    BY <1>9 DEF SourceGateOpened, Counted
  <2> QED BY <1>1, <1>9, <2>1, GateKeeps, FewerCounted DEF IntakeInv, Kept
<1>10. CASE JobAnswered(h)
  <2>1. Finishes(h, "job_created") /\ deliveries[GuidOf(h)].outcome = "job_created"
    BY <1>1, <1>10 DEF JobAnswered, Kept, OneHandler, Handling
  <2>2. Kept'
    BY <1>1, <1>10, <2>1, FinishKeeps DEF JobAnswered, Outcome, Handling
  <2>3. Counted' \subseteq Counted
    BY <1>10, <2>1 DEF JobAnswered, Finishes, Counted, IntakeInv, IntakeTypes, GuidOf
  <2> QED BY <2>2, <2>3, FewerCounted DEF IntakeInv, Kept
<1>11. CASE HandlerThrows(h)
  <2>1. Counted' \subseteq Counted
    BY <1>11 DEF HandlerThrows, Counted
  <2> QED BY <1>1, <1>11, <2>1, AnswerKeeps, FewerCounted DEF HandlerThrows, IntakeInv, Kept
<1> QED BY <1>2, <1>3, <1>4, <1>5, <1>6, <1>7, <1>8, <1>9, <1>10, <1>11

\* A job that is approved, claimed or over keeps its slot; an hour gives slots back.
LEMMA JobStep ==
  ASSUME IntakeInv, NEW g \in Guids,
         JobApproved(g) \/ JobClaimed(g) \/ JobOver(g) \/ AnHourPasses(g)
  PROVE  IntakeInv'
<1>1. UNCHANGED <<deliveries, handlers>>
  BY DEF JobApproved, JobClaimed, JobOver, JobBecomes, AnHourPasses
<1>2. SlotsTaken'
  <2>1. Counted' \subseteq Counted
    BY <1>1 DEF Counted, JobApproved, JobClaimed, JobOver, JobBecomes, AnHourPasses
  <2> QED BY <2>1, FewerCounted DEF IntakeInv
<1>3. CASE AnHourPasses(g)
  <2>1. UNCHANGED <<triggered, approved>>
    BY <1>3 DEF AnHourPasses
  <2> QED BY <1>1, <1>2, <2>1 DEF IntakeInv, IntakeTypes, OneHandler, JobsHoldSlots, GatedWait, GuidOf
<1>4. CASE JobApproved(g) \/ JobClaimed(g) \/ JobOver(g)
  <2>1. PICK to \in JobState :
          /\ triggered' = [triggered EXCEPT ![g].state = to] /\ triggered[g].state # "none"
          /\ to = "queued" => g \in approved'
          /\ to = "claimed" => triggered[g].state = "queued"
          /\ approved \subseteq approved'
    BY <1>4 DEF JobApproved, JobClaimed, JobOver, JobBecomes, JobState, ActiveStates
  <2>2. /\ triggered'[g].state = to /\ triggered'[g].gate = triggered[g].gate
        /\ \A o \in Guids \ {g} : triggered'[o] = triggered[o]
    BY <2>1 DEF IntakeInv, IntakeTypes
  <2>3. IntakeTypes'
    BY <1>1, <2>1 DEF IntakeInv, IntakeTypes
  <2>4. OneHandler'
    <3>1. \A h \in Intakes : GuidOf(h)' = GuidOf(h) /\ GuidOf(h) \in Guids
      BY <1>1 DEF IntakeInv, IntakeTypes, GuidOf
    <3>2. \A o \in Guids : triggered[o].state = "none" => triggered'[o].state = "none"
      BY <2>1, <2>2
    <3> QED BY <1>1, <3>1, <3>2 DEF IntakeInv, OneHandler
  <2>5. JobsHoldSlots'
    BY <1>1, <2>1, <2>2 DEF IntakeInv, JobsHoldSlots
  <2>6. GatedWait'
    BY <2>1, <2>2 DEF IntakeInv, GatedWait
  <2> QED BY <1>2, <2>3, <2>4, <2>5, <2>6 DEF IntakeInv
<1> QED BY <1>3, <1>4

LEMMA IntakeStart == IntakeInit => IntakeInv
<1> SUFFICES ASSUME IntakeInit PROVE IntakeInv
  OBVIOUS
<1>1. Counted = {}
  BY DEF IntakeInit, Counted
<1>2. SlotsTaken
  BY <1>1, FS_EmptySet, IntakeAssumption DEF SlotsTaken
<1>3. Resting.guid \in Guids
  BY IntakeAssumption DEF Resting
<1> QED BY <1>2, <1>3 DEF IntakeInit, IntakeInv, IntakeTypes, OneHandler, JobsHoldSlots, GatedWait, NoJobYet,
                     Resting, Outcome, Place, JobState, ActiveStates

LEMMA IntakeStep == IntakeInv /\ [IntakeNext]_intake => IntakeInv'
<1> SUFFICES ASSUME IntakeInv, [IntakeNext]_intake PROVE IntakeInv'
  OBVIOUS
<1>1. CASE UNCHANGED intake
  BY <1>1 DEF intake, IntakeInv, IntakeTypes, OneHandler, JobsHoldSlots, GatedWait, SlotsTaken, Counted,
              GuidOf
<1> QED BY <1>1, HandlerStep, JobStep DEF IntakeNext

\* Whatever deliveries race and whichever statement throws, the jobs of an hour are
\* within its limit: the count and the stamp are one transaction (reserveJobSlot).
THEOREM LimitKept == IntakeSpec => []WithinHourlyLimit
<1>1. IntakeInv => WithinHourlyLimit
  <2> SUFFICES ASSUME IntakeInv PROVE WithinHourlyLimit
    OBVIOUS
  <2> DEFINE made == {g \in Guids \ aged : triggered[g].state # "none"}
  <2>1. made \subseteq Counted /\ IsFiniteSet(Counted)
    BY IntakeAssumption, FS_Subset DEF IntakeInv, JobsHoldSlots, Counted
  <2>2. Cardinality(made) <= Cardinality(Counted)
    BY <2>1, FS_Subset
  <2>3. Cardinality(made) \in Nat /\ Cardinality(Counted) \in Nat
    BY <2>1, FS_Subset, FS_CardinalityType
  <2> QED BY <2>2, <2>3, IntakeAssumption DEF IntakeInv, SlotsTaken, WithinHourlyLimit
<1> QED BY <1>1, IntakeStart, IntakeStep, PTL DEF IntakeSpec

\* A job of a sender's first delivery is claimed only after a person let it: it is
\* born waiting in the same INSERT (triggerJobService.ts:139-166).
THEOREM HeldJobsWait == IntakeSpec => []HeldUntilApproved
<1>1. IntakeInv => HeldUntilApproved
  BY DEF IntakeInv, GatedWait, HeldUntilApproved
<1> QED BY <1>1, IntakeStart, IntakeStep, PTL DEF IntakeSpec

(***************************************************************************)
(* The tracker poller: the cursor stays behind what was looked at.         *)
(***************************************************************************)
PollTypes ==
  /\ ticketAt \in [Tickets -> Nat] /\ clock \in Nat /\ cursor \in Nat
  /\ sweeps \in [Pollers -> [pc : {"idle", "tickets", "insert"}, todo : SUBSET Tickets, newest : Nat]]
  /\ listing \in [Pollers -> [Tickets -> Nat]] /\ looked \in [Tickets -> Nat]

\* What a sweep has listed it has yet to come to, or has looked at.
SweepsAreThorough ==
  \A p \in Pollers, t \in Tickets :
    sweeps[p].pc # "idle" /\ listing[p][t] > 0 => t \in sweeps[p].todo \/ looked[t] >= listing[p][t]

PollInv == PollTypes /\ SweepsAreThorough /\ CursorFollowsWork

\* CursorFollowsWork, of trackerPoller.ts: while one poller sweeps a repository, the
\* cursor never passes an update that was listed and nobody has looked at, however
\* often a sweep throws.
THEOREM CursorWaits ==
  ASSUME NEW poller, Pollers = {poller}
  PROVE  PollSpec => []CursorFollowsWork
<1> USE PollAssumption
<1>1. PollInit => PollInv
  BY DEF PollInit, PollInv, PollTypes, SweepsAreThorough, CursorFollowsWork, NoSweep
<1>2. ASSUME PollInv, [PollNext]_polling PROVE PollInv'
  <2> USE <1>2
  <2>1. CASE UNCHANGED polling
    BY <2>1 DEF polling, PollInv, PollTypes, SweepsAreThorough, CursorFollowsWork
  <2>2. CASE ClockTicks
    BY <2>2 DEF ClockTicks, PollInv, PollTypes, SweepsAreThorough, CursorFollowsWork
  <2>3. ASSUME NEW t \in Tickets, TicketUpdated(t) \/ TicketJobEnds(t) PROVE PollInv'
    BY <2>3 DEF TicketUpdated, TicketJobEnds, PollInv, PollTypes, SweepsAreThorough, CursorFollowsWork
  <2>4. ASSUME NEW p \in Pollers, Lists(p) PROVE PollInv'
    <3> DEFINE due == {t \in Tickets : OnPage(t) /\ ticketAt[t] > cursor}
    <3>1. listing'[p] = [t \in Tickets |-> IF t \in due THEN ticketAt[t] ELSE 0]
      BY <2>4 DEF Lists, PollInv, PollTypes
    <3>2. sweeps'[p] = [pc |-> "tickets", newest |-> cursor, todo |-> due]
      BY <2>4 DEF Lists, PollInv, PollTypes
    <3>3. PollTypes'
      BY <2>4 DEF Lists, PollInv, PollTypes
    <3>4. \A t \in Tickets : listing'[p][t] > 0 => t \in due /\ listing'[p][t] > cursor
      BY <3>1 DEF PollInv, PollTypes
    <3>5. p = poller /\ UNCHANGED <<cursor, looked>>
      BY <2>4 DEF Lists
    <3> QED BY <3>2, <3>3, <3>4, <3>5 DEF PollInv, PollTypes, SweepsAreThorough, CursorFollowsWork
  <2>5. ASSUME NEW p \in Pollers, CursorAdvances(p) PROVE PollInv'
    <3>1. PollTypes'
      BY <2>5 DEF CursorAdvances, PollInv, PollTypes, NoSweep, Later
    <3>2. \A t \in Tickets : listing[p][t] > 0 => looked[t] >= listing[p][t]
      BY <2>5 DEF CursorAdvances, PollInv, SweepsAreThorough
    <3>3. p = poller /\ UNCHANGED <<listing, looked>> /\ sweeps'[p].pc = "idle"
      BY <2>5 DEF CursorAdvances, PollInv, PollTypes, NoSweep
    <3> QED BY <3>1, <3>2, <3>3 DEF PollInv, PollTypes, SweepsAreThorough, CursorFollowsWork
  <2>6. ASSUME NEW p \in Pollers, SweepThrows(p) PROVE PollInv'
    BY <2>6 DEF SweepThrows, PollInv, PollTypes, NoSweep, SweepsAreThorough, CursorFollowsWork
  <2>7. ASSUME NEW p \in Pollers, NEW t \in Tickets, TicketFree(p, t) PROVE PollInv'
    <3>1. sweeps[p] \in [pc : {"idle", "tickets", "insert"}, todo : SUBSET Tickets, newest : Nat]
      BY DEF PollInv, PollTypes
    <3>2. sweeps' = [sweeps EXCEPT ![p] = [sweeps[p] EXCEPT !.pc = "insert"]] /\ sweeps[p].pc = "tickets"
      BY <2>7, <3>1 DEF TicketFree, AtTicket, PollInv, PollTypes
    <3>3. PollTypes' /\ sweeps'[p].todo = sweeps[p].todo
      BY <2>7, <3>1, <3>2 DEF TicketFree, PollInv, PollTypes
    <3>4. p = poller /\ UNCHANGED <<cursor, listing, looked>>
      BY <2>7 DEF TicketFree
    <3> QED BY <3>2, <3>3, <3>4 DEF PollInv, SweepsAreThorough, CursorFollowsWork
  <2>8. ASSUME NEW p \in Pollers, NEW t \in Tickets, sweeps[p].pc # "idle", TicketDone(p, t),
               UNCHANGED <<ticketAt, clock, cursor, listing>>
        PROVE  PollInv'
    <3>0. sweeps[p] \in [pc : {"idle", "tickets", "insert"}, todo : SUBSET Tickets, newest : Nat]
            /\ listing[p][t] \in Nat /\ looked[t] \in Nat
      BY DEF PollInv, PollTypes
    <3>a. PICK s \in [pc : {"idle", "tickets", "insert"}, todo : SUBSET Tickets, newest : Nat] :
            sweeps' = [sweeps EXCEPT ![p] = s] /\ s.todo = sweeps[p].todo \ {t} /\ s.pc = "tickets"
      <4> DEFINE s == [sweeps[p] EXCEPT !.pc = "tickets", !.todo = @ \ {t},
                                        !.newest = Later(@, listing[p][t])]
      <4>1. s \in [pc : {"idle", "tickets", "insert"}, todo : SUBSET Tickets, newest : Nat]
              /\ s.todo = sweeps[p].todo \ {t} /\ s.pc = "tickets"
        BY <3>0 DEF Later
      <4>2. sweeps' = [sweeps EXCEPT ![p] = s]
        BY <2>8, <3>0 DEF TicketDone, PollInv, PollTypes
      <4> QED BY <4>1, <4>2
    <3>b. PICK l \in Nat : looked' = [looked EXCEPT ![t] = l]
      BY <2>8, <3>0 DEF TicketDone, Later
    <3>1. PollTypes'
      BY <2>8, <3>0, <3>a, <3>b DEF PollInv, PollTypes
    <3>2. \A o \in Tickets : looked'[o] >= looked[o] /\ looked'[t] >= listing[p][t]
      BY <2>8 DEF TicketDone, PollInv, PollTypes, Later
    <3>3. p = poller /\ sweeps'[p].todo = sweeps[p].todo \ {t}
      BY <3>a DEF PollInv, PollTypes
    <3>4. sweeps[p].pc # "idle"
      BY <2>8
    <3>5. \A o \in Tickets : listing[p][o] > 0 => o \in sweeps'[p].todo \/ looked'[o] >= listing[p][o]
      BY <3>0, <3>1, <3>2, <3>3, <3>4 DEF PollInv, PollTypes, SweepsAreThorough
    <3>6. \A o \in Tickets : 0 < listing[p][o] /\ listing[p][o] <= cursor => looked'[o] >= listing[p][o]
      BY <3>1, <3>2 DEF PollInv, PollTypes, CursorFollowsWork
    <3> QED BY <2>8, <3>1, <3>3, <3>5, <3>6 DEF PollInv, SweepsAreThorough, CursorFollowsWork
  <2> QED BY <2>1, <2>2, <2>3, <2>4, <2>5, <2>6, <2>7, <2>8
          DEF PollNext, TicketDeduped, TicketServed, AtTicket, Inserting
<1>3. PollInv => CursorFollowsWork
  BY DEF PollInv
<1> QED BY <1>1, <1>2, <1>3, PTL DEF PollSpec

(***************************************************************************)
(* The clone tokens: one of a provision, and none outlives its job for long. *)
(***************************************************************************)
Provisions == 1..MaxProvisions
Ask == [pc : {"idle", "mint", "record", "send"}, provision : Provisions \cup {0},
        token : TokenIds \cup {0}]

Run == [pc : {"none", "due", "walk", "revoke"}, list : TokenIds \cup {0}, token : TokenIds \cup {0}]

ScmTypes ==
  /\ scmJob \in [status : {"live", "parked", "over"}, provision : Provisions]
  /\ asks \in [Asks -> Ask]
  /\ handed \in [Provisions -> Nat]
  /\ minted \in [TokenIds -> {"none", "live", "dead"}]
  /\ listOf \in [TokenIds -> TokenIds \cup {0}] /\ byJob \in TokenIds \cup {0}
  /\ taken \subseteq TokenIds /\ excused \subseteq TokenIds
  /\ revoking \in [Revokers -> Run]

Busy(a) == asks[a].pc # "idle"

\* A request under way owns the reservation of its provision, alone.
AsksOwnReservations ==
  \A a \in Asks : Busy(a) =>
    /\ asks[a].provision \in issued \cap Provisions
    /\ handed[asks[a].provision] = 0
    /\ \A b \in Asks : Busy(b) /\ asks[b].provision = asks[a].provision => b = a
HandedOnce == \A n \in Provisions : handed[n] = 0 \/ (handed[n] = 1 /\ n \in issued)

\* The strengthening of OneTokenPerProvision.
ReservationInv == ScmTypes /\ AsksOwnReservations /\ HandedOnce

AtRecord(t) == \E a \in Asks : asks[a].pc = "record" /\ asks[a].token = t

\* A token in hand is one of GitHub's that no list has, and nobody else's; what is in a
\* list was minted, what is marked is in a list, and a run is at a token of it.
RecordsAreNew ==
  \A a \in Asks : asks[a].pc = "record" =>
    LET t == asks[a].token IN
    /\ t \in TokenIds /\ minted[t] # "none" /\ listOf[t] = 0
    /\ \A b \in Asks : asks[b].pc = "record" /\ asks[b].token = t => b = a
ListsAreMinted ==
  \A t \in TokenIds : /\ minted[t] = "none" => listOf[t] = 0
                      /\ t \in taken => listOf[t] # 0
RunsAreAtTokens ==
  \A r \in Revokers : /\ revoking[r].pc = "revoke" => revoking[r].token \in TokenIds
                      /\ revoking[r].pc \in {"walk", "revoke"} => revoking[r].list # 0

\* Who will look at a recorded token: the run that has marked it, one that goes through
\* its list, or one that is to come and finds that list.
InHand(t) == \E r \in Revokers : revoking[r].pc = "revoke" /\ revoking[r].token = t
StillAhead(t) == t \notin taken /\ \E r \in Revokers : Walks(r, listOf[t])
ToCome(t) == t \notin taken /\ listOf[t] = byJob /\ (scmJob.status = "live" \/ Due)

\* Every live token is on its way into a list, or in one and somebody's, or given up.
LiveAccounted ==
  \A t \in TokenIds : minted[t] = "live" =>
    \/ t \in excused \/ AtRecord(t)
    \/ listOf[t] # 0 /\ (InHand(t) \/ StillAhead(t) \/ ToCome(t))

\* The strengthening of RegisteredTokensDie.
RevocationInv ==
  ScmTypes /\ RecordsAreNew /\ ListsAreMinted /\ RunsAreAtTokens /\ LiveAccounted

LEMMA NoAskIsIdle == NoAsk \in Ask /\ NoAsk.pc = "idle"
BY DEF NoAsk, Ask

LEMMA NoRunIsNone == NoPassYet \in Run /\ NoPassYet.pc = "none"
BY DEF NoPassYet, Run

\* What an update of two fields makes of a record.
LEMMA MintedAsk ==
  ASSUME asks \in [Asks -> Ask], NEW a \in Asks, NEW t,
         asks' = [asks EXCEPT ![a].pc = "record", ![a].token = t]
  PROVE  /\ asks'[a].pc = "record" /\ asks'[a].token = t
         /\ \A b \in Asks \ {a} : asks'[b] = asks[b]
<1> DEFINE ask == [asks[a] EXCEPT !.pc = "record", !.token = t]
<1>1. asks[a] \in Ask
  OBVIOUS
<1>2. ask.pc = "record" /\ ask.token = t
  BY <1>1 DEF Ask
<1>3. asks' = [asks EXCEPT ![a] = ask]
  OBVIOUS
<1> HIDE DEF ask
<1>4. asks'[a] = ask /\ \A b \in Asks \ {a} : asks'[b] = asks[b]
  BY <1>3
<1> QED BY <1>2, <1>4

LEMMA SentRun ==
  ASSUME revoking \in [Revokers -> Run], NEW r \in Revokers, NEW t,
         revoking' = [revoking EXCEPT ![r].pc = "revoke", ![r].token = t]
  PROVE  /\ revoking'[r].pc = "revoke" /\ revoking'[r].token = t /\ revoking'[r].list = revoking[r].list
         /\ \A q \in Revokers \ {r} : revoking'[q] = revoking[q]
<1> DEFINE run == [revoking[r] EXCEPT !.pc = "revoke", !.token = t]
<1>1. revoking[r] \in Run
  OBVIOUS
<1>2. run.pc = "revoke" /\ run.token = t /\ run.list = revoking[r].list
  BY <1>1 DEF Run
<1>3. revoking' = [revoking EXCEPT ![r] = run]
  OBVIOUS
<1> HIDE DEF run
<1>4. revoking'[r] = run /\ \A q \in Revokers \ {r} : revoking'[q] = revoking[q]
  BY <1>3
<1> QED BY <1>2, <1>4

LEMMA AnsweredRun ==
  ASSUME revoking \in [Revokers -> Run], NEW r \in Revokers,
         revoking' = [revoking EXCEPT ![r].pc = "walk", ![r].token = 0]
  PROVE  /\ revoking'[r].pc = "walk" /\ revoking'[r].list = revoking[r].list
         /\ \A q \in Revokers \ {r} : revoking'[q] = revoking[q]
<1> DEFINE run == [revoking[r] EXCEPT !.pc = "walk", !.token = 0]
<1>1. revoking[r] \in Run
  OBVIOUS
<1>2. run.pc = "walk" /\ run.list = revoking[r].list
  BY <1>1 DEF Run
<1>3. revoking' = [revoking EXCEPT ![r] = run]
  OBVIOUS
<1> HIDE DEF run
<1>4. revoking'[r] = run /\ \A q \in Revokers \ {r} : revoking'[q] = revoking[q]
  BY <1>3
<1> QED BY <1>2, <1>4

\* Types: one case per action.
LEMMA ScmTypesKept ==
  ASSUME ScmTypes, RecordsAreNew, RunsAreAtTokens, AsksOwnReservations, [ScmNext]_scm
  PROVE  ScmTypes'
<1> USE NoAskIsIdle, NoRunIsNone, TokenAssumption DEF ScmTypes, Asking
<1>1. ASSUME NEW a \in Asks, TokenAsked(a) PROVE ScmTypes'
  BY <1>1 DEF TokenAsked, Ask
<1>2. ASSUME NEW a \in Asks, TokenMinted(a) PROVE ScmTypes'
  <2>1. PICK t \in TokenIds :
          /\ minted' = [minted EXCEPT ![t] = "live"]
          /\ asks' = [asks EXCEPT ![a].pc = "record", ![a].token = t]
    BY <1>2 DEF TokenMinted
  <2>2. [asks[a] EXCEPT !.pc = "record", !.token = t] \in Ask
    BY DEF Ask
  <2>3. asks' = [asks EXCEPT ![a] = [asks[a] EXCEPT !.pc = "record", !.token = t]]
    BY <2>1
  <2>4. asks' \in [Asks -> Ask]
    BY <2>2, <2>3
  <2> QED BY <1>2, <2>1, <2>4 DEF TokenMinted
<1>3. ASSUME NEW a \in Asks, TokenRecorded(a) PROVE ScmTypes'
  <2>1. asks[a].token \in TokenIds
    BY <1>3 DEF TokenRecorded, RecordsAreNew
  <2> QED BY <1>3, <2>1 DEF TokenRecorded, Ask
<1>4. ASSUME NEW a \in Asks, TokenSent(a) PROVE ScmTypes'
  <2>1. handed' \in [Provisions -> Nat]
    BY <1>4 DEF TokenSent, AsksOwnReservations, Busy
  <2> QED BY <1>4, <2>1 DEF TokenSent
<1>5. ASSUME NEW a \in Asks, AskFails(a) PROVE ScmTypes'
  BY <1>5 DEF AskFails
<1>6. CASE JobLeaves
  BY <1>6 DEF JobLeaves, Run
<1>7. CASE JobReturns
  BY <1>7 DEF JobReturns, Provisions
<1>8. ASSUME NEW r \in Revokers, RevokerStarts(r) PROVE ScmTypes'
  <2>1. [pc |-> "walk", list |-> byJob, token |-> 0] \in Run
    BY DEF Run
  <2> QED BY <1>8, <2>1 DEF RevokerStarts
<1>9. ASSUME NEW r \in Revokers, RevokeSent(r) PROVE ScmTypes'
  <2>1. PICK t \in TokenIds :
          /\ taken' = taken \cup {t}
          /\ revoking' = [revoking EXCEPT ![r].pc = "revoke", ![r].token = t]
    BY <1>9 DEF RevokeSent, LeftToRevoke, RecordsOf
  <2>2. [revoking[r] EXCEPT !.pc = "revoke", !.token = t] \in Run
    BY DEF Run
  <2>3. revoking' = [revoking EXCEPT ![r] = [revoking[r] EXCEPT !.pc = "revoke", !.token = t]]
    BY <2>1
  <2>4. revoking' \in [Revokers -> Run]
    BY <2>2, <2>3
  <2> QED BY <1>9, <2>1, <2>4 DEF RevokeSent
<1>10. ASSUME NEW r \in Revokers, RevokeAnswered(r) PROVE ScmTypes'
  <2>1. revoking[r].token \in TokenIds
    BY <1>10 DEF RevokeAnswered, RunsAreAtTokens
  <2>2. [revoking[r] EXCEPT !.pc = "walk", !.token = 0] \in Run
    BY DEF Run
  <2>3. revoking' = [revoking EXCEPT ![r] = [revoking[r] EXCEPT !.pc = "walk", !.token = 0]]
    BY <1>10 DEF RevokeAnswered
  <2>4. revoking' \in [Revokers -> Run]
    BY <2>2, <2>3
  <2> QED BY <1>10, <2>1, <2>4 DEF RevokeAnswered
<1>11. ASSUME NEW r \in Revokers, RevokerDone(r) PROVE ScmTypes'
  BY <1>11 DEF RevokerDone, Dropped, RecordsOf
<1>12. CASE HostRestarts
  BY <1>12 DEF HostRestarts, Provisions
<1>13. ASSUME NEW t \in TokenIds, TokenExpires(t) PROVE ScmTypes'
  BY <1>13 DEF TokenExpires
<1>14. CASE UNCHANGED scm
  BY <1>14 DEF scm
<1> QED BY <1>1, <1>2, <1>3, <1>4, <1>5, <1>6, <1>7, <1>8, <1>9, <1>10, <1>11, <1>12, <1>13, <1>14 DEF ScmNext

-----------------------------------------------------------------------------
\* Of the requests, only the mint brings a token into hand, and the record puts it away.
LEMMA AskRecords ==
  ASSUME ScmTypes, RecordsAreNew, ListsAreMinted, RunsAreAtTokens, NEW a \in Asks,
         TokenAsked(a) \/ TokenMinted(a) \/ TokenRecorded(a) \/ TokenSent(a) \/ AskFails(a)
  PROVE  RecordsAreNew' /\ ListsAreMinted' /\ RunsAreAtTokens'
<1> USE DEF ScmTypes, RecordsAreNew, ListsAreMinted, RunsAreAtTokens, Asking
<1>1. CASE TokenAsked(a)
  <2>1. asks'[a].pc = "mint" /\ \A b \in Asks \ {a} : asks'[b] = asks[b]
    BY <1>1 DEF TokenAsked
  <2> QED BY <1>1, <2>1 DEF TokenAsked
<1>2. CASE TokenMinted(a)
  <2>1. PICK t \in TokenIds :
          /\ minted[t] = "none" /\ minted' = [minted EXCEPT ![t] = "live"]
          /\ asks' = [asks EXCEPT ![a].pc = "record", ![a].token = t]
    BY <1>2 DEF TokenMinted
  <2>2. /\ asks'[a].pc = "record" /\ asks'[a].token = t
        /\ \A b \in Asks \ {a} : asks'[b] = asks[b]
    BY <2>1, MintedAsk
  <2>3. UNCHANGED <<listOf, taken, revoking>>
    BY <1>2 DEF TokenMinted
  <2> QED BY <2>1, <2>2, <2>3
<1>3. CASE TokenRecorded(a)
  <2> DEFINE t == asks[a].token
  <2>1. /\ asks[a].pc = "record" /\ asks'[a].pc = "send" /\ \A b \in Asks \ {a} : asks'[b] = asks[b]
        /\ UNCHANGED <<minted, taken, revoking>>
    BY <1>3 DEF TokenRecorded, Ask
  <2>2. t \in TokenIds /\ minted[t] # "none" /\ listOf'[t] # 0 /\ \A u \in TokenIds \ {t} : listOf'[u] = listOf[u]
    BY <1>3, <2>1, TokenAssumption DEF TokenRecorded, TokenIds
  <2> QED BY <2>1, <2>2
<1>4. CASE TokenSent(a) \/ AskFails(a)
  <2>1. asks'[a].pc = "idle" /\ \A b \in Asks \ {a} : asks'[b] = asks[b]
    BY <1>4, NoAskIsIdle DEF TokenSent, AskFails
  <2>2. UNCHANGED <<listOf, taken, revoking>> /\ \A t \in TokenIds : minted'[t] = "none" => minted[t] = "none"
    BY <1>4 DEF TokenSent, AskFails
  <2>3. \A t \in TokenIds : minted[t] # "none" => minted'[t] # "none"
    BY <1>4 DEF TokenSent, AskFails
  <2> QED BY <2>1, <2>2, <2>3
<1> QED BY <1>1, <1>2, <1>3, <1>4

\* No other step brings or takes one, and marks are put on what a list has.
LEMMA PassRecords ==
  ASSUME ScmTypes, RecordsAreNew, ListsAreMinted, RunsAreAtTokens,
         \/ JobLeaves \/ JobReturns \/ HostRestarts
         \/ \E r \in Revokers : RevokerStarts(r) \/ RevokeSent(r) \/ RevokeAnswered(r) \/ RevokerDone(r)
         \/ \E t \in TokenIds : TokenExpires(t)
  PROVE  RecordsAreNew' /\ ListsAreMinted' /\ RunsAreAtTokens'
<1> USE DEF ScmTypes, RecordsAreNew, ListsAreMinted, RunsAreAtTokens
<1>1. CASE JobLeaves
  <2>1. PICK r \in Revokers : revoking' = [revoking EXCEPT ![r].pc = "due"]
    BY <1>1 DEF JobLeaves
  <2>2. revoking'[r].pc = "due" /\ \A q \in Revokers \ {r} : revoking'[q] = revoking[q]
    BY <2>1 DEF Run
  <2> QED BY <1>1, <2>2 DEF JobLeaves
<1>2. CASE JobReturns
  BY <1>2 DEF JobReturns
<1>3. CASE HostRestarts
  BY <1>3, NoAskIsIdle, NoRunIsNone DEF HostRestarts
<1>4. ASSUME NEW r \in Revokers, RevokerStarts(r) PROVE RecordsAreNew' /\ ListsAreMinted' /\ RunsAreAtTokens'
  <2>1. /\ \/ revoking'[r].pc = "none"
           \/ byJob # 0 /\ revoking'[r].pc = "walk" /\ revoking'[r].list = byJob
        /\ \A q \in Revokers \ {r} : revoking'[q] = revoking[q]
    BY <1>4, NoRunIsNone DEF RevokerStarts
  <2> QED BY <1>4, <2>1 DEF RevokerStarts
<1>5. ASSUME NEW r \in Revokers, RevokeSent(r) PROVE RecordsAreNew' /\ ListsAreMinted' /\ RunsAreAtTokens'
  <2>1. PICK t \in TokenIds :
          /\ listOf[t] = revoking[r].list /\ taken' = taken \cup {t}
          /\ revoking' = [revoking EXCEPT ![r].pc = "revoke", ![r].token = t]
    BY <1>5 DEF RevokeSent, LeftToRevoke, RecordsOf
  <2>2. /\ revoking'[r].pc = "revoke" /\ revoking'[r].token = t /\ revoking'[r].list = revoking[r].list
        /\ \A q \in Revokers \ {r} : revoking'[q] = revoking[q]
    BY <2>1, SentRun
  <2>3. revoking[r].list # 0
    BY <1>5 DEF RevokeSent
  <2> QED BY <1>5, <2>1, <2>2, <2>3 DEF RevokeSent
<1>6. ASSUME NEW r \in Revokers, RevokeAnswered(r) PROVE RecordsAreNew' /\ ListsAreMinted' /\ RunsAreAtTokens'
  <2>1. /\ revoking'[r].pc = "walk" /\ revoking'[r].list = revoking[r].list
        /\ \A q \in Revokers \ {r} : revoking'[q] = revoking[q]
    BY <1>6, AnsweredRun DEF RevokeAnswered
  <2>2. revoking[r].pc = "revoke" /\ UNCHANGED <<asks, listOf, taken>>
    BY <1>6 DEF RevokeAnswered
  <2>3. minted' = minted \/ minted' = [minted EXCEPT ![revoking[r].token] = "dead"]
    BY <1>6 DEF RevokeAnswered
  <2>4. \A t \in TokenIds : (minted'[t] = "none" => minted[t] = "none") /\ (minted[t] # "none" => minted'[t] # "none")
    BY <2>3
  <2> QED BY <2>1, <2>2, <2>4
<1>7. ASSUME NEW r \in Revokers, RevokerDone(r) PROVE RecordsAreNew' /\ ListsAreMinted' /\ RunsAreAtTokens'
  BY <1>7, NoRunIsNone DEF RevokerDone
<1>8. ASSUME NEW t \in TokenIds, TokenExpires(t) PROVE RecordsAreNew' /\ ListsAreMinted' /\ RunsAreAtTokens'
  BY <1>8 DEF TokenExpires
<1> QED BY <1>1, <1>2, <1>3, <1>4, <1>5, <1>6, <1>7, <1>8

\* Reservations: a request takes one, and gives it back or hands its token over.
LEMMA ReservationsKept ==
  ASSUME ReservationInv, [ScmNext]_scm
  PROVE  AsksOwnReservations' /\ HandedOnce'
<1> USE DEF ReservationInv, ScmTypes, AsksOwnReservations, HandedOnce, Busy, Asking
<1>1. ASSUME NEW a \in Asks, TokenAsked(a) PROVE AsksOwnReservations' /\ HandedOnce'
  <2>1. /\ asks'[a].pc = "mint" /\ asks'[a].provision = scmJob.provision
        /\ \A b \in Asks \ {a} : asks'[b] = asks[b]
    BY <1>1 DEF TokenAsked
  <2>2. scmJob.provision \in Provisions /\ scmJob.provision \notin issued
    BY <1>1 DEF TokenAsked
  <2> QED BY <1>1, <2>1, <2>2 DEF TokenAsked
<1>2. ASSUME NEW a \in Asks, TokenMinted(a) \/ TokenRecorded(a) PROVE AsksOwnReservations' /\ HandedOnce'
  <2>1. /\ asks[a].pc # "idle" /\ asks'[a].provision = asks[a].provision
        /\ \A b \in Asks \ {a} : asks'[b] = asks[b]
    BY <1>2 DEF TokenMinted, TokenRecorded, Ask
  <2> QED BY <1>2, <2>1 DEF TokenMinted, TokenRecorded
<1>3. ASSUME NEW a \in Asks, TokenSent(a) PROVE AsksOwnReservations' /\ HandedOnce'
  <2>1. asks'[a].pc = "idle" /\ \A b \in Asks \ {a} : asks'[b] = asks[b]
    BY <1>3, NoAskIsIdle DEF TokenSent
  <2>2. /\ asks[a].provision \in issued \cap Provisions /\ handed[asks[a].provision] = 0
        /\ handed'[asks[a].provision] = 1
        /\ \A n \in Provisions \ {asks[a].provision} : handed'[n] = handed[n]
    BY <1>3 DEF TokenSent
  <2> QED BY <1>3, <2>1, <2>2 DEF TokenSent
<1>4. ASSUME NEW a \in Asks, AskFails(a) PROVE AsksOwnReservations' /\ HandedOnce'
  <2>1. asks'[a].pc = "idle" /\ \A b \in Asks \ {a} : asks'[b] = asks[b]
    BY <1>4, NoAskIsIdle DEF AskFails
  <2>2. Busy(a) /\ issued' = issued \ {asks[a].provision} /\ UNCHANGED handed
    BY <1>4 DEF AskFails
  <2> QED BY <2>1, <2>2
<1>5. CASE HostRestarts
  BY <1>5, NoAskIsIdle DEF HostRestarts, Provisions
<1>6. CASE UNCHANGED <<asks, issued, handed>>
  BY <1>6
<1> QED BY <1>1, <1>2, <1>3, <1>4, <1>5, <1>6
        DEF ScmNext, JobLeaves, JobReturns, RevokerStarts, RevokeSent, RevokeAnswered, RevokerDone,
            TokenExpires, scm

\* A request moves its token: minted, recorded, sent or lost.
LEMMA AskAccounts ==
  ASSUME RevocationInv, NEW a \in Asks,
         TokenAsked(a) \/ TokenMinted(a) \/ TokenRecorded(a) \/ TokenSent(a) \/ AskFails(a)
  PROVE  LiveAccounted'
<1> USE DEF RevocationInv, ScmTypes, LiveAccounted, AtRecord, Asking
<1>1. CASE TokenAsked(a)
  <2>1. asks[a].pc # "record" /\ \A b \in Asks \ {a} : asks'[b] = asks[b]
    BY <1>1 DEF TokenAsked
  <2> QED BY <1>1, <2>1 DEF TokenAsked, InHand, StillAhead, ToCome, Walks, Due
<1>2. CASE TokenMinted(a)
  <2>1. PICK t \in TokenIds :
          /\ minted[t] = "none" /\ minted' = [minted EXCEPT ![t] = "live"]
          /\ asks' = [asks EXCEPT ![a].pc = "record", ![a].token = t]
    BY <1>2 DEF TokenMinted
  <2>2. /\ asks'[a].pc = "record" /\ asks'[a].token = t /\ asks[a].pc = "mint"
        /\ \A b \in Asks \ {a} : asks'[b] = asks[b]
    BY <1>2, <2>1, MintedAsk DEF TokenMinted
  <2>3. minted'[t] = "live" /\ \A u \in TokenIds \ {t} : minted'[u] = minted[u]
    BY <2>1
  <2>4. UNCHANGED <<scmJob, listOf, byJob, taken, revoking, excused>>
    BY <1>2 DEF TokenMinted
  <2>5. \A u \in TokenIds : (InHand(u) => InHand(u)') /\ (StillAhead(u) => StillAhead(u)') /\ (ToCome(u) => ToCome(u)')
    BY <2>4 DEF InHand, StillAhead, ToCome, Walks, Due
  <2>6. AtRecord(t)' /\ \A u \in TokenIds : AtRecord(u) => AtRecord(u)'
    BY <2>2
  <2> QED BY <2>3, <2>4, <2>5, <2>6
<1>3. CASE TokenRecorded(a)
  <2>a. PICK t \in TokenIds : t = asks[a].token
    BY <1>3 DEF TokenRecorded, RecordsAreNew
  <2>b. PICK list \in TokenIds : list = IF byJob = 0 THEN t ELSE byJob
    OBVIOUS
  <2>1. /\ asks[a].pc = "record" /\ \A b \in Asks \ {a} : asks'[b] = asks[b]
        /\ listOf' = [listOf EXCEPT ![t] = list] /\ byJob' = list
        /\ UNCHANGED <<minted, taken, revoking, scmJob>>
    BY <1>3, <2>a, <2>b DEF TokenRecorded
  <2>2. /\ excused \subseteq excused'
        /\ scmJob.status = "live" \/ Due \/ (\E r \in Revokers : Walks(r, list)) \/ t \in excused'
    BY <1>3, <2>a, <2>b DEF TokenRecorded
  <2>3. t \in TokenIds /\ t \notin taken /\ list # 0
    BY <2>a, <2>1, TokenAssumption DEF RecordsAreNew, ListsAreMinted, TokenIds
  <2>4. listOf'[t] = list /\ \A u \in TokenIds \ {t} : listOf'[u] = listOf[u]
    BY <2>1, <2>3
  <2>5. t \in excused' \/ StillAhead(t)' \/ ToCome(t)'
    BY <2>1, <2>2, <2>3, <2>4 DEF StillAhead, ToCome, Walks, Due
  <2>6. ASSUME NEW u \in TokenIds \ {t}, listOf[u] # 0
        PROVE  (InHand(u) => InHand(u)') /\ (StillAhead(u) => StillAhead(u)') /\ (ToCome(u) => ToCome(u)')
    <3>1. listOf[u] = byJob => byJob' = byJob
      BY <2>b, <2>1, <2>6
    <3> QED BY <2>1, <2>4, <3>1 DEF InHand, StillAhead, ToCome, Walks, Due
  <2>7. \A u \in TokenIds \ {t} : AtRecord(u) => AtRecord(u)'
    BY <2>a, <2>1
  <2> QED BY <2>1, <2>2, <2>3, <2>4, <2>5, <2>6, <2>7
<1>4. CASE TokenSent(a)
  <2>1. asks[a].pc # "record" /\ \A b \in Asks \ {a} : asks'[b] = asks[b]
    BY <1>4 DEF TokenSent
  <2> QED BY <1>4, <2>1 DEF TokenSent, InHand, StillAhead, ToCome, Walks, Due
<1>5. CASE AskFails(a)
  <2>1. asks[a].pc # "record" /\ \A b \in Asks \ {a} : asks'[b] = asks[b]
    BY <1>5 DEF AskFails
  <2>2. \/ UNCHANGED <<minted, excused>>
        \/ \E t \in TokenIds : /\ minted[t] = "none" /\ minted' = [minted EXCEPT ![t] = "live"]
                               /\ excused' = excused \cup {t}
    BY <1>5 DEF AskFails
  <2>3. UNCHANGED <<scmJob, listOf, byJob, taken, revoking>>
    BY <1>5 DEF AskFails
  <2>4. \A u \in TokenIds : (InHand(u) => InHand(u)') /\ (StillAhead(u) => StillAhead(u)') /\ (ToCome(u) => ToCome(u)')
    BY <2>3 DEF InHand, StillAhead, ToCome, Walks, Due
  <2>5. \A u \in TokenIds : AtRecord(u) => AtRecord(u)'
    BY <2>1
  <2> QED BY <2>2, <2>3, <2>4, <2>5
<1> QED BY <1>1, <1>2, <1>3, <1>4, <1>5

\* The runs of the revoker: a mark passes a token from one that is ahead of it to one that
\* has it in hand, and a list is dropped after all of it was marked, or given up.
LEMMA RunAccounts ==
  ASSUME RevocationInv, NEW r \in Revokers,
         RevokerStarts(r) \/ RevokeSent(r) \/ RevokeAnswered(r) \/ RevokerDone(r)
  PROVE  LiveAccounted'
<1> USE DEF RevocationInv, ScmTypes, LiveAccounted
<1>1. CASE RevokerStarts(r)
  <2>1. /\ revoking[r].pc = "due" /\ UNCHANGED <<scmJob, asks, minted, listOf, byJob, taken, excused>>
        /\ byJob # 0 => revoking'[r].pc = "walk" /\ revoking'[r].list = byJob
        /\ \A q \in Revokers \ {r} : revoking'[q] = revoking[q]
    BY <1>1 DEF RevokerStarts
  <2>2. \A u \in TokenIds : AtRecord(u) => AtRecord(u)'
    BY <2>1 DEF AtRecord
  <2>3. \A u \in TokenIds : (InHand(u) => InHand(u)') /\ (StillAhead(u) => StillAhead(u)')
    BY <2>1 DEF InHand, StillAhead, Walks
  <2>4. \A u \in TokenIds : listOf[u] # 0 /\ ToCome(u) => StillAhead(u)' \/ ToCome(u)'
    BY <2>1 DEF StillAhead, ToCome, Walks, Due
  <2> QED BY <2>1, <2>2, <2>3, <2>4
<1>2. CASE RevokeSent(r)
  <2>1. PICK t \in TokenIds :
          /\ listOf[t] = revoking[r].list /\ taken' = taken \cup {t}
          /\ revoking' = [revoking EXCEPT ![r].pc = "revoke", ![r].token = t]
    BY <1>2 DEF RevokeSent, LeftToRevoke, RecordsOf
  <2>2. /\ revoking'[r].pc = "revoke" /\ revoking'[r].token = t /\ revoking'[r].list = revoking[r].list
        /\ \A q \in Revokers \ {r} : revoking'[q] = revoking[q]
    BY <2>1, SentRun
  <2>3. revoking[r].pc = "walk" /\ UNCHANGED <<scmJob, asks, minted, listOf, byJob, excused>>
    BY <1>2 DEF RevokeSent
  <2>4. \A u \in TokenIds : AtRecord(u) => AtRecord(u)'
    BY <2>3 DEF AtRecord
  <2>5. InHand(t)' /\ \A u \in TokenIds : InHand(u) => InHand(u)'
    BY <2>2, <2>3 DEF InHand
  <2>6. \A u \in TokenIds \ {t} : (StillAhead(u) => StillAhead(u)') /\ (ToCome(u) => ToCome(u)')
    BY <2>1, <2>2, <2>3 DEF StillAhead, ToCome, Walks, Due
  <2> QED BY <2>3, <2>4, <2>5, <2>6
<1>3. CASE RevokeAnswered(r)
  <2> DEFINE t == revoking[r].token
  <2>1. /\ revoking'[r].pc = "walk" /\ revoking'[r].list = revoking[r].list
        /\ \A q \in Revokers \ {r} : revoking'[q] = revoking[q]
    BY <1>3, AnsweredRun DEF RevokeAnswered
  <2>2. revoking[r].pc = "revoke" /\ t \in TokenIds /\ UNCHANGED <<scmJob, asks, listOf, byJob, taken>>
    BY <1>3 DEF RevokeAnswered, RunsAreAtTokens
  <2>3. \/ minted' = [minted EXCEPT ![t] = "dead"] /\ UNCHANGED excused
        \/ excused' = excused \cup {t} /\ UNCHANGED minted
    BY <1>3 DEF RevokeAnswered
  <2>4. \A u \in TokenIds : AtRecord(u) => AtRecord(u)'
    BY <2>2 DEF AtRecord
  <2>5. \A u \in TokenIds \ {t} : InHand(u) => InHand(u)'
    BY <2>1, <2>2 DEF InHand
  <2>6. \A u \in TokenIds : (StillAhead(u) => StillAhead(u)') /\ (ToCome(u) => ToCome(u)')
    BY <2>1, <2>2 DEF StillAhead, ToCome, Walks, Due
  <2> QED BY <2>2, <2>3, <2>4, <2>5, <2>6
<1>4. CASE RevokerDone(r)
  <2>1. /\ revoking[r].pc = "walk" /\ LeftToRevoke(revoking[r].list) = {}
        /\ excused' = excused \cup Dropped
        /\ \A q \in Revokers \ {r} : revoking'[q] = revoking[q]
        /\ UNCHANGED <<scmJob, asks, minted, listOf, taken>>
    BY <1>4 DEF RevokerDone
  <2>2. \A u \in TokenIds : listOf[u] = revoking[r].list => u \in taken
    BY <2>1 DEF LeftToRevoke, RecordsOf
  <2>3. \A u \in TokenIds : AtRecord(u) => AtRecord(u)'
    BY <2>1 DEF AtRecord
  <2>4. \A u \in TokenIds : InHand(u) => InHand(u)'
    BY <2>1 DEF InHand
  <2>5. \A u \in TokenIds : StillAhead(u) => StillAhead(u)'
    BY <2>1, <2>2 DEF StillAhead, Walks
  <2>6. \A u \in TokenIds : listOf[u] # 0 /\ ToCome(u) => StillAhead(u) \/ u \in Dropped
    BY DEF ToCome, StillAhead, Dropped, RecordsOf
  <2> QED BY <2>1, <2>3, <2>4, <2>5, <2>6
<1> QED BY <1>1, <1>2, <1>3, <1>4

\* The job, GitHub and a restart.
LEMMA OthersAccount ==
  ASSUME RevocationInv,
         JobLeaves \/ JobReturns \/ HostRestarts \/ \E t \in TokenIds : TokenExpires(t)
  PROVE  LiveAccounted'
<1> USE DEF RevocationInv, ScmTypes, LiveAccounted, AtRecord
<1>1. CASE JobLeaves
  <2>1. PICK r \in Revokers : /\ revoking[r] = NoPassYet
                              /\ revoking' = [revoking EXCEPT ![r].pc = "due"]
    BY <1>1 DEF JobLeaves
  <2>2. revoking'[r].pc = "due" /\ \A q \in Revokers \ {r} : revoking'[q] = revoking[q]
    BY <2>1 DEF Run
  <2>3. UNCHANGED <<asks, minted, listOf, byJob, taken, excused>>
    BY <1>1 DEF JobLeaves
  <2>4. \A u \in TokenIds : (InHand(u) => InHand(u)') /\ (StillAhead(u) => StillAhead(u)')
    BY <2>1, <2>2, <2>3, NoRunIsNone DEF InHand, StillAhead, Walks
  <2>5. \A u \in TokenIds : ToCome(u) => ToCome(u)'
    BY <2>2, <2>3 DEF ToCome, Due
  <2> QED BY <2>3, <2>4, <2>5
<1>2. CASE JobReturns
  BY <1>2 DEF JobReturns, InHand, StillAhead, ToCome, Walks, Due
<1>3. CASE HostRestarts
  BY <1>3 DEF HostRestarts
<1>4. ASSUME NEW t \in TokenIds, TokenExpires(t) PROVE LiveAccounted'
  <2>1. \A u \in TokenIds : minted'[u] = "live" => minted[u] = "live"
    BY <1>4 DEF TokenExpires
  <2>2. UNCHANGED <<scmJob, asks, listOf, byJob, taken, revoking, excused>>
    BY <1>4 DEF TokenExpires
  <2> QED BY <2>1, <2>2 DEF InHand, StillAhead, ToCome, Walks, Due
<1> QED BY <1>1, <1>2, <1>3, <1>4

-----------------------------------------------------------------------------
ScmInv == ReservationInv /\ RevocationInv

LEMMA ScmStart == ScmInit => ScmInv
<1> SUFFICES ASSUME ScmInit PROVE ScmInv
  OBVIOUS
<1>1. ScmTypes
  BY NoAskIsIdle, NoRunIsNone, TokenAssumption DEF ScmInit, ScmTypes, Provisions
<1>2. AsksOwnReservations /\ HandedOnce /\ RecordsAreNew
  BY NoAskIsIdle DEF ScmInit, AsksOwnReservations, HandedOnce, RecordsAreNew, Busy, Provisions
<1>3. ListsAreMinted /\ RunsAreAtTokens /\ LiveAccounted
  BY NoRunIsNone DEF ScmInit, ListsAreMinted, RunsAreAtTokens, LiveAccounted
<1> QED BY <1>1, <1>2, <1>3 DEF ScmInv, ReservationInv, RevocationInv

LEMMA ScmStep == ScmInv /\ [ScmNext]_scm => ScmInv'
<1> SUFFICES ASSUME ScmInv, [ScmNext]_scm PROVE ScmInv'
  OBVIOUS
<1>1. ScmTypes'
  BY ScmTypesKept DEF ScmInv, ReservationInv, RevocationInv
<1>2. AsksOwnReservations' /\ HandedOnce'
  BY ReservationsKept DEF ScmInv
<1>3. RecordsAreNew' /\ ListsAreMinted' /\ RunsAreAtTokens'
  <2>1. CASE UNCHANGED scm
    BY <2>1 DEF scm, ScmInv, RevocationInv, RecordsAreNew, ListsAreMinted, RunsAreAtTokens
  <2> QED BY <2>1, AskRecords, PassRecords DEF ScmInv, RevocationInv, ScmNext
<1>4. LiveAccounted'
  <2>1. CASE UNCHANGED scm
    BY <2>1 DEF scm, ScmInv, RevocationInv, LiveAccounted, AtRecord, InHand, StillAhead, ToCome, Walks, Due
  <2> QED BY <2>1, AskAccounts, RunAccounts, OthersAccount DEF ScmInv, ScmNext
<1> QED BY <1>1, <1>2, <1>3, <1>4 DEF ScmInv, ReservationInv, RevocationInv

\* However many requests race and whatever fails before the answer, a provision is
\* handed one token: the reservation comes before the first await (the scm-token
\* route of runnerApi).
THEOREM OneTokenEach == ScmSpec => []OneTokenPerProvision
<1>1. ScmInv => OneTokenPerProvision
  BY DEF ScmInv, ReservationInv, HandedOnce, OneTokenPerProvision, Provisions, ScmTypes
<1> QED BY <1>1, ScmStart, ScmStep, PTL DEF ScmSpec

\* Once every run of the revoker has ended, a recorded token of a job that left is dead or
\* given up, also one pushed into a list while a run iterated over it, and one that
\* another run had marked (JobTokenRegistry).
THEOREM RecordedTokensDie == ScmSpec => []RegisteredTokensDie
<1>1. ScmInv => RegisteredTokensDie
  BY NoRunIsNone DEF ScmInv, RevocationInv, LiveAccounted, AtRecord, InHand, StillAhead, ToCome, Walks, Due,
                     RegisteredTokensDie
<1> QED BY <1>1, ScmStart, ScmStep, PTL DEF ScmSpec

(***************************************************************************)
(* A job policy: what the middleware derives the daemon admits.            *)
(***************************************************************************)
\* What has been handed on, stage by stage.
Carried ==
  /\ inputs \in [middleware : Classes, clone : Classes, base : SUBSET BaseEntries, repo : SUBSET RepoEntries,
                 subscription : BOOLEAN, image : Images, requireDigest : BOOLEAN]
  /\ stage \in {"derived", "refused"} =>
       policy = [image |-> inputs.image, hosts |-> DerivedHosts(inputs), env |-> DerivedEnv(inputs) \cup {"token"}]
  /\ stage = "refused" => ~Admissible
  /\ stage = "clamped" =>
       /\ policy.hosts = AllCanonical(DerivedHosts(inputs))
       /\ DerivedHosts(inputs) \cap Rejected(DaemonInternal) = {}
       /\ Cardinality(DerivedHosts(inputs)) <= MaxEntries
  /\ stage # "unregistered"
  /\ stage = "started" => hosts = [exact |-> AllCanonical(DerivedHosts(inputs)), suffixes |-> {}]

\* Judging the canonical spelling changes nothing: it is its own canonical spelling, and
\* as little refused.  A list grows no longer by it.
LEMMA CanonicalOnce ==
  ASSUME NEW S
  PROVE  /\ AllCanonical(AllCanonical(S)) = AllCanonical(S)
         /\ S \cap Rejected(DaemonInternal) = {} => AllCanonical(S) \cap Rejected(DaemonInternal) = {}
         /\ IsFiniteSet(S) => IsFiniteSet(AllCanonical(S)) /\ Cardinality(AllCanonical(S)) <= Cardinality(S)
<1>1. \A d : Canonical(Canonical(d)) = Canonical(d)
  BY DEF Canonical
<1>2. \A d : d \notin Rejected(DaemonInternal) => Canonical(d) \notin Rejected(DaemonInternal)
  BY DEF Canonical, Rejected, DaemonInternal
<1>3. ASSUME IsFiniteSet(S)
      PROVE  IsFiniteSet(AllCanonical(S)) /\ Cardinality(AllCanonical(S)) <= Cardinality(S)
  <2> DEFINE named == [entry \in S |-> Canonical(entry)]
  <2>1. named \in Surjection(S, AllCanonical(S))
    BY DEF Surjection, AllCanonical
  <2> QED BY <1>3, <2>1, FS_Surjection
<1> QED BY <1>1, <1>2, <1>3 DEF AllCanonical

\* The derived allowlist is finite, and of what the daemon refuses it has look-alikes at
\* most when the middleware and the forge have names.
LEMMA DerivedAreNames ==
  ASSUME Carried
  PROVE  /\ IsFiniteSet(DerivedHosts(inputs)) /\ Cardinality(DerivedHosts(inputs)) \in Nat
         /\ TrustedArePlain => DerivedHosts(inputs) \cap Rejected(DaemonInternal) \subseteq {"lookalike"}
<1> DEFINE in == inputs
<1>1. IsFiniteSet(Validated(in.base)) /\ IsFiniteSet(Validated(in.repo))
  <2>1. ASSUME NEW S, IsFiniteSet(S) PROVE IsFiniteSet(Validated(S))
    BY <2>1, FS_Difference, CanonicalOnce DEF Validated
  <2>2. IsFiniteSet(in.base) /\ IsFiniteSet(in.repo)
    BY PolicyAssumption, FS_Subset DEF Carried
  <2> QED BY <2>1, <2>2
<1>2. IsFiniteSet({in.middleware}) /\ IsFiniteSet(ForgeHosts(in.clone))
  <2>1. \A a, b : IsFiniteSet({a, b})
    <3> TAKE a, b
    <3>1. IsFiniteSet({a}) /\ IsFiniteSet({b}) /\ {a, b} = {a} \cup {b}
      BY FS_Singleton
    <3> QED BY <3>1, FS_Union
  <2> QED BY <2>1, FS_Singleton DEF ForgeHosts
<1>3. IsFiniteSet(IF in.subscription THEN AnthropicHosts ELSE {})
  BY FS_Singleton, FS_EmptySet DEF AnthropicHosts
<1>4. IsFiniteSet({in.middleware} \cup ForgeHosts(in.clone))
  BY <1>2, FS_Union
<1>5. IsFiniteSet({in.middleware} \cup ForgeHosts(in.clone) \cup Validated(in.base))
  BY <1>1, <1>4, FS_Union
<1>6. IsFiniteSet({in.middleware} \cup ForgeHosts(in.clone) \cup Validated(in.base) \cup Validated(in.repo))
  BY <1>1, <1>5, FS_Union
<1>7. IsFiniteSet(DerivedHosts(inputs))
  BY <1>3, <1>6, FS_Union DEF DerivedHosts
<1>8. ASSUME TrustedArePlain, NEW host \in DerivedHosts(inputs), host \in Rejected(DaemonInternal)
      PROVE  host = "lookalike"
  <2>1. \A S : \A h \in Validated(S) : h \notin Rejected(MiddlewareInternal)
    BY DEF Validated, AllCanonical, Canonical, Rejected, MiddlewareInternal
  <2>2. in.middleware \notin Rejected(MiddlewareInternal) /\ in.clone \notin Rejected(MiddlewareInternal)
    BY <1>8 DEF TrustedArePlain
  <2>3. \A h \in ForgeHosts(in.clone) : h \notin Rejected(MiddlewareInternal)
    BY <2>2 DEF ForgeHosts, Canonical, Rejected, MiddlewareInternal
  <2>4. \A h \in AnthropicHosts : h \notin Rejected(MiddlewareInternal)
    BY DEF AnthropicHosts, Rejected, MiddlewareInternal
  <2>5. host \notin Rejected(MiddlewareInternal)
    BY <1>8, <2>1, <2>2, <2>3, <2>4 DEF DerivedHosts
  <2> QED BY <1>8, <2>5 DEF Rejected, MiddlewareInternal, DaemonInternal
<1> QED BY <1>7, <1>8, FS_CardinalityType

\* What the daemon has clamped the proxy compiles, and there is no wildcard in it.
LEMMA ClampedCompiles ==
  ASSUME Carried, stage = "clamped"
  PROVE  Compilable /\ Wildcards = {} /\ AllCanonical(policy.hosts \ Wildcards) = AllCanonical(DerivedHosts(inputs))
<1>1. policy.hosts = AllCanonical(DerivedHosts(inputs)) /\ policy.hosts \cap Rejected(DaemonInternal) = {}
  BY CanonicalOnce DEF Carried
<1>2. "wildcard" \in Rejected(DaemonInternal)
  BY DEF Rejected
<1>3. Wildcards = {} /\ policy.hosts \ Wildcards = policy.hosts
  BY <1>1, <1>2 DEF Wildcards
<1>4. /\ Cardinality(policy.hosts) <= Cardinality(DerivedHosts(inputs)) /\ IsFiniteSet(policy.hosts)
      /\ Cardinality(DerivedHosts(inputs)) <= MaxEntries /\ Cardinality(DerivedHosts(inputs)) \in Nat
  BY <1>1, CanonicalOnce, DerivedAreNames DEF Carried
<1>5. Cardinality(policy.hosts) \in Nat
  BY <1>4, FS_CardinalityType
<1>6. Cardinality(policy.hosts) <= 2 * MaxEntries
  BY <1>4, <1>5, PolicyAssumption
<1> QED BY <1>1, <1>3, <1>6, CanonicalOnce DEF Compilable

\* DerivedIsAdmitted, of deriveJobPolicy.ts, the daemon's policyClient.mjs, netClassify.mjs
\* and the proxy's egressPolicy.mjs: the classifiers of the two sides, which have different
\* tests of an internal address, part only over names that look like one.  For the rest a
\* policy derived from names that may be trusted is refused for its image or its length
\* alone, and the proxy compiles it, entry for entry.
THEOREM PoliciesAgree == PolicySpec => []DerivedIsAdmitted
<1>1. PolicyInit => Carried
  BY DEF PolicyInit, Carried
<1>2. ASSUME Carried, [PolicyNext]_admission PROVE Carried'
  <2> USE <1>2
  <2>1. CASE UNCHANGED admission
    BY <2>1 DEF admission, Carried, Admissible, ImageAdmitted
  <2>2. CASE Derive
    <3>1. UNCHANGED inputs /\ stage' \in {"derived", "underivable"}
      BY <2>2 DEF Derive
    <3>2. CASE stage' = "derived"
      <4>1. policy' = [image |-> inputs.image, hosts |-> DerivedHosts(inputs), env |-> DerivedEnv(inputs) \cup {"token"}]
        BY <2>2, <3>2 DEF Derive
      <4> QED BY <3>1, <3>2, <4>1 DEF Carried
    <3> QED BY <3>1, <3>2 DEF Carried
  <2>3. CASE Clamp
    <3>1. CASE Admissible /\ stage' = "clamped"
      <4>1. policy.hosts = DerivedHosts(inputs) /\ UNCHANGED inputs
        BY <2>3 DEF Clamp, Carried
      <4>2. policy'.hosts = AllCanonical(policy.hosts)
        <5>1. policy' = [policy EXCEPT !.hosts = AllCanonical(@), !.env = @ \cup OwnedKeys]
          BY <2>3, <3>1 DEF Clamp
        <5>2. policy = [image |-> inputs.image, hosts |-> DerivedHosts(inputs), env |-> DerivedEnv(inputs) \cup {"token"}]
          BY <2>3 DEF Clamp, Carried
        <5> QED BY <5>1, <5>2
      <4>3. Cardinality(policy.hosts) <= MaxEntries /\ policy.hosts \cap Rejected(DaemonInternal) = {}
        BY <3>1 DEF Admissible
      <4> QED BY <3>1, <4>1, <4>2, <4>3 DEF Carried
    <3>2. CASE ~Admissible /\ stage' = "refused" /\ UNCHANGED policy
      <4>1. UNCHANGED inputs /\ stage = "derived" /\ Admissible' = Admissible
        BY <2>3, <3>2 DEF Clamp, Admissible, ImageAdmitted
      <4> QED BY <3>2, <4>1 DEF Carried
    <3> QED BY <2>3, <3>1, <3>2 DEF Clamp
  <2>4. CASE Compile
    <3>1. stage = "clamped" /\ UNCHANGED inputs
      BY <2>4 DEF Compile
    <3>2. stage' = "started"
      BY <2>4, <3>1, ClampedCompiles DEF Compile
    <3>3. hosts' = [exact |-> AllCanonical(DerivedHosts(inputs)), suffixes |-> {}]
      BY <2>4, <3>1, ClampedCompiles DEF Compile
    <3> QED BY <3>1, <3>2, <3>3 DEF Carried
  <2>5. CASE NextJob
    <3>1. /\ stage' = "row"
          /\ \/ inputs' = [inputs EXCEPT !.subscription = ~@]
             \/ \E image \in Images : inputs' = [inputs EXCEPT !.image = image]
      BY <2>5 DEF NextJob
    <3> QED BY <3>1 DEF Carried
  <2>6. CASE LookupFails
    BY <2>6 DEF LookupFails, Carried
  <2> QED BY <2>1, <2>2, <2>3, <2>4, <2>5, <2>6 DEF PolicyNext
<1>3. ASSUME Carried PROVE DerivedIsAdmitted
  <2>1. ASSUME stage = "refused", ImageAdmitted, TrustedArePlain, "lookalike" \notin policy.hosts
        PROVE  TooLong
    <3>1. policy.hosts = DerivedHosts(inputs) /\ policy.env = DerivedEnv(inputs) \cup {"token"} /\ ~Admissible
      BY <1>3, <2>1 DEF Carried
    <3>2. policy.env \cap OwnedKeys = {} /\ policy.env \subseteq AllowedKeys
      BY <3>1, Zenon DEF DerivedEnv, OwnedKeys, AllowedKeys
    <3>3. Cardinality(policy.hosts) \in Nat /\ policy.hosts \cap Rejected(DaemonInternal) = {}
      BY <1>3, <2>1, <3>1, DerivedAreNames
    <3>4. ~(Cardinality(policy.hosts) <= MaxEntries)
      BY <2>1, <3>1, <3>2, <3>3, Zenon DEF Admissible
    <3> QED BY <3>3, <3>4, PolicyAssumption DEF TooLong
  <2> QED BY <1>3, <2>1 DEF Carried, DerivedIsAdmitted
<1> QED BY <1>1, <1>2, <1>3, PTL DEF PolicySpec

(***************************************************************************)
(* What an operator does: activation, purge and onboarding.                *)
(***************************************************************************)
FileNos == 1..Files

PluginTypes ==
  /\ plugin \in {"off", "migrating", "registering", "active", "undoing"}
  /\ schema \in [objects : SUBSET FileNos, donor : SUBSET FileNos, ledger : SUBSET FileNos,
                 purged : BOOLEAN]

SchemaThere == schema.purged \/ schema.objects = FileNos

\* The strengthening: the plugin's own ledger is never ahead of the objects, and what is
\* registered belongs to an activation that has migrated.
LifecycleInv ==
  /\ PluginTypes
  /\ schema.ledger \subseteq schema.objects
  /\ plugin \in {"registering", "active"} => SchemaThere
  /\ disposers # <<>> => plugin \in {"registering", "active", "undoing"} /\ SchemaThere

LEMMA LifecycleStart == LifecycleInit => LifecycleInv
<1> SUFFICES ASSUME LifecycleInit PROVE LifecycleInv
  OBVIOUS
<1>1. PICK d \in 0..Files, o \in 0..Files :
        schema = [objects |-> 1..o, donor |-> 1..d, ledger |-> {}, purged |-> FALSE]
  BY DEF LifecycleInit
<1>2. 1..o \subseteq FileNos /\ 1..d \subseteq FileNos
  BY LifecycleAssumption DEF FileNos
<1> QED BY <1>1, <1>2 DEF LifecycleInit, LifecycleInv, PluginTypes

LEMMA LifecycleStep == LifecycleInv /\ [LifecycleNext]_lifecycle => LifecycleInv'
<1> SUFFICES ASSUME LifecycleInv, [LifecycleNext]_lifecycle PROVE LifecycleInv'
  OBVIOUS
<1> USE DEF LifecycleInv, PluginTypes, SchemaThere
<1>1. CASE ActivateBegins
  BY <1>1 DEF ActivateBegins
<1>2. CASE SeedLedger
  <2>1. Adopted \subseteq schema.objects
    BY DEF Adopted
  <2> QED BY <1>2, <2>1 DEF SeedLedger
<1>3. CASE MigrateOne
  <2>1. PICK m \in FileNos \ schema.ledger :
          schema' = [schema EXCEPT !.ledger = @ \cup {m}, !.objects = @ \cup {m}]
    BY <1>3 DEF MigrateOne, FileNos
  <2> QED BY <1>3, <2>1 DEF MigrateOne
<1>4. CASE MigrationFails \/ RegistrationThrows \/ Close
  BY <1>4 DEF MigrationFails, RegistrationThrows, Close, Undoes
<1>5. CASE MigrationsDone
  <2>1. schema.objects = FileNos
    BY <1>5 DEF MigrationsDone, FileNos
  <2> QED BY <1>5, <2>1 DEF MigrationsDone
<1>6. CASE Registers
  BY <1>6 DEF Registers
<1>7. CASE ActivateEnds
  BY <1>7 DEF ActivateEnds
<1>8. CASE DisposeOne
  BY <1>8 DEF DisposeOne
<1>9. CASE UndoEnds
  BY <1>9 DEF UndoEnds
<1>10. CASE Purge
  BY <1>10 DEF Purge
<1>11. CASE UNCHANGED <<plugin, disposers, schema, activations>>
  BY <1>11
<1> QED BY <1>1, <1>2, <1>3, <1>4, <1>5, <1>6, <1>7, <1>8, <1>9, <1>10, <1>11
        DEF LifecycleNext, TickStarts, TickLists, TickExpires, TickFinalizes, TickFails, lifecycle

\* A registration finds every object of every file, whatever core's ledger says, until
\* the operator purges (plugin.ts:354-392).
THEOREM SchemaComesFirst == LifecycleSpec => []SchemaBeforeService
<1>1. LifecycleInv => SchemaBeforeService
  BY DEF LifecycleInv, SchemaThere, FileNos, SchemaBeforeService
<1> QED BY <1>1, LifecycleStart, LifecycleStep, PTL DEF LifecycleSpec
-----------------------------------------------------------------------------
AddPlace == {"idle", "probed", "created", "patched", "stored", "answered", "cut"}
CallbackPlace == {"idle", "consumed", "refused", "converted", "written", "saved"}

AddRequest == [at : AddPlace, kind : {"pat", "device"}]

OnboardingTypes ==
  /\ adds \in [Adds -> AddRequest]
  /\ repoRows \in [Adds -> [exists : BOOLEAN, ref : {"none", "pending", "own", "github app"},
                            branch : {"unknown", "checked"}]]
  /\ repoVault \in [Adds -> BOOLEAN]
  /\ deletes \in [Adds -> {"idle", "cleared"}]
  /\ flow \in {"none", "pending", "expired", "spent"}
  /\ callbacks \in [Callbacks -> CallbackPlace]
  /\ app \in [row : BOOLEAN, secrets : BOOLEAN, installed : BOOLEAN, unclear : BOOLEAN]

\* A repository that is being added keeps its row unless a delete outran it.
AddsHaveRows ==
  \A a \in Adds :
    /\ adds[a].at \in {"created", "patched", "stored"} => repoRows[a].exists \/ a \in outrun
    /\ deletes[a] = "cleared" =>
         a \in outrun \/ (~repoVault[a] /\ adds[a].at \in {"answered", "cut"})
    /\ repoVault[a] => repoRows[a].exists \/ a \in outrun

\* The state of a manifest flow is consumed once, so one callback saves the App.
InFlight(c) == callbacks[c] \in {"consumed", "converted", "written", "saved"}
OneSaves ==
  /\ app.row \/ (\E c \in Callbacks : InFlight(c)) => flow = "spent"
  /\ \A c, o \in Callbacks : InFlight(c) /\ InFlight(o) => c = o
AppUsable ==
  /\ app.row => app.unclear \/ (app.secrets /\ \A c \in Callbacks : InFlight(c) => callbacks[c] = "saved")
  /\ \A c \in Callbacks : callbacks[c] = "written" => app.secrets

\* The strengthening of SecretsFollowRows.
OnboardingInv == OnboardingTypes /\ AddsHaveRows /\ OneSaves /\ AppUsable

\* What moving a request on does to its record, and to the table of requests.
LEMMA AddMoves ==
  ASSUME NEW r \in AddRequest, NEW to
  PROVE  /\ [r EXCEPT !.at = to] = [at |-> to, kind |-> r.kind]
         /\ [r EXCEPT !.at = to].at = to
         /\ to \in AddPlace => [r EXCEPT !.at = to] \in AddRequest
<1> USE DEF AddRequest
<1>1. r = [at |-> r.at, kind |-> r.kind] /\ r.kind \in {"pat", "device"} /\ r.at \in AddPlace
  OBVIOUS
<1>2. [r EXCEPT !.at = to].at = to
  BY <1>1
<1>3. [r EXCEPT !.at = to] = [at |-> to, kind |-> r.kind]
  BY <1>1
<1> QED BY <1>1, <1>2, <1>3

LEMMA AddMoved ==
  ASSUME adds \in [Adds -> AddRequest], NEW a \in Adds, NEW from, NEW to \in AddPlace, AddAt(a, from, to)
  PROVE  /\ adds' \in [Adds -> AddRequest] /\ adds[a].at = from /\ adds'[a].at = to
         /\ \A o \in Adds \ {a} : adds'[o] = adds[o]
<1> DEFINE moved == [adds[a] EXCEPT !.at = to]
<1>1. moved \in AddRequest /\ moved.at = to
  BY AddMoves
<1>2. adds[a].at = from /\ adds' = [adds EXCEPT ![a] = moved]
  BY DEF AddAt
<1> HIDE DEF moved
<1> QED BY <1>1, <1>2

LEMMA OnboardingStart == OnboardingInit => OnboardingInv
BY DEF OnboardingInit, OnboardingInv, OnboardingTypes, AddsHaveRows, OneSaves, InFlight, AppUsable,
       AddRequest, AddPlace, CallbackPlace, NoRepo

\* The repositories' side: one request moves, and its row and token with it.
LEMMA RepoSideKeeps ==
  ASSUME OnboardingTypes, AddsHaveRows, UNCHANGED AppSide,
         \/ ConnectStarts \/ ConnectPolled
         \/ \E a \in Adds : \/ AddValidated(a) \/ RepoCreated(a) \/ RefPatched(a) \/ TokenStored(a)
                            \/ ProtectionChecked(a) \/ DeleteClears(a) \/ DeleteDrops(a) \/ Bound(a)
  PROVE  OnboardingTypes' /\ AddsHaveRows'
<1> DEFINE RepoType == [exists : BOOLEAN, ref : {"none", "pending", "own", "github app"},
                        branch : {"unknown", "checked"}]
           AppTypes == /\ flow \in {"none", "pending", "expired", "spent"}
                       /\ callbacks \in [Callbacks -> CallbackPlace]
                       /\ app \in [row : BOOLEAN, secrets : BOOLEAN, installed : BOOLEAN, unclear : BOOLEAN]
           Intact == OnboardingTypes' /\ AddsHaveRows'
<1>1. /\ adds \in [Adds -> AddRequest] /\ repoRows \in [Adds -> RepoType]
      /\ repoVault \in [Adds -> BOOLEAN] /\ deletes \in [Adds -> {"idle", "cleared"}] /\ AppTypes
  BY DEF OnboardingTypes
<1>2. AppTypes'
  BY <1>1 DEF AppSide
<1>3. /\ adds' \in [Adds -> AddRequest] /\ repoRows' \in [Adds -> RepoType]
      /\ repoVault' \in [Adds -> BOOLEAN] /\ deletes' \in [Adds -> {"idle", "cleared"}]
      => OnboardingTypes'
  BY <1>2 DEF OnboardingTypes
<1> HIDE DEF AppTypes
<1>4. CASE ConnectStarts \/ ConnectPolled
  <2>1. UNCHANGED <<adds, repoRows, repoVault, deletes, outrun>>
    BY <1>4 DEF ConnectStarts, ConnectPolled
  <2> QED BY <1>1, <1>3, <2>1 DEF AddsHaveRows
<1>5. ASSUME NEW a \in Adds, AddValidated(a) PROVE Intact
  <2>1. PICK k \in {"pat", "device"} : adds' = [adds EXCEPT ![a] = [at |-> "probed", kind |-> k]]
    <3>1. adds[a] = [at |-> adds[a].at, kind |-> adds[a].kind] /\ adds[a].kind \in {"pat", "device"}
      BY <1>1 DEF AddRequest
    <3>2. \/ adds' = [adds EXCEPT ![a].at = "probed"]
          \/ adds' = [adds EXCEPT ![a] = [at |-> "probed", kind |-> "device"]]
      BY <1>5 DEF AddValidated, AddAt
    <3>3. CASE adds' = [adds EXCEPT ![a].at = "probed"]
      <4>1. [adds[a] EXCEPT !.at = "probed"] = [at |-> "probed", kind |-> adds[a].kind]
        BY <1>1, AddMoves
      <4>2. adds' = [adds EXCEPT ![a] = [adds[a] EXCEPT !.at = "probed"]]
        BY <3>3
      <4> QED BY <3>1, <4>1, <4>2
    <3>4. CASE adds' = [adds EXCEPT ![a] = [at |-> "probed", kind |-> "device"]]
      BY <3>4
    <3> QED BY <3>2, <3>3, <3>4
  <2>2. adds[a].at = "idle" /\ UNCHANGED <<repoRows, repoVault, deletes, outrun>>
    BY <1>5 DEF AddValidated, AddAt
  <2>3. [at |-> "probed", kind |-> k] \in AddRequest
    BY DEF AddRequest, AddPlace
  <2>4. OnboardingTypes'
    BY <1>1, <1>3, <2>1, <2>2, <2>3
  <2>5. AddsHaveRows'
    BY <1>1, <2>1, <2>2 DEF AddsHaveRows
  <2> QED BY <2>4, <2>5
<1>6. ASSUME NEW a \in Adds, RepoCreated(a) \/ TokenStored(a) \/ DeleteClears(a) \/ DeleteDrops(a)
      PROVE  Intact
  <2>1. CASE RepoCreated(a)
    <3>1. /\ adds' \in [Adds -> AddRequest] /\ adds[a].at = "probed" /\ adds'[a].at = "created"
          /\ \A o \in Adds \ {a} : adds'[o] = adds[o]
      BY <1>1, <2>1, AddMoved DEF RepoCreated, AddPlace
    <3>2. /\ [NoRepo EXCEPT !.exists = TRUE, !.ref = "pending"] \in RepoType
          /\ [NoRepo EXCEPT !.exists = TRUE, !.ref = "pending"].exists
      BY DEF NoRepo
    <3>3. repoRows' \in [Adds -> RepoType] /\ repoRows'[a].exists
          /\ \A o \in Adds \ {a} : repoRows'[o] = repoRows[o]
      BY <1>1, <2>1, <3>2 DEF RepoCreated
    <3>4. OnboardingTypes'
      BY <1>1, <1>3, <2>1, <3>1, <3>3 DEF RepoCreated
    <3> QED BY <1>1, <2>1, <3>1, <3>3, <3>4 DEF RepoCreated, AddsHaveRows
  <2>2. CASE TokenStored(a)
    <3>1. /\ adds' \in [Adds -> AddRequest] /\ adds[a].at = "patched" /\ adds'[a].at = "stored"
          /\ \A o \in Adds \ {a} : adds'[o] = adds[o]
      BY <1>1, <2>2, AddMoved DEF TokenStored, AddPlace
    <3>2. OnboardingTypes'
      BY <1>1, <1>3, <2>2, <3>1 DEF TokenStored
    <3> QED BY <1>1, <2>2, <3>1, <3>2 DEF TokenStored, AddsHaveRows
  <2>3. CASE DeleteClears(a)
    BY <1>1, <1>3, <2>3 DEF DeleteClears, AddsHaveRows
  <2>4. CASE DeleteDrops(a)
    BY <1>1, <1>3, <2>4 DEF DeleteDrops, AddsHaveRows, NoRepo
  <2> QED BY <1>6, <2>1, <2>2, <2>3, <2>4
<1>7. ASSUME NEW a \in Adds, RefPatched(a) PROVE Intact
  <2> DEFINE ref == IF repoRows[a].exists THEN "own" ELSE repoRows[a].ref
  <2>1. /\ ref \in {"none", "pending", "own", "github app"}
        /\ repoRows' = [repoRows EXCEPT ![a].ref = ref]
    BY <1>1, <1>7 DEF RefPatched
  <2>2. /\ adds' \in [Adds -> AddRequest] /\ adds[a].at = "created" /\ adds'[a].at = "patched"
        /\ \A o \in Adds \ {a} : adds'[o] = adds[o]
        /\ UNCHANGED <<repoVault, deletes, outrun>>
    BY <1>1, <1>7, AddMoved DEF RefPatched, AddPlace
  <2> HIDE DEF ref
  <2>3. OnboardingTypes'
    <3>1. repoRows' \in [Adds -> RepoType]
      BY <1>1, <2>1
    <3> QED BY <1>1, <1>3, <2>2, <3>1
  <2>4. \A o \in Adds : repoRows'[o].exists = repoRows[o].exists
    BY <1>1, <2>1
  <2> QED BY <2>2, <2>3, <2>4 DEF AddsHaveRows
<1>8. ASSUME NEW a \in Adds, ProtectionChecked(a) PROVE Intact
  <2>1. UNCHANGED repoRows \/ repoRows' = [repoRows EXCEPT ![a].branch = "checked"]
    BY <1>8 DEF ProtectionChecked
  <2>2. /\ adds[a].at \in {"stored", "answered"} /\ adds'[a].at = "answered"
        /\ adds' \in [Adds -> AddRequest] /\ \A o \in Adds \ {a} : adds'[o] = adds[o]
    <3>1. CASE AddAt(a, "stored", "answered")
      BY <1>1, <3>1, AddMoved DEF AddPlace
    <3>2. CASE adds[a].at = "answered" /\ UNCHANGED adds
      BY <1>1, <3>2
    <3> QED BY <1>8, <3>1, <3>2 DEF ProtectionChecked
  <2>3. UNCHANGED <<repoVault, deletes, outrun>>
    BY <1>8 DEF ProtectionChecked
  <2>4. repoRows' \in [Adds -> RepoType] /\ \A o \in Adds : repoRows'[o].exists = repoRows[o].exists
    <3>1. CASE UNCHANGED repoRows
      BY <1>1, <3>1
    <3>2. CASE repoRows' = [repoRows EXCEPT ![a].branch = "checked"]
      <4> DEFINE row == [repoRows[a] EXCEPT !.branch = "checked"]
      <4>1. row \in RepoType /\ row.exists = repoRows[a].exists
        BY <1>1
      <4>2. repoRows' = [repoRows EXCEPT ![a] = row]
        BY <3>2
      <4> HIDE DEF row
      <4> QED BY <1>1, <4>1, <4>2
    <3> QED BY <2>1, <3>1, <3>2
  <2>5. OnboardingTypes'
    BY <1>1, <1>3, <2>2, <2>3, <2>4
  <2> QED BY <2>2, <2>3, <2>4, <2>5 DEF AddsHaveRows
<1>9. ASSUME NEW a \in Adds, Bound(a) PROVE Intact
  <2>1. /\ repoRows' = [repoRows EXCEPT ![a].ref = "github app", ![a].branch = "checked"]
        /\ UNCHANGED <<adds, repoVault, deletes, outrun>>
    BY <1>9 DEF Bound
  <2>2. [repoRows[a] EXCEPT !.ref = "github app", !.branch = "checked"] \in RepoType
    BY <1>1
  <2>3. repoRows' = [repoRows EXCEPT ![a] = [repoRows[a] EXCEPT !.ref = "github app", !.branch = "checked"]]
    BY <1>1, <2>1
  <2>4. repoRows' \in [Adds -> RepoType] /\ \A o \in Adds : repoRows'[o].exists = repoRows[o].exists
    BY <1>1, <2>2, <2>3
  <2>5. OnboardingTypes'
    BY <1>1, <1>3, <2>1, <2>4
  <2> QED BY <2>1, <2>4, <2>5 DEF AddsHaveRows
<1> QED BY <1>4, <1>5, <1>6, <1>7, <1>8, <1>9

\* The App's side: one callback moves.
LEMMA AppSideKeeps ==
  ASSUME OnboardingTypes, OneSaves, AppUsable, UNCHANGED RepoSide,
         \/ ManifestStarts \/ FlowExpires \/ InstallationSet
         \/ \E c \in Callbacks : \/ CallbackConsumes(c) \/ CodeExchanged(c) \/ SecretsWritten(c)
                                 \/ VaultFails(c) \/ SaveCommits(c) \/ SaveFails(c)
  PROVE  OnboardingTypes' /\ OneSaves' /\ AppUsable'
<1> USE DEF OneSaves, AppUsable, InFlight
<1> DEFINE AppType == [row : BOOLEAN, secrets : BOOLEAN, installed : BOOLEAN, unclear : BOOLEAN]
           Intact == OnboardingTypes' /\ OneSaves' /\ AppUsable'
<1>1. /\ flow \in {"none", "pending", "expired", "spent"} /\ app \in AppType
      /\ callbacks \in [Callbacks -> CallbackPlace]
  BY DEF OnboardingTypes
<1>2. /\ flow' \in {"none", "pending", "expired", "spent"} /\ app' \in AppType
      /\ callbacks' \in [Callbacks -> CallbackPlace]
      => OnboardingTypes'
  BY DEF OnboardingTypes, RepoSide
<1>3. CASE ManifestStarts \/ FlowExpires \/ InstallationSet
  BY <1>1, <1>2, <1>3 DEF ManifestStarts, FlowExpires, InstallationSet
<1>4. ASSUME NEW c \in Callbacks, CallbackConsumes(c) PROVE Intact
  <2>1. PICK to \in {"consumed", "refused"} :
          callbacks' = [callbacks EXCEPT ![c] = to] /\ (to = "consumed" => flow = "pending")
    BY <1>4 DEF CallbackConsumes
  <2>2. /\ callbacks[c] = "idle" /\ UNCHANGED app
        /\ flow' = (IF flow \in {"pending", "expired"} THEN "spent" ELSE flow)
    BY <1>4 DEF CallbackConsumes
  <2>3. flow' \in {"none", "pending", "expired", "spent"} /\ (flow = "spent" => flow' = "spent")
        /\ (to = "consumed" => flow' = "spent")
    BY <1>1, <2>1, <2>2
  <2>4. OnboardingTypes'
    BY <1>1, <1>2, <2>1, <2>2, <2>3 DEF CallbackPlace
  <2>5. OneSaves' /\ AppUsable'
    BY <1>1, <2>1, <2>2, <2>3
  <2> QED BY <2>4, <2>5
<1>5. ASSUME NEW c \in Callbacks, CodeExchanged(c) PROVE Intact
  <2>1. PICK to \in {"converted", "refused"} : callbacks' = [callbacks EXCEPT ![c] = to]
    BY <1>5 DEF CodeExchanged
  <2>2. callbacks[c] = "consumed" /\ UNCHANGED <<flow, app>>
    BY <1>5 DEF CodeExchanged
  <2>3. OnboardingTypes'
    BY <1>1, <1>2, <2>1, <2>2 DEF CallbackPlace
  <2>4. OneSaves' /\ AppUsable'
    BY <1>1, <2>1, <2>2
  <2> QED BY <2>3, <2>4
<1>6. ASSUME NEW c \in Callbacks, SecretsWritten(c) \/ VaultFails(c) \/ SaveCommits(c) PROVE Intact
  <2>1. PICK to \in {"written", "refused", "saved"} : callbacks' = [callbacks EXCEPT ![c] = to]
    BY <1>6 DEF SecretsWritten, VaultFails, SaveCommits
  <2>2. /\ UNCHANGED flow
        /\ \/ callbacks[c] = "converted" /\ to = "written" /\ app' = [app EXCEPT !.secrets = TRUE]
           \/ callbacks[c] = "converted" /\ to = "refused" /\ UNCHANGED app
           \/ callbacks[c] = "written" /\ to = "saved" /\ app' = [app EXCEPT !.row = TRUE]
    BY <1>1, <1>6, <2>1 DEF SecretsWritten, VaultFails, SaveCommits
  <2>3. OnboardingTypes'
    BY <1>1, <1>2, <2>1, <2>2 DEF CallbackPlace
  <2>4. OneSaves' /\ AppUsable'
    BY <1>1, <2>1, <2>2
  <2> QED BY <2>3, <2>4
<1>7. ASSUME NEW c \in Callbacks, SaveFails(c) PROVE Intact
  <2>1. PICK applied \in BOOLEAN :
          app' = [app EXCEPT !.row = @ \/ applied, !.secrets = FALSE, !.unclear = @ \/ applied]
    BY <1>7 DEF SaveFails
  <2>2. /\ callbacks[c] = "written" /\ callbacks' = [callbacks EXCEPT ![c] = "refused"] /\ UNCHANGED flow
    BY <1>7 DEF SaveFails
  <2>3. ~app.row \/ app.unclear
    BY <2>2
  <2>4. app' \in AppType /\ (app'.row => app'.unclear)
    BY <1>1, <2>1, <2>3
  <2>5. OnboardingTypes'
    BY <1>1, <1>2, <2>2, <2>4 DEF CallbackPlace
  <2>6. OneSaves' /\ AppUsable'
    BY <1>1, <2>2, <2>4
  <2> QED BY <2>5, <2>6
<1> QED BY <1>3, <1>4, <1>5, <1>6, <1>7

\* A crash ends what is under way and takes back nothing that was written.
LEMMA CrashKeeps ==
  ASSUME OnboardingInv, ProcessCrashes
  PROVE  OnboardingInv'
<1> USE DEF OnboardingInv, OnboardingTypes, ProcessCrashes
<1>1. OnboardingTypes'
  <2>1. adds' \in [Adds -> AddRequest]
    <3>1. \A a \in Adds : [adds[a] EXCEPT !.at = "cut"] \in AddRequest
      BY AddMoves DEF AddPlace
    <3> QED BY <3>1
  <2>2. deletes' \in [Adds -> {"idle", "cleared"}] /\ callbacks' \in [Callbacks -> CallbackPlace]
    BY DEF CallbackPlace
  <2>3. flow' \in {"none", "pending", "expired", "spent"}
    OBVIOUS
  <2> QED BY <2>1, <2>2, <2>3
<1>2. AddsHaveRows'
  <2>1. /\ \A a \in Adds : adds'[a].at = adds[a].at \/ adds'[a].at = "cut"
        /\ \A a \in Adds : deletes'[a] = "idle"
        /\ UNCHANGED <<repoRows, repoVault, outrun>>
    <3>1. \A a \in Adds : adds'[a].at = adds[a].at \/ adds'[a].at = "cut"
      <4> SUFFICES ASSUME NEW a \in Adds PROVE adds'[a].at = adds[a].at \/ adds'[a].at = "cut"
        OBVIOUS
      <4>1. adds'[a] = adds[a] \/ adds'[a] = [adds[a] EXCEPT !.at = "cut"]
        OBVIOUS
      <4>2. adds[a] \in AddRequest
        OBVIOUS
      <4>3. [adds[a] EXCEPT !.at = "cut"].at = "cut"
        BY <4>2, AddMoves
      <4> QED BY <4>1, <4>3
    <3>2. \A a \in Adds : deletes'[a] = "idle"
      OBVIOUS
    <3> QED BY <3>1, <3>2
  <2>2. AddsHaveRows /\ \A a \in Adds : adds[a].at \in AddPlace
    BY DEF AddRequest
  <2>3. \A a \in Adds : deletes'[a] # "cleared"
    BY <2>1
  <2> SUFFICES ASSUME NEW a \in Adds
               PROVE  /\ adds'[a].at \in {"created", "patched", "stored"} => repoRows[a].exists \/ a \in outrun
                      /\ repoVault[a] => repoRows[a].exists \/ a \in outrun
    <3> HIDE DEF OnboardingInv, OnboardingTypes, ProcessCrashes
    <3> QED BY <2>1, <2>3 DEF AddsHaveRows
  <2> QED BY <2>1, <2>2 DEF AddsHaveRows
<1>3. OneSaves' /\ AppUsable'
  BY DEF OneSaves, AppUsable, InFlight
<1> QED BY <1>1, <1>2, <1>3

LEMMA OnboardingStep == OnboardingInv /\ [OnboardingNext]_onboarding => OnboardingInv'
<1> SUFFICES ASSUME OnboardingInv, [OnboardingNext]_onboarding PROVE OnboardingInv'
  OBVIOUS
<1>1. CASE UNCHANGED onboarding
  BY <1>1 DEF onboarding, OnboardingInv, OnboardingTypes, AddsHaveRows, OneSaves, AppUsable, InFlight
<1>2. CASE ProcessCrashes
  BY <1>2, CrashKeeps
<1>3. CASE \/ ConnectStarts \/ ConnectPolled
           \/ \E a \in Adds : \/ AddValidated(a) \/ RepoCreated(a) \/ RefPatched(a) \/ TokenStored(a)
                              \/ ProtectionChecked(a) \/ DeleteClears(a) \/ DeleteDrops(a) \/ Bound(a)
  <2>1. UNCHANGED AppSide
    BY <1>3 DEF ConnectStarts, ConnectPolled, AddValidated, RepoCreated, RefPatched, TokenStored,
                ProtectionChecked, DeleteClears, DeleteDrops, Bound, AppSide
  <2>2. OneSaves' /\ AppUsable'
    BY <2>1 DEF OnboardingInv, OneSaves, AppUsable, InFlight, AppSide
  <2> QED BY <1>3, <2>1, <2>2, RepoSideKeeps DEF OnboardingInv
<1>4. CASE \/ ManifestStarts \/ FlowExpires \/ InstallationSet
           \/ \E c \in Callbacks : \/ CallbackConsumes(c) \/ CodeExchanged(c) \/ SecretsWritten(c)
                                   \/ VaultFails(c) \/ SaveCommits(c) \/ SaveFails(c)
  <2>1. UNCHANGED RepoSide
    BY <1>4 DEF ManifestStarts, FlowExpires, InstallationSet, CallbackConsumes, CodeExchanged,
                SecretsWritten, VaultFails, SaveCommits, SaveFails, RepoSide
  <2>2. AddsHaveRows'
    BY <2>1 DEF OnboardingInv, AddsHaveRows, RepoSide
  <2> QED BY <1>4, <2>1, <2>2, AppSideKeeps DEF OnboardingInv
<1> QED BY <1>1, <1>2, <1>3, <1>4 DEF OnboardingNext

\* Rows in the database and secrets in the vault stay together, wherever the process
\* crashes and whatever a callback, an add and a delete do to each other (githubApps,
\* the repos routes).
THEOREM SecretsStayWithRows == OnboardingSpec => []SecretsFollowRows
<1>1. OnboardingInv => SecretsFollowRows
  BY DEF OnboardingInv, AddsHaveRows, AppUsable, SecretsFollowRows
<1> QED BY <1>1, OnboardingStart, OnboardingStep, PTL DEF OnboardingSpec

(***************************************************************************)
(* The event log: a stream is in order and complete, wherever its replay   *)
(* overlaps with appends, publications and retention.                      *)
(***************************************************************************)
EventKind == {"low", "audit", "marker"}
WriterType == [pc : {"idle", "insert", "commit", "publish"}, kind : EventKind, id : Nat, tries : Nat]
StreamPlace == {"closed", "replay", "page", "tail", "live"}

LogTypes ==
  /\ log \in [EventIds -> EventKind \cup {"none"}] /\ nextId \in Nat \ {0}
  /\ writers \in [Writers -> WriterType]
  /\ overtaken \subseteq EventIds /\ received \in Seq(EventIds) /\ drops \in Nat
  /\ stream \in [pc : StreamPlace, last : Nat, page : SUBSET EventIds, pending : Seq(EventIds)]

UnderWay(w) == writers[w].pc \in {"commit", "publish"}
Arrived == {stream.pending[n] : n \in 1..Len(stream.pending)}
SeenByStream == stream.page \cup Arrived \cup {stream.last}

\* An identity is taken once, and by nobody before its time.
Identities ==
  /\ \A w \in Writers : UnderWay(w) => writers[w].id \in EventIds /\ writers[w].id < nextId
  /\ \A v, w \in Writers : UnderWay(v) /\ UnderWay(w) /\ writers[v].id = writers[w].id => v = w
  /\ \A w \in Writers : Writes(w, "commit") => writers[w].id \notin Stored
  /\ \A w \in Writers : Writes(w, "publish") => writers[w].id \in Stored
  /\ \A i \in Stored \cup SeenByStream : i < nextId

\* What the stream has seen is in the log while an earlier event is under way:
\* retention keeps behind it.  What the bus has handed over is not under way.
SeenStays == \A i \in SeenByStream, w \in Writers : UnderWay(w) /\ writers[w].id < i => i \in Stored
ArrivedIsOut ==
  \A w \in Writers : /\ UnderWay(w) => writers[w].id \notin Arrived
                     /\ Writes(w, "commit") => writers[w].id \notin SeenByStream

\* The client has events up to the last, in order.
InOrder ==
  /\ \A n \in 1..Len(received) : received[n] <= stream.last
  /\ \A m, n \in 1..Len(received) : m < n => received[m] < received[n]

\* An event the stream has passed was sent, overtaken, or will be when it is published.
PassedOver(i) ==
  i \in Received \cup overtaken \/ (i \in InPublication /\ \E o \in Stored \ InPublication : o > i)
Behind == \A i \in Stored : i <= stream.last => PassedOver(i)

\* A page is what comes next, but for events that were committed after it was read.
PageIsNext ==
  /\ \A i \in stream.page : i > stream.last
  /\ \A o \in stream.page, i \in Stored : stream.last < i /\ i < o => i \in stream.page \cup overtaken
  /\ stream.page # {} => stream.pc \in {"page", "tail"}

\* The buffer has gaps in its order only where an event was overtaken.
BufferInOrder ==
  /\ \A m, n \in 1..Len(stream.pending) :
       m < n /\ stream.pending[n] < stream.pending[m] => stream.pending[n] \in overtaken
  /\ stream.pc \in {"closed", "live"} => stream.pending = <<>>

\* From the last page on nothing is left to be read.
Accounted ==
  stream.pc \in {"tail", "live"} =>
    Stored \subseteq Received \cup overtaken \cup InPublication \cup stream.page \cup Arrived

LogInv ==
  /\ LogTypes /\ Identities /\ SeenStays /\ ArrivedIsOut /\ InOrder /\ Behind /\ PageIsNext
  /\ BufferInOrder /\ Accounted

\* An event in publication has a writer that publishes it.
LEMMA Publishing ==
  \A i : i \in InPublication <=> \E w \in Writers : Writes(w, "publish") /\ writers[w].id = i
BY DEF InPublication, Writes

\* Identities are numbers.
LEMMA Numbers ==
  ASSUME LogTypes
  PROVE  /\ \A i \in EventIds : i \in Nat
         /\ \A i \in Stored \cup SeenByStream \cup overtaken : i \in Nat
         /\ \A n \in 1..Len(received) : received[n] \in EventIds
         /\ \A w \in Writers : writers[w].id \in Nat
<1>1. EventIds \subseteq Nat
  BY EventLogAssumption DEF EventIds
<1>2. Arrived \subseteq EventIds /\ stream.page \subseteq EventIds /\ stream.last \in Nat
  <2>1. stream.pending \in Seq(EventIds)
    BY DEF LogTypes
  <2> QED BY <2>1, ElementOfSeq DEF LogTypes, Arrived
<1> QED BY <1>1, <1>2, ElementOfSeq DEF LogTypes, WriterType, Stored, SeenByStream

\* The log starts empty, the stream closed.
LEMMA LogInitially == EventLogInit => LogInv
<1> SUFFICES ASSUME EventLogInit PROVE LogInv
  OBVIOUS
<1> USE EventLogAssumption DEF EventLogInit, Closed, Waiting
<1>1. Stored = {} /\ Arrived = {} /\ \A w \in Writers : ~UnderWay(w) /\ ~Writes(w, "publish")
  BY DEF Stored, Arrived, UnderWay, Writes
<1>2. LogTypes
  BY DEF LogTypes, WriterType, EventKind, StreamPlace
<1> QED BY <1>1, <1>2 DEF LogInv, Identities, SeenStays, ArrivedIsOut, InOrder, Behind, PageIsNext,
          BufferInOrder, Accounted, SeenByStream, Writes, UnderWay

\* A writer that has no event out takes an identity at most, and it is a new one.
LEMMA WriterMoves ==
  ASSUME LogInv, NEW v \in Writers, UNCHANGED <<log, overtaken, stream, received>>,
         LogTypes', nextId' >= nextId,
         \A w \in Writers \ {v} : writers'[w] = writers[w],
         ~Writes(v, "publish"), ~Writes(v, "publish")',
         Writes(v, "commit")' => /\ writers'[v].id = nextId /\ nextId \in EventIds /\ nextId < nextId'
  PROVE  LogInv'
<1>1. InPublication' = InPublication
  BY Publishing DEF InPublication, Writes
<1>2. Stored' = Stored /\ Arrived' = Arrived /\ SeenByStream' = SeenByStream /\ Received' = Received
  BY DEF Stored, Arrived, SeenByStream, Received
<1>3. \A w \in Writers : UnderWay(w)' => \/ UnderWay(w) /\ writers'[w] = writers[w]
                                         \/ w = v /\ Writes(v, "commit")'
  BY DEF UnderWay, Writes
<1>4. Identities'
  <2>1. \A i \in Stored \cup SeenByStream : i \in Nat /\ i < nextId
    BY Numbers DEF LogInv, Identities
  <2>2. \A w \in Writers : UnderWay(w)' => writers'[w].id \in EventIds /\ writers'[w].id < nextId'
    BY <1>3, Numbers DEF LogInv, LogTypes, Identities
  <2>3. \A u, w \in Writers : UnderWay(u)' /\ UnderWay(w)' /\ writers'[u].id = writers'[w].id => u = w
    BY <1>3, Numbers DEF LogInv, LogTypes, Identities
  <2>4. \A w \in Writers : Writes(w, "commit")' => writers'[w].id \notin Stored
    BY <1>3, <2>1 DEF LogInv, Identities, Writes
  <2>5. \A w \in Writers : Writes(w, "publish")' => writers'[w].id \in Stored
    BY DEF LogInv, Identities, Writes
  <2> QED BY <1>2, <2>1, <2>2, <2>3, <2>4, <2>5 DEF LogInv, LogTypes, Identities
<1>5. SeenStays' /\ ArrivedIsOut'
  <2>1. \A i \in SeenByStream : i \in Nat /\ i < nextId
    BY Numbers DEF LogInv, Identities
  <2>2. \A w \in Writers : UnderWay(w)' => \/ UnderWay(w) /\ writers'[w] = writers[w]
                                          \/ writers'[w].id = nextId
    BY <1>3
  <2>3. nextId \in Nat /\ Arrived \subseteq SeenByStream
    BY DEF LogInv, LogTypes, SeenByStream
  <2>4. SeenStays'
    BY <1>2, <2>1, <2>2, <2>3 DEF LogInv, SeenStays
  <2>5. ArrivedIsOut'
    <3>1. \A w \in Writers : Writes(w, "commit")' => \/ Writes(w, "commit") /\ writers'[w] = writers[w]
                                                    \/ writers'[w].id = nextId
      BY DEF Writes
    <3> QED BY <1>2, <2>1, <2>2, <2>3, <3>1 DEF LogInv, ArrivedIsOut
  <2> QED BY <2>4, <2>5
<1> QED BY <1>1, <1>2, <1>4, <1>5 DEF LogInv, InOrder, Behind, PassedOver, PageIsNext, BufferInOrder, Accounted

\* A writer that waits is a writer, and one that starts is past no insert.
LEMMA WaitingWrites ==
  /\ Waiting \in WriterType /\ Waiting.pc = "idle"
  /\ \A k \in EventKind : LET r == [Waiting EXCEPT !.pc = "insert", !.kind = k]
                         IN r \in WriterType /\ r.pc = "insert"
BY DEF Waiting, WriterType, EventKind

\* The steps of an append up to its commit.
LEMMA WriterSteps ==
  ASSUME LogInv, NEW v \in Writers,
         AppendStarts(v) \/ InsertStarts(v) \/ MarkerThere(v) \/ InsertConflicts(v)
  PROVE  LogInv'
<1> DEFINE Taken(r) == r.pc = "commit" /\ r.id = nextId /\ nextId <= MaxId /\ nextId' = nextId + 1
<1>0. nextId \in Nat \ {0} /\ writers \in [Writers -> WriterType] /\ writers[v] \in WriterType
  BY DEF LogInv, LogTypes
<1>1. UNCHANGED <<log, overtaken, stream, received, drops>>
  BY DEF AppendStarts, InsertStarts, MarkerThere, InsertConflicts
<1>2. PICK r \in WriterType : /\ writers' = [writers EXCEPT ![v] = r]
                             /\ \/ r.pc \in {"idle", "insert"} /\ UNCHANGED nextId
                                \/ Taken(r)
  <2>1. CASE AppendStarts(v)
    <3>1. PICK k \in EventKind : writers' = [writers EXCEPT ![v] = [Waiting EXCEPT !.pc = "insert", !.kind = k]]
      BY <2>1 DEF AppendStarts, EventKind
    <3>2. UNCHANGED nextId
      BY <2>1 DEF AppendStarts
    <3> QED BY <3>1, <3>2, WaitingWrites
  <2>2. CASE InsertStarts(v)
    <3> DEFINE r == [writers[v] EXCEPT !.pc = "commit", !.id = nextId]
    <3>1. r \in WriterType /\ r.pc = "commit" /\ r.id = nextId
      BY <1>0 DEF WriterType
    <3>2. writers' = [writers EXCEPT ![v] = r]
      BY <2>2 DEF InsertStarts
    <3> QED BY <2>2, <3>1, <3>2 DEF InsertStarts
  <2>3. CASE MarkerThere(v)
    BY <2>3, WaitingWrites DEF MarkerThere
  <2>4. CASE InsertConflicts(v)
    <3>1. CASE writers' = [writers EXCEPT ![v] = Waiting]
      BY <2>4, <3>1, WaitingWrites DEF InsertConflicts
    <3>2. CASE writers' = [writers EXCEPT ![v].pc = "insert", ![v].tries = @ + 1]
      <4> DEFINE next == [writers[v] EXCEPT !.pc = "insert", !.tries = writers[v].tries + 1]
      <4>1. writers[v].tries + 1 \in Nat
        BY <1>0 DEF WriterType
      <4>2. next \in WriterType /\ next.pc = "insert"
        BY <1>0, <4>1 DEF WriterType
      <4>3. writers' = [writers EXCEPT ![v] = next]
        BY <3>2
      <4> QED BY <2>4, <4>2, <4>3 DEF InsertConflicts
    <3> QED BY <2>4, <3>1, <3>2 DEF InsertConflicts
  <2> QED BY <2>1, <2>2, <2>3, <2>4
<1>3. writers'[v] = r /\ \A w \in Writers \ {v} : writers'[w] = writers[w]
  BY <1>0, <1>2
<1>4. LogTypes' /\ nextId' >= nextId
  <2>1. writers' \in [Writers -> WriterType] /\ nextId' \in Nat \ {0} /\ nextId' >= nextId
    BY <1>0, <1>2
  <2> QED BY <1>1, <2>1 DEF LogInv, LogTypes
<1>5. ~Writes(v, "publish") /\ ~Writes(v, "publish")'
  BY <1>2, <1>3 DEF AppendStarts, InsertStarts, MarkerThere, InsertConflicts, Writes
<1>6. Writes(v, "commit")' => writers'[v].id = nextId /\ nextId \in EventIds /\ nextId < nextId'
  BY <1>0, <1>2, <1>3, EventLogAssumption DEF Writes, EventIds
<1> QED BY <1>1, <1>3, <1>4, <1>5, <1>6, WriterMoves

\* A commit behind an event of the log is overtaken.
LEMMA CommitStep ==
  ASSUME LogInv, NEW v \in Writers, InsertCommits(v)
  PROVE  LogInv'
<1> DEFINE c == writers[v].id
<1>1. /\ c \in EventIds /\ c \in Nat /\ c \notin Stored /\ UnderWay(v) /\ c < nextId /\ Writes(v, "commit")
      /\ \A w \in Writers : UnderWay(w) /\ writers[w].id = c => w = v
  BY Numbers DEF LogInv, Identities, InsertCommits, UnderWay, Writes
<1>2. UNCHANGED <<nextId, stream, received, drops>> /\ overtaken \subseteq overtaken'
  BY DEF InsertCommits
<1>3. /\ Stored' = Stored \cup {c} /\ overtaken' \subseteq overtaken \cup {c}
      /\ (\E i \in Stored : i > c) => c \in overtaken'
  <2>1. writers[v].kind \in EventKind /\ log' = [log EXCEPT ![c] = writers[v].kind]
    BY DEF InsertCommits, LogInv, LogTypes, WriterType
  <2>2. \A i \in EventIds : log'[i] = IF i = c THEN writers[v].kind ELSE log[i]
    BY <2>1 DEF LogInv, LogTypes
  <2> HIDE DEF c
  <2>3. Stored' = Stored \cup {c}
    BY <1>1, <2>1, <2>2 DEF Stored, EventKind
  <2>4. overtaken' = overtaken \cup (IF \E i \in Stored : i > c THEN {c} ELSE {})
    BY DEF InsertCommits, c
  <2> QED BY <2>3, <2>4
<1>4. \A w \in Writers : writers'[w].id = writers[w].id /\ (UnderWay(w)' <=> UnderWay(w))
                          /\ (Writes(w, "publish")' <=> w = v \/ Writes(w, "publish"))
                          /\ (Writes(w, "commit")' <=> w # v /\ Writes(w, "commit"))
  BY <1>1 DEF InsertCommits, LogInv, LogTypes, WriterType, UnderWay, Writes
<1>5. InPublication' = InPublication \cup {c} /\ c \notin InPublication
  BY <1>1, <1>4, Publishing DEF UnderWay, Writes, InPublication
<1>6. Arrived' = Arrived /\ SeenByStream' = SeenByStream /\ Received' = Received
  BY <1>2 DEF Arrived, SeenByStream, Received
<1>7. LogTypes'
  <2>1. log' \in [EventIds -> EventKind \cup {"none"}]
    BY DEF InsertCommits, LogInv, LogTypes, WriterType
  <2>2. writers' \in [Writers -> WriterType]
    BY DEF InsertCommits, LogInv, LogTypes, WriterType
  <2> QED BY <1>1, <1>2, <1>3, <2>1, <2>2 DEF LogInv, LogTypes
<1> HIDE DEF c
<1>8. Identities'
  <2>1. \A w \in Writers : Writes(w, "commit") /\ w # v => writers[w].id # c
    BY <1>1 DEF UnderWay, Writes
  <2>2. \A w \in Writers : UnderWay(w)' => writers'[w].id \in EventIds /\ writers'[w].id < nextId'
    BY <1>2, <1>4 DEF LogInv, Identities
  <2>3. \A u, w \in Writers : UnderWay(u)' /\ UnderWay(w)' /\ writers'[u].id = writers'[w].id => u = w
    BY <1>4 DEF LogInv, Identities
  <2>4. \A w \in Writers : Writes(w, "commit")' => writers'[w].id \notin Stored'
    BY <1>3, <1>4, <2>1 DEF LogInv, Identities
  <2>5. \A w \in Writers : Writes(w, "publish")' => writers'[w].id \in Stored'
    BY <1>3, <1>4 DEF LogInv, Identities, c
  <2>6. \A i \in Stored' \cup SeenByStream' : i < nextId'
    BY <1>1, <1>2, <1>3, <1>6 DEF LogInv, Identities
  <2> QED BY <2>2, <2>3, <2>4, <2>5, <2>6 DEF Identities
<1>9. SeenStays' /\ ArrivedIsOut'
  BY <1>3, <1>4, <1>6 DEF LogInv, SeenStays, ArrivedIsOut
<1>10. \A i \in SeenByStream : c < i => i \in Stored
  BY <1>1 DEF LogInv, SeenStays, c
<1>11. \A i \in SeenByStream : c < i => c \in overtaken'
  BY <1>1, <1>3, <1>10, Numbers DEF LogInv
<1>12. Behind'
  <2>1. \A i \in Stored : PassedOver(i) => PassedOver(i)'
    <3>1. \A i \in InPublication : i \in InPublication'
      BY <1>5
    <3>2. \A o \in Stored \ InPublication : o \in Stored' /\ o \notin InPublication'
      BY <1>1, <1>3, <1>5
    <3> QED BY <1>2, <1>6, <3>1, <3>2 DEF PassedOver
  <2>2. c <= stream.last => c \in overtaken'
    <3>1. c # stream.last
      BY <1>1 DEF LogInv, ArrivedIsOut, SeenByStream, c
    <3>2. stream.last \in SeenByStream /\ stream.last \in Nat
      BY DEF LogInv, LogTypes, SeenByStream
    <3> QED BY <1>1, <1>11, <3>1, <3>2
  <2> QED BY <1>2, <1>3, <2>1, <2>2 DEF LogInv, Behind, PassedOver
<1>13. PageIsNext'
  BY <1>2, <1>3, <1>11 DEF LogInv, PageIsNext, SeenByStream
<1> QED BY <1>2, <1>3, <1>5, <1>6, <1>7, <1>8, <1>9, <1>12, <1>13 DEF LogInv, InOrder, BufferInOrder, Accounted

\* What a client gets is in order if it is after the last.
LEMMA Sent ==
  ASSUME LogInv, NEW i \in EventIds, stream.last < i, received' = Append(received, i), stream'.last = i
  PROVE  received' \in Seq(EventIds) /\ Received' = Received \cup {i} /\ InOrder'
<1>1. received \in Seq(EventIds) /\ i \in Nat /\ stream.last \in Nat /\ Len(received) \in Nat
  BY Numbers DEF LogInv, LogTypes
<1>2. received' \in Seq(EventIds) /\ Len(received') = Len(received) + 1
  BY <1>1
<1>3. \A n \in 1..Len(received) : received'[n] = received[n] /\ received[n] \in Nat
  <2>1. \A n \in 1..Len(received) : received'[n] = received[n]
    BY <1>1
  <2> QED BY <2>1, Numbers DEF LogInv
<1>4. received'[Len(received) + 1] = i
  BY <1>1
<1>5. 1..Len(received') = 1..Len(received) \cup {Len(received) + 1}
  BY <1>1, <1>2
<1>6. Received' = Received \cup {i}
  BY <1>3, <1>4, <1>5 DEF Received
<1>7. \A n \in 1..Len(received') : received'[n] <= stream'.last
  BY <1>1, <1>3, <1>4, <1>5 DEF LogInv, InOrder
<1>8. \A m, n \in 1..Len(received') : m < n => received'[m] < received'[n]
  BY <1>1, <1>3, <1>4, <1>5 DEF LogInv, InOrder
<1> QED BY <1>2, <1>6, <1>7, <1>8 DEF InOrder

\* A stream that goes on from what it has seen or finds in the log.
LEMMA StreamMoves ==
  ASSUME LogInv, UNCHANGED <<log, nextId, writers, overtaken>>,
         SeenByStream' \subseteq SeenByStream \cup Stored, Arrived' \subseteq Arrived
  PROVE  /\ Identities' /\ SeenStays' /\ ArrivedIsOut'
         /\ Stored' = Stored /\ InPublication' = InPublication
         /\ \A i \in Stored : Received \subseteq Received' /\ PassedOver(i) => PassedOver(i)'
<1>1. Stored' = Stored /\ InPublication' = InPublication
  BY DEF Stored, InPublication
<1>2. \A w \in Writers : (UnderWay(w)' <=> UnderWay(w)) /\ (Writes(w, "commit")' <=> Writes(w, "commit"))
                          /\ (Writes(w, "publish")' <=> Writes(w, "publish"))
  BY DEF UnderWay, Writes
<1>3. Identities'
  BY <1>1, <1>2 DEF LogInv, Identities
<1>4. SeenStays' /\ ArrivedIsOut'
  BY <1>1, <1>2 DEF LogInv, Identities, SeenStays, ArrivedIsOut
<1> QED BY <1>1, <1>3, <1>4 DEF PassedOver

\* Opened, gone live or gone.
LEMMA StreamTurns ==
  ASSUME LogInv, StreamOpens \/ GoesLive \/ StreamDrops
  PROVE  LogInv'
<1>1. UNCHANGED <<log, nextId, writers, overtaken, received>> /\ drops' \in Nat
  BY DEF StreamOpens, GoesLive, StreamDrops, LogInv, LogTypes
<1>2. /\ stream'.last = stream.last /\ stream'.page \subseteq stream.page
      /\ stream'.pending \in {stream.pending, <<>>}
      /\ stream' \in [pc : StreamPlace, last : Nat, page : SUBSET EventIds, pending : Seq(EventIds)]
  <2>1. stream \in [pc : StreamPlace, last : Nat, page : SUBSET EventIds, pending : Seq(EventIds)]
    BY DEF LogInv, LogTypes
  <2>2. <<>> \in Seq(EventIds)
    OBVIOUS
  <2> QED BY <2>1, <2>2 DEF StreamOpens, GoesLive, StreamDrops, Closed, StreamPlace
<1>3. Arrived' \subseteq Arrived
  BY <1>2 DEF Arrived
<1>4. Identities' /\ SeenStays' /\ ArrivedIsOut' /\ Behind' /\ Stored' = Stored /\ Received' = Received
      /\ InPublication' = InPublication
  <2>1. SeenByStream' \subseteq SeenByStream \cup Stored
    BY <1>2, <1>3 DEF SeenByStream
  <2>2. Received' = Received
    BY <1>1 DEF Received
  <2> QED BY <1>1, <1>2, <1>3, <2>1, <2>2, StreamMoves DEF LogInv, Behind
<1>5. LogTypes'
  BY <1>1, <1>2 DEF LogInv, LogTypes
<1>6. InOrder' /\ PageIsNext'
  BY <1>1, <1>2, <1>4 DEF LogInv, InOrder, PageIsNext, StreamOpens, GoesLive, StreamDrops, Closed, LogTypes
<1>7. BufferInOrder'
  <2>1. stream'.pc \in {"closed", "live"} => stream'.pending = <<>>
    BY DEF LogInv, LogTypes, StreamOpens, GoesLive, StreamDrops, Closed
  <2> QED BY <1>1, <1>2, <2>1 DEF LogInv, BufferInOrder
<1>8. Accounted'
  <2>1. CASE GoesLive
    <3>1. stream.pc = "tail" /\ UNCHANGED <<stream.page, stream.pending>>
      BY <2>1 DEF GoesLive, LogInv, LogTypes
    <3> QED BY <1>1, <1>4, <3>1 DEF LogInv, Accounted, Arrived
  <2>2. CASE StreamOpens \/ StreamDrops
    BY <2>2 DEF StreamOpens, StreamDrops, Accounted, Closed, LogInv, LogTypes
  <2> QED BY <2>1, <2>2
<1> QED BY <1>4, <1>5, <1>6, <1>7, <1>8 DEF LogInv

\* A page is read.
LEMMA ReadStep ==
  ASSUME LogInv, PageRead
  PROVE  LogInv'
<1>1. PICK page \in FirstOf(Ahead, ReplayPage) :
        stream' = [stream EXCEPT !.page = page,
                                 !.pc = IF Cardinality(page) < ReplayPage THEN "tail" ELSE "page"]
  BY DEF PageRead
<1>2. /\ stream.pc = "replay" /\ UNCHANGED <<log, nextId, writers, overtaken, received, drops>>
      /\ stream.last \in Nat
  BY DEF PageRead, LogInv, LogTypes
<1>3. /\ page \subseteq Ahead /\ \A i \in page : \A o \in Ahead \ page : i < o
      /\ Cardinality(page) < ReplayPage => page = Ahead
  BY EventLogAssumption DEF FirstOf
<1>4. Ahead \subseteq Stored /\ Stored \subseteq EventIds /\ \A i \in Stored : i \in Nat /\ (i \in Ahead <=> i > stream.last)
  BY Numbers DEF LogInv, Ahead, Stored
<1>5. /\ stream'.last = stream.last /\ stream'.page = page /\ stream'.pending = stream.pending
      /\ stream'.pc = IF Cardinality(page) < ReplayPage THEN "tail" ELSE "page"
  BY <1>1 DEF LogInv, LogTypes
<1>6. LogTypes'
  <2>1. stream' \in [pc : StreamPlace, last : Nat, page : SUBSET EventIds, pending : Seq(EventIds)]
    BY <1>1, <1>3, <1>4 DEF LogInv, LogTypes, StreamPlace
  <2> QED BY <1>2, <2>1 DEF LogInv, LogTypes
<1>7. Identities' /\ SeenStays' /\ ArrivedIsOut' /\ Behind' /\ Stored' = Stored /\ Received' = Received
      /\ InPublication' = InPublication /\ Arrived' = Arrived
  <2>1. Arrived' = Arrived /\ Received' = Received
    BY <1>2, <1>5 DEF Arrived, Received
  <2>2. SeenByStream' \subseteq SeenByStream \cup Stored
    BY <1>3, <1>4, <1>5, <2>1 DEF SeenByStream
  <2> QED BY <1>2, <1>5, <2>1, <2>2, StreamMoves DEF LogInv, Behind
<1>8. InOrder' /\ BufferInOrder'
  BY <1>2, <1>5 DEF LogInv, InOrder, BufferInOrder
<1>9. PageIsNext'
  <2>1. \A i \in page : i > stream.last
    BY <1>3, <1>4
  <2>2. \A o \in page, i \in Stored : stream.last < i /\ i < o => i \in page
    BY <1>2, <1>3, <1>4
  <2> QED BY <1>2, <1>5, <1>7, <2>1, <2>2 DEF PageIsNext
<1>10. Accounted'
  BY <1>2, <1>3, <1>4, <1>5, <1>7 DEF LogInv, Behind, PassedOver, Accounted
<1> QED BY <1>6, <1>7, <1>8, <1>9, <1>10 DEF LogInv

\* An event of a page is written: those before it were written, or came too late.
LEMMA PageStep ==
  ASSUME LogInv, PageWritten
  PROVE  LogInv'
<1> DEFINE Next(i) == [stream EXCEPT !.page = @ \ {i},
                                     !.pc = IF @ = "page" /\ stream.page = {i} THEN "replay" ELSE @]
<1>0. stream \in [pc : StreamPlace, last : Nat, page : SUBSET EventIds, pending : Seq(EventIds)]
  BY DEF LogInv, LogTypes
<1>1. PICK i \in stream.page : (\A o \in stream.page : i <= o) /\ EventWritten(Next(i), i)
  BY DEF PageWritten
<1>2. /\ UNCHANGED <<log, nextId, writers, overtaken, drops>> /\ stream.pc \in {"page", "tail"}
      /\ i \in EventIds /\ i \in Nat /\ stream.last < i /\ i \in SeenByStream
  BY <1>0, <1>1, Numbers DEF PageWritten, LogInv, PageIsNext, SeenByStream
<1>3. /\ Next(i).last = stream.last /\ Next(i).page = stream.page \ {i} /\ Next(i).pending = stream.pending
      /\ Next(i).pc = IF stream.pc = "page" /\ stream.page = {i} THEN "replay" ELSE stream.pc
      /\ Next(i) \in [pc : StreamPlace, last : Nat, page : SUBSET EventIds, pending : Seq(EventIds)]
  BY <1>0 DEF StreamPlace
<1> HIDE DEF Next
<1>4. stream' = [Next(i) EXCEPT !.last = i] /\ received' = Append(received, i)
  BY <1>1, <1>2, <1>3 DEF EventWritten
<1>5. /\ stream'.last = i /\ stream'.page = stream.page \ {i} /\ stream'.pending = stream.pending
      /\ stream'.pc = IF stream.pc = "page" /\ stream.page = {i} THEN "replay" ELSE stream.pc
      /\ stream' \in [pc : StreamPlace, last : Nat, page : SUBSET EventIds, pending : Seq(EventIds)]
  BY <1>2, <1>3, <1>4
<1>6. received' \in Seq(EventIds) /\ Received' = Received \cup {i} /\ InOrder'
  BY <1>2, <1>4, <1>5, Sent
<1>7. LogTypes'
  BY <1>2, <1>5, <1>6 DEF LogInv, LogTypes
<1>8. Identities' /\ SeenStays' /\ ArrivedIsOut' /\ Stored' = Stored /\ InPublication' = InPublication
      /\ Arrived' = Arrived /\ \A j \in Stored : PassedOver(j) => PassedOver(j)'
  <2>1. Arrived' = Arrived
    BY <1>5 DEF Arrived
  <2>2. SeenByStream' \subseteq SeenByStream \cup Stored
    BY <1>2, <1>5, <2>1 DEF SeenByStream
  <2> QED BY <1>2, <1>6, <2>1, <2>2, StreamMoves
<1>9. Behind'
  <2> SUFFICES ASSUME NEW j \in Stored, j <= i
               PROVE  PassedOver(j)'
    BY <1>5, <1>8 DEF Behind
  <2>1. CASE j <= stream.last
    BY <1>8, <2>1 DEF LogInv, Behind
  <2>2. CASE stream.last < j /\ j < i
    <3>1. j \in stream.page \cup overtaken
      BY <1>2, <2>2 DEF LogInv, PageIsNext
    <3>2. j \notin stream.page
      BY <1>1, <1>2, <2>2, Numbers DEF LogInv
    <3> QED BY <1>2, <3>1, <3>2 DEF PassedOver
  <2>3. CASE j = i
    BY <1>6, <2>3 DEF PassedOver
  <2> QED BY <1>2, <2>1, <2>2, <2>3, Numbers DEF LogInv, LogTypes
<1>10. PageIsNext'
  <2>1. \A o \in stream.page \ {i} : i < o
    BY <1>0, <1>1, <1>2, Numbers DEF LogInv
  <2>2. ASSUME NEW o \in stream.page, NEW j \in Stored, i < j, j < o
        PROVE  j \in stream.page \cup overtaken
    <3>1. j \in Nat /\ stream.last \in Nat
      BY <1>0, Numbers DEF LogInv
    <3>2. stream.last < j
      BY <1>2, <2>2, <3>1
    <3> QED BY <2>2, <3>2 DEF LogInv, PageIsNext
  <2> QED BY <1>2, <1>5, <1>8, <2>1, <2>2 DEF PageIsNext
<1>11. BufferInOrder'
  BY <1>2, <1>5 DEF LogInv, BufferInOrder
<1>12. Accounted'
  BY <1>2, <1>5, <1>6, <1>8 DEF LogInv, Accounted
<1> QED BY <1>6, <1>7, <1>8, <1>9, <1>10, <1>11, <1>12 DEF LogInv

\* What the head of the buffer passes was overtaken, or is still to be published.
LEMMA FlushStep ==
  ASSUME LogInv, BufferFlushed
  PROVE  LogInv'
<1> DEFINE i == Head(stream.pending)
           Next == [stream EXCEPT !.pending = Tail(@)]
<1>0. /\ stream \in [pc : StreamPlace, last : Nat, page : SUBSET EventIds, pending : Seq(EventIds)]
      /\ stream.pending \in Seq(EventIds) /\ stream.pending # <<>>
  BY DEF LogInv, LogTypes, BufferFlushed
<1>1. /\ UNCHANGED <<log, nextId, writers, overtaken, drops>> /\ stream.pc = "tail" /\ stream.page = {}
      /\ EventWritten(Next, i)
  BY DEF BufferFlushed
<1>2. /\ i \in EventIds /\ i \in Nat /\ Len(stream.pending) \in Nat \ {0} /\ stream.pending[1] = i
      /\ Tail(stream.pending) \in Seq(EventIds) /\ Len(Tail(stream.pending)) = Len(stream.pending) - 1
      /\ \A n \in 1..Len(Tail(stream.pending)) : Tail(stream.pending)[n] = stream.pending[n + 1]
  BY <1>0, HeadTailProperties, EmptySeq, Numbers DEF LogInv
<1>3. /\ Next.last = stream.last /\ Next.page = {} /\ Next.pending = Tail(stream.pending) /\ Next.pc = "tail"
      /\ Next \in [pc : StreamPlace, last : Nat, page : SUBSET EventIds, pending : Seq(EventIds)]
  BY <1>0, <1>1, <1>2
<1> HIDE DEF i, Next
<1>4. /\ stream'.page = {} /\ stream'.pending = Tail(stream.pending) /\ stream'.pc = "tail"
      /\ stream' \in [pc : StreamPlace, last : Nat, page : SUBSET EventIds, pending : Seq(EventIds)]
      /\ IF i > stream.last THEN stream'.last = i /\ received' = Append(received, i)
                            ELSE stream'.last = stream.last /\ UNCHANGED received
  BY <1>1, <1>2, <1>3 DEF EventWritten
<1>5. Arrived' \subseteq Arrived /\ Arrived \subseteq Arrived' \cup {i} /\ i \in Arrived
  <2>1. Arrived' \subseteq Arrived
    BY <1>2, <1>4 DEF Arrived
  <2>2. \A n \in 1..Len(stream.pending) : n = 1 \/ stream.pending[n] = Tail(stream.pending)[n - 1]
    BY <1>2
  <2>3. \A n \in 1..Len(stream.pending) : n = 1 \/ n - 1 \in 1..Len(stream'.pending)
    BY <1>2, <1>4
  <2>4. ASSUME NEW n \in 1..Len(stream.pending)
        PROVE  stream.pending[n] \in Arrived' \cup {i}
    <3>1. CASE n = 1
      BY <1>2, <3>1
    <3>2. CASE n # 1
      <4>1. n - 1 \in 1..Len(stream'.pending) /\ stream.pending[n] = stream'.pending[n - 1]
        BY <1>4, <2>2, <2>3, <3>2
      <4> QED BY <4>1 DEF Arrived
    <3> QED BY <3>1, <3>2
  <2>5. 1 \in 1..Len(stream.pending)
    BY <1>2
  <2> QED BY <1>2, <2>1, <2>4, <2>5 DEF Arrived
<1>6. /\ received' \in Seq(EventIds) /\ InOrder' /\ Received \subseteq Received'
      /\ i > stream.last => i \in Received'
  <2>1. CASE i > stream.last
    BY <1>2, <1>4, <2>1, Sent
  <2>2. CASE ~(i > stream.last)
    BY <1>4, <2>2 DEF LogInv, LogTypes, InOrder, Received
  <2> QED BY <2>1, <2>2
<1>7. LogTypes'
  BY <1>1, <1>4, <1>6 DEF LogInv, LogTypes
<1>8. Identities' /\ SeenStays' /\ ArrivedIsOut' /\ Stored' = Stored /\ InPublication' = InPublication
      /\ \A j \in Stored : PassedOver(j) => PassedOver(j)'
  <2>1. SeenByStream' \subseteq SeenByStream \cup Stored
    BY <1>4, <1>5 DEF SeenByStream
  <2> QED BY <1>1, <1>5, <1>6, <2>1, StreamMoves
<1>9. i \notin InPublication
  BY <1>5, Publishing DEF LogInv, ArrivedIsOut, UnderWay, Writes
<1>10. Behind'
  <2> SUFFICES ASSUME NEW j \in Stored, j <= stream'.last
               PROVE  PassedOver(j)'
    BY <1>8 DEF Behind
  <2>1. CASE j <= stream.last
    BY <1>8, <2>1 DEF LogInv, Behind
  <2>2. CASE stream.last < j
    <3>1. i > stream.last /\ j <= i
      BY <1>0, <1>2, <1>4, <2>2, Numbers DEF LogInv
    <3>2. CASE j = i
      BY <1>6, <3>1, <3>2 DEF PassedOver
    <3>3. CASE j \in Received \cup overtaken
      BY <1>1, <1>6, <3>3 DEF PassedOver
    <3>4. CASE j < i /\ j \in InPublication
      <4>1. i \in Stored
        BY <1>5, <3>4, Publishing DEF LogInv, SeenStays, SeenByStream, UnderWay, Writes
      <4> QED BY <1>8, <1>9, <3>4, <4>1 DEF PassedOver
    <3>5. CASE j < i /\ j \in Arrived
      <4>1. PICK n \in 1..Len(stream.pending) : stream.pending[n] = j
        BY <3>5 DEF Arrived
      <4>2. n # 1 /\ 1 \in 1..Len(stream.pending) /\ 1 < n
        BY <1>2, <3>5, <4>1, Numbers DEF LogInv
      <4>3. j \in overtaken
        BY <1>2, <3>5, <4>1, <4>2 DEF LogInv, BufferInOrder
      <4> QED BY <1>1, <4>3 DEF PassedOver
    <3> QED BY <1>1, <1>2, <3>1, <3>2, <3>3, <3>4, <3>5, Numbers DEF LogInv, Accounted
  <2> QED BY <1>0, <2>1, <2>2, Numbers DEF LogInv
<1>11. PageIsNext'
  BY <1>4 DEF PageIsNext
<1>12. BufferInOrder'
  <2>1. ASSUME NEW m \in 1..Len(stream'.pending), NEW n \in 1..Len(stream'.pending), m < n,
               stream'.pending[n] < stream'.pending[m]
        PROVE  stream'.pending[n] \in overtaken'
    <3>1. /\ m + 1 \in 1..Len(stream.pending) /\ n + 1 \in 1..Len(stream.pending) /\ m + 1 < n + 1
          /\ stream'.pending[m] = stream.pending[m + 1] /\ stream'.pending[n] = stream.pending[n + 1]
      BY <1>2, <1>4, <2>1
    <3> QED BY <1>1, <2>1, <3>1 DEF LogInv, BufferInOrder
  <2> QED BY <1>4, <2>1 DEF BufferInOrder
<1>13. Accounted'
  <2>1. i \in Stored => i \in Received' \cup overtaken
    BY <1>0, <1>2, <1>6, <1>9 DEF LogInv, Behind, PassedOver
  <2> QED BY <1>1, <1>4, <1>5, <1>6, <1>8, <2>1 DEF LogInv, Accounted
<1> QED BY <1>6, <1>7, <1>8, <1>10, <1>11, <1>12, <1>13 DEF LogInv

\* An event is published behind one that is out: it is overtaken.
LEMMA PublishStep ==
  ASSUME LogInv, NEW v \in Writers, Published(v)
  PROVE  LogInv'
<1>0. /\ stream \in [pc : StreamPlace, last : Nat, page : SUBSET EventIds, pending : Seq(EventIds)]
      /\ stream.pending \in Seq(EventIds) /\ received \in Seq(EventIds) /\ Writes(v, "publish") /\ UnderWay(v)
  BY DEF LogInv, LogTypes, Published, Writes, UnderWay
<1>id. PICK i : i = writers[v].id
  OBVIOUS
<1>1. /\ i \in Stored /\ i \in EventIds /\ i \in Nat /\ i \in InPublication /\ i \notin Arrived /\ i < nextId
      /\ \A w \in Writers : UnderWay(w) /\ writers[w].id = i => w = v
  BY <1>0, <1>id, Numbers, Publishing DEF LogInv, Identities, ArrivedIsOut
<1>2. UNCHANGED <<log, nextId, drops>> /\ Stored' = Stored
  BY DEF Published, Stored
<1>3. \A w \in Writers : /\ UnderWay(w)' <=> UnderWay(w) /\ w # v
                         /\ Writes(w, "commit")' <=> Writes(w, "commit")
                         /\ Writes(w, "publish")' <=> Writes(w, "publish") /\ w # v
                         /\ w # v => writers'[w] = writers[w]
  BY <1>0, WaitingWrites DEF LogInv, LogTypes, Published, Writes, UnderWay
<1>4. InPublication' = InPublication \ {i}
  <2>1. \A w \in Writers : Writes(w, "publish") /\ writers[w].id = i => w = v
    BY <1>1 DEF UnderWay, Writes
  <2>2. \A j : j \in InPublication' <=> \E w \in Writers : Writes(w, "publish")' /\ writers'[w].id = j
    BY DEF InPublication, Writes
  <2> QED BY <1>id, <1>3, <2>1, <2>2, Publishing
<1>5. /\ overtaken' \subseteq overtaken \cup {i} /\ overtaken \subseteq overtaken'
      /\ \A o \in Stored \ InPublication : o > i => i \in overtaken'
  BY <1>id DEF Published
<1>6. writers' \in [Writers -> WriterType]
  BY WaitingWrites DEF LogInv, LogTypes, Published
<1>7. \/ Replaying /\ stream' = Buffered(stream, i) /\ UNCHANGED received
      \/ stream.pc = "live" /\ EventWritten(stream, i)
      \/ stream.pc = "closed" /\ UNCHANGED <<stream, received>>
  BY <1>id DEF Published
<1>8. ASSUME Received \subseteq Received', NEW j \in Stored, PassedOver(j)
      PROVE  PassedOver(j)'
  BY <1>1, <1>2, <1>4, <1>5, <1>8 DEF PassedOver
<1>9. ASSUME SeenByStream' \subseteq SeenByStream \cup {i}, Arrived' \subseteq Arrived \cup {i}
      PROVE  Identities' /\ SeenStays' /\ ArrivedIsOut'
  <2>1. Identities'
    <3>1. \A w \in Writers : UnderWay(w)' => writers'[w].id \in EventIds /\ writers'[w].id < nextId'
      BY <1>2, <1>3 DEF LogInv, Identities
    <3>2. \A u, w \in Writers : UnderWay(u)' /\ UnderWay(w)' /\ writers'[u].id = writers'[w].id => u = w
      BY <1>3 DEF LogInv, Identities
    <3>3. \A w \in Writers : Writes(w, "commit")' => writers'[w].id \notin Stored'
      BY <1>0, <1>2, <1>3 DEF LogInv, Identities, Writes
    <3>4. \A w \in Writers : Writes(w, "publish")' => writers'[w].id \in Stored'
      BY <1>2, <1>3 DEF LogInv, Identities
    <3>5. \A j \in Stored' \cup SeenByStream' : j < nextId'
      BY <1>1, <1>2, <1>9 DEF LogInv, Identities
    <3> QED BY <3>1, <3>2, <3>3, <3>4, <3>5 DEF Identities
  <2>2. SeenStays'
    BY <1>1, <1>2, <1>3, <1>9 DEF LogInv, SeenStays
  <2>3. \A w \in Writers : UnderWay(w)' => writers'[w].id \notin Arrived'
    BY <1>1, <1>3, <1>9 DEF LogInv, ArrivedIsOut
  <2>4. \A w \in Writers : Writes(w, "commit")' => writers'[w].id \notin SeenByStream'
    <3>1. \A w \in Writers : Writes(w, "commit") => UnderWay(w) /\ w # v
      BY <1>0 DEF Writes, UnderWay
    <3> QED BY <1>1, <1>3, <1>9, <3>1 DEF LogInv, ArrivedIsOut
  <2> QED BY <2>1, <2>2, <2>3, <2>4 DEF ArrivedIsOut
<1>10. CASE stream.pc = "closed" \/ (stream.pc = "live" /\ ~(i > stream.last))
  <2>1. UNCHANGED <<stream, received>>
    BY <1>7, <1>10 DEF EventWritten, Replaying
  <2>2. Received' = Received /\ Arrived' = Arrived /\ SeenByStream' = SeenByStream
    BY <2>1 DEF Received, Arrived, SeenByStream
  <2>3. LogTypes'
    BY <1>1, <1>2, <1>5, <1>6, <2>1 DEF LogInv, LogTypes
  <2>4. Behind'
    BY <1>2, <1>8, <2>1, <2>2 DEF LogInv, Behind
  <2>5. InOrder' /\ PageIsNext' /\ BufferInOrder'
    BY <1>2, <1>5, <2>1, <2>2 DEF LogInv, InOrder, PageIsNext, BufferInOrder
  <2>6. Accounted'
    <3>1. CASE stream.pc = "closed"
      BY <2>1, <3>1 DEF Accounted
    <3>2. CASE stream.pc = "live" /\ i <= stream.last
      <4>1. i \in Received \cup overtaken'
        <5>1. PassedOver(i)'
          BY <1>1, <1>8, <2>2, <3>2 DEF LogInv, Behind
        <5> QED BY <1>4, <2>2, <5>1 DEF PassedOver
      <4> QED BY <1>2, <1>4, <1>5, <2>1, <2>2, <3>2, <4>1 DEF LogInv, Accounted
    <3> QED BY <1>0, <1>1, <1>10, <3>1, <3>2
  <2> QED BY <1>9, <2>2, <2>3, <2>4, <2>5, <2>6 DEF LogInv
<1>11. CASE Replaying
  <2>1. stream' = [stream EXCEPT !.pending = Append(stream.pending, i)] /\ UNCHANGED received
    BY <1>7, <1>11 DEF Replaying, Buffered
  <2>2. /\ stream'.pc = stream.pc /\ stream'.last = stream.last /\ stream'.page = stream.page
        /\ stream'.pending = Append(stream.pending, i) /\ stream'.pending \in Seq(EventIds)
        /\ stream' \in [pc : StreamPlace, last : Nat, page : SUBSET EventIds, pending : Seq(EventIds)]
    <3>1. Append(stream.pending, i) \in Seq(EventIds)
      BY <1>0, <1>1
    <3> QED BY <1>0, <2>1, <3>1
  <2>3. /\ Len(stream.pending) \in Nat /\ Len(stream'.pending) = Len(stream.pending) + 1
        /\ stream'.pending[Len(stream.pending) + 1] = i
        /\ \A n \in 1..Len(stream.pending) : stream'.pending[n] = stream.pending[n]
        /\ 1..Len(stream'.pending) = 1..Len(stream.pending) \cup {Len(stream.pending) + 1}
    BY <1>0, <1>1, <2>2
  <2>4. Arrived' = Arrived \cup {i} /\ Received' = Received
    BY <2>1, <2>3 DEF Arrived, Received
  <2>5. SeenByStream' \subseteq SeenByStream \cup {i}
    BY <2>2, <2>4 DEF SeenByStream
  <2>6. LogTypes'
    BY <1>1, <1>2, <1>5, <1>6, <2>1, <2>2 DEF LogInv, LogTypes
  <2>7. Behind'
    BY <1>2, <1>8, <2>2, <2>4 DEF LogInv, Behind
  <2>8. InOrder' /\ PageIsNext'
    BY <1>2, <1>5, <2>1, <2>2 DEF LogInv, InOrder, PageIsNext
  <2>9. BufferInOrder'
    <3>1. \A n \in 1..Len(stream.pending) : i < stream.pending[n] => i \in overtaken'
      <4> SUFFICES ASSUME NEW n \in 1..Len(stream.pending), i < stream.pending[n]
                   PROVE  i \in overtaken'
        OBVIOUS
      <4>1. stream.pending[n] \in Arrived /\ stream.pending[n] \in Nat
        BY Numbers DEF Arrived, LogInv, SeenByStream
      <4>2. stream.pending[n] \in Stored
        BY <1>0, <1>id, <4>1 DEF LogInv, SeenStays, SeenByStream
      <4>3. stream.pending[n] \notin InPublication
        BY <4>1, Publishing DEF LogInv, ArrivedIsOut, UnderWay, Writes
      <4> QED BY <1>1, <1>5, <4>1, <4>2, <4>3
    <3>2. ASSUME NEW m \in 1..Len(stream'.pending), NEW n \in 1..Len(stream'.pending), m < n,
                 stream'.pending[n] < stream'.pending[m]
          PROVE  stream'.pending[n] \in overtaken'
      <4>1. m \in 1..Len(stream.pending) /\ stream'.pending[m] = stream.pending[m]
        BY <2>3, <3>2
      <4>2. CASE n = Len(stream.pending) + 1
        BY <2>3, <3>1, <3>2, <4>1, <4>2
      <4>3. CASE n \in 1..Len(stream.pending)
        BY <1>5, <2>3, <3>2, <4>1, <4>3 DEF LogInv, BufferInOrder
      <4> QED BY <2>3, <4>2, <4>3
    <3> QED BY <1>11, <2>2, <3>2 DEF BufferInOrder, Replaying
  <2>10. Accounted'
    BY <1>2, <1>4, <1>5, <2>2, <2>4 DEF LogInv, Accounted
  <2> QED BY <1>9, <2>4, <2>5, <2>6, <2>7, <2>8, <2>9, <2>10 DEF LogInv
<1>12. CASE stream.pc = "live" /\ i > stream.last
  <2>1. stream' = [stream EXCEPT !.last = i] /\ received' = Append(received, i)
    BY <1>7, <1>12 DEF EventWritten, Replaying
  <2>2. /\ stream'.pc = "live" /\ stream'.last = i /\ stream'.page = stream.page /\ stream.page = {}
        /\ stream'.pending = stream.pending /\ stream.pending = <<>>
        /\ stream' \in [pc : StreamPlace, last : Nat, page : SUBSET EventIds, pending : Seq(EventIds)]
    BY <1>0, <1>1, <1>12, <2>1 DEF LogInv, PageIsNext, BufferInOrder
  <2>3. received' \in Seq(EventIds) /\ Received' = Received \cup {i} /\ InOrder'
    BY <1>1, <1>12, <2>1, <2>2, Sent
  <2>4. Arrived = {} /\ Arrived' = {} /\ SeenByStream' \subseteq SeenByStream \cup {i}
    BY <2>2 DEF Arrived, SeenByStream
  <2>5. LogTypes'
    BY <1>1, <1>2, <1>5, <1>6, <2>2, <2>3 DEF LogInv, LogTypes
  <2>6. Behind'
    <3> SUFFICES ASSUME NEW j \in Stored, j <= i
                 PROVE  PassedOver(j)'
      BY <1>2, <2>2 DEF Behind
    <3>1. CASE j <= stream.last
      BY <1>8, <2>3, <3>1 DEF LogInv, Behind
    <3>2. CASE j \in Received \cup overtaken \/ j = i
      BY <1>5, <2>3, <3>2 DEF PassedOver
    <3>3. CASE j \in InPublication /\ j < i
      BY <1>1, <1>2, <1>4, <3>3 DEF PassedOver
    <3>4. j \in Received \cup overtaken \cup InPublication
      BY <1>12, <2>2, <2>4 DEF LogInv, Accounted
    <3>5. j \in Nat
      BY Numbers DEF LogInv
    <3> QED BY <1>1, <3>2, <3>3, <3>4, <3>5
  <2>7. PageIsNext' /\ BufferInOrder'
    BY <2>2 DEF PageIsNext, BufferInOrder
  <2>8. Accounted'
    BY <1>2, <1>4, <1>5, <1>12, <2>2, <2>3, <2>4 DEF LogInv, Accounted
  <2> QED BY <1>9, <2>3, <2>4, <2>5, <2>6, <2>7, <2>8 DEF LogInv
<1> QED BY <1>7, <1>10, <1>11, <1>12

\* Retention keeps behind every append under way, and so behind what it overtakes.
LEMMA PruneStep ==
  ASSUME LogInv, Prunes
  PROVE  LogInv'
<1>1. PICK n \in Stored, all \in BOOLEAN :
        /\ \A w \in Writers : UnderWay(w) => writers[w].id > n
        /\ log' = [i \in EventIds |-> IF i <= n /\ (all \/ log[i] = "low") THEN "none" ELSE log[i]]
  BY DEF Prunes, UnderWay
<1>2. UNCHANGED <<nextId, writers, overtaken, stream, received, drops>>
  BY DEF Prunes
<1>3. Stored' \subseteq Stored /\ \A i \in Stored : i > n => i \in Stored'
  BY <1>1, Numbers DEF LogInv, Stored
<1>4. /\ Arrived' = Arrived /\ SeenByStream' = SeenByStream /\ Received' = Received /\ InPublication' = InPublication
      /\ \A w \in Writers : (UnderWay(w)' <=> UnderWay(w)) /\ (Writes(w, "commit")' <=> Writes(w, "commit"))
                            /\ (Writes(w, "publish")' <=> Writes(w, "publish"))
  BY <1>2 DEF Arrived, SeenByStream, Received, InPublication, UnderWay, Writes
<1>5. n \in Nat /\ \A i \in Stored \cup SeenByStream : i \in Nat
  BY Numbers DEF LogInv
<1>6. LogTypes'
  <2>1. log' \in [EventIds -> EventKind \cup {"none"}]
    BY <1>1 DEF LogInv, LogTypes
  <2> QED BY <1>2, <2>1 DEF LogInv, LogTypes
<1>7. Identities'
  <2>1. \A w \in Writers : Writes(w, "publish") => writers[w].id \in Stored'
    BY <1>1, <1>3 DEF LogInv, Identities, UnderWay, Writes
  <2> QED BY <1>2, <1>3, <1>4, <2>1 DEF LogInv, Identities
<1>8. SeenStays' /\ ArrivedIsOut'
  <2>1. \A w \in Writers : writers[w].id \in Nat
    <3>1. LogTypes
      BY DEF LogInv
    <3> QED BY <3>1, Numbers
  <2>2. \A w \in Writers : UnderWay(w) => writers[w].id > n
    BY <1>1
  <2>3. ASSUME NEW i \in SeenByStream, NEW w \in Writers, UnderWay(w), writers[w].id < i
        PROVE  i > n
    <3>1. i \in Nat /\ n \in Nat /\ writers[w].id \in Nat /\ writers[w].id > n
      BY <1>5, <2>1, <2>2, <2>3
    <3> QED BY <2>3, <3>1
  <2>4. SeenStays'
    BY <1>2, <1>3, <1>4, <2>3 DEF LogInv, SeenStays
  <2>5. ArrivedIsOut'
    BY <1>2, <1>4 DEF LogInv, ArrivedIsOut
  <2> QED BY <2>4, <2>5
<1>9. Behind'
  <2> SUFFICES ASSUME NEW j \in Stored, PassedOver(j) PROVE PassedOver(j)'
    BY <1>2, <1>3 DEF LogInv, Behind
  <2>1. j \in InPublication => j > n
    BY <1>1, Publishing DEF UnderWay, Writes
  <2>2. \A o \in Stored \ InPublication : o > j /\ j \in InPublication => o \in Stored'
    BY <1>3, <1>5, <2>1
  <2> QED BY <1>2, <1>4, <2>2 DEF PassedOver
<1>10. InOrder' /\ PageIsNext' /\ BufferInOrder' /\ Accounted'
  BY <1>2, <1>3, <1>4 DEF LogInv, InOrder, PageIsNext, BufferInOrder, Accounted
<1> QED BY <1>6, <1>7, <1>8, <1>9, <1>10 DEF LogInv

\* Every step keeps the strengthening.
LEMMA LogStays == LogInv /\ [EventLogNext]_eventLog => LogInv'
<1> SUFFICES ASSUME LogInv, [EventLogNext]_eventLog PROVE LogInv'
  OBVIOUS
<1>1. CASE UNCHANGED eventLog
  <2>1. /\ UNCHANGED <<log, nextId, writers, overtaken, stream, received, drops>>
        /\ Arrived' = Arrived /\ SeenByStream' = SeenByStream /\ Received' = Received
    BY <1>1 DEF eventLog, Arrived, SeenByStream, Received
  <2>2. Identities' /\ SeenStays' /\ ArrivedIsOut' /\ Behind' /\ Stored' = Stored /\ InPublication' = InPublication
    BY <2>1, StreamMoves DEF LogInv, Behind
  <2>3. LogTypes' /\ InOrder' /\ PageIsNext' /\ BufferInOrder' /\ Accounted'
    BY <2>1, <2>2 DEF LogInv, LogTypes, InOrder, PageIsNext, BufferInOrder, Accounted
  <2> QED BY <2>2, <2>3 DEF LogInv
<1>2. CASE \E w \in Writers : AppendStarts(w) \/ InsertStarts(w) \/ MarkerThere(w) \/ InsertCommits(w)
                              \/ InsertConflicts(w) \/ Published(w)
  BY <1>2, WriterSteps, CommitStep, PublishStep
<1>3. CASE StreamOpens \/ PageRead \/ PageWritten \/ BufferFlushed \/ GoesLive \/ StreamDrops \/ Prunes
  BY <1>3, StreamTurns, ReadStep, PageStep, FlushStep, PruneStep
<1> QED BY <1>1, <1>2, <1>3 DEF EventLogNext

\* A client is sent each event once and in order; a live stream has sent, or will be handed,
\* every event that none with a greater identity overtook (registerJobEventsRoute).
THEOREM StreamsMissNothing == EventLogSpec => []StreamIsComplete
<1>1. LogInv => StreamIsComplete
  <2>1. LogInv /\ stream.pc = "live" => Arrived = {} /\ stream.page = {}
    BY DEF LogInv, PageIsNext, BufferInOrder, Arrived
  <2> QED BY <2>1 DEF LogInv, InOrder, Accounted, StreamIsComplete
<1> QED BY <1>1, LogInitially, LogStays, PTL DEF EventLogSpec

(***************************************************************************)
(* The diff: what is committed is the hunk on a base whose lines it names.   *)
(***************************************************************************)
Contents == [content : Texts \cup {"unterminated"}, cr : BOOLEAN]
HunkLine == [tag : {"+", "-", " ", "\\"}, text : Contents]
Hunk == [start : Int, old : Int, new : Int, body : Seq(HunkLine)]
File == [lines : Seq(FileLines), bare : BOOLEAN]

DiffTypes ==
  /\ edit \in [base : File, head : {edit.head}]
  /\ upload \in [hunk : Hunk, numstat : {upload.numstat}, touch : {upload.touch}, approved : BOOLEAN]
  /\ progress \in [out : Seq(Contents), cursor : Nat, bare : BOOLEAN,
                   kind : {"none", "+", "-", " "}, line : Nat \ {0}]

\* Between two lines of the loop: the hunk fits as far as it was read, and what is put out
\* is its new side up to there behind the lines it skipped.
SoFar ==
  stageOf = "applying" => \E done \in 0..Len(Body) :
    /\ progress.line = done + 1
    /\ progress.cursor = OldAt(done) /\ progress.cursor <= Len(edit.base.lines)
    /\ Len(progress.out) = NewAt(done)
    /\ \A m \in 1..Skipped : progress.out[m] = edit.base.lines[m]
    /\ \A n \in 1..done : Body[n].tag \in {"-", " "} => edit.base.lines[OldAt(n)] = Body[n].text
    /\ \A n \in 1..done : Body[n].tag \in {"+", " "} => progress.out[NewAt(n)] = Body[n].text

\* The apply starts from the beginning, and only of a diff the policy allows.
Unstarted == stageOf \in {"posted", "gated", "allowed"} => progress.line = 1
Judged ==
  stageOf \in {"allowed", "applying", "applied", "mismatch"} =>
    ~RefusedOutright(upload) /\ DiffVerdict(upload) = "allowed"

ApplyIsExact ==
  /\ stageOf = "applied" => Fits(Body, edit.base.lines) /\ Merges(Body, edit.base.lines, committed.lines)
  /\ stageOf = "mismatch" => ~Fits(Body, edit.base.lines)

DiffInv == DiffTypes /\ SoFar /\ Unstarted /\ Judged /\ ApplyIsExact

\* A function on an initial segment is a sequence.
LEMMA FunctionIsSeq == \A S : \A n \in Nat : \A f \in [1..n -> S] : f \in Seq(S)
  OBVIOUS

\* Positions are natural numbers.
LEMMA Positions ==
  /\ \A a \in Nat : \A b \in 0..a : b \in Nat /\ b <= a
  /\ \A a, b \in Nat : a <= b => \A m \in 1..a : m \in 1..b
  /\ \A a, b \in Nat : a < b <=> a + 1 <= b
  /\ \A a \in Nat : a + 1 \in Nat \ {0}
  /\ \A a, b \in Nat : a <= b /\ a + 1 > b => a = b
  /\ \A a, b \in Nat : ~(a > b) => a <= b
  /\ \A a, b \in Nat : a <= b => a \in 0..b
  /\ \A a \in Nat : \A b \in 1..a : b \in Nat /\ b <= a /\ b - 1 \in Nat /\ (b - 1) + 1 = b
  OBVIOUS

LEMMA Within ==
  ASSUME NEW a \in Nat, NEW b \in Nat, NEW c \in Nat, a = b + 1, a <= c PROVE a \in 1..c
  OBVIOUS

\* The lines of a file are what a line of the diff may hold.
LEMMA LinesAreContents == FileLines \subseteq Contents /\ Seq(FileLines) \subseteq Seq(Contents)
<1>1. FileLines \subseteq Contents
  BY DEF FileLines, Contents
<1> QED BY <1>1, SeqMonotonic

\* Tagging, markers and cutting give sequences of lines.
LEMMA TaggedType ==
  ASSUME NEW tag \in {"+", "-", " ", "\\"}, NEW texts \in Seq(FileLines)
  PROVE  Tagged(tag, texts) \in Seq(HunkLine)
<1>1. DOMAIN texts = 1..Len(texts) /\ Len(texts) \in Nat /\ \A k \in 1..Len(texts) : texts[k] \in FileLines
  BY LenProperties, ElementOfSeq
<1>2. \A k \in 1..Len(texts) : Line(tag, texts[k]) \in HunkLine
  BY <1>1, LinesAreContents DEF Line, HunkLine
<1>3. Tagged(tag, texts) \in [1..Len(texts) -> HunkLine]
  BY <1>1, <1>2 DEF Tagged
<1> QED BY <1>1, <1>3, FunctionIsSeq

LEMMA MarkerType ==
  ASSUME NEW body \in Seq(HunkLine), NEW bare
  PROVE  WithMarker(body, bare) \in Seq(HunkLine)
<1>1. NoNewline \in Seq(HunkLine)
  <2>1. Line("\\", [content |-> "unterminated", cr |-> FALSE]) \in HunkLine
    BY DEF Line, HunkLine, Contents
  <2> QED BY <2>1 DEF NoNewline
<1> QED BY <1>1, ConcatProperties DEF WithMarker

LEMMA CutType ==
  ASSUME NEW S, NEW s \in Seq(S), NEW a \in Nat \ {0}, NEW b \in Int, b <= Len(s)
  PROVE  SubSeq(s, a, b) \in Seq(S) /\ Len(SubSeq(s, a, b)) = (IF a <= b THEN b - a + 1 ELSE 0)
           /\ \A k \in 1..b - a + 1 : SubSeq(s, a, b)[k] = s[a + k - 1]
<1>1. \A k \in a..b : s[k] \in S
  BY ElementOfSeq, LenProperties
<1> QED BY <1>1, SubSeqProperties

LEMMA HunkType ==
  ASSUME NEW base \in File, NEW from \in Nat \ {0}, NEW to \in Nat, NEW ins \in Seq(FileLines), NEW bare,
         to <= Len(base.lines), to + 1 >= from
  PROVE  HunkOf(base, from, to, ins, bare) \in Hunk
<1> DEFINE last == to = Len(base.lines)
           pre  == IF from > 1 THEN SubSeq(base.lines, from - 1, from - 1) ELSE <<>>
           post == IF last THEN <<>> ELSE SubSeq(base.lines, to + 1, to + 1)
           cut  == SubSeq(base.lines, from, to)
           start == IF base.lines = <<>> THEN 0 ELSE from - Len(pre)
           body == Tagged(" ", pre) \o WithMarker(Tagged("-", cut), last /\ base.bare)
                     \o WithMarker(Tagged("+", ins), last /\ bare)
                     \o WithMarker(Tagged(" ", post), to + 1 = Len(base.lines) /\ base.bare)
<1>1. base.lines \in Seq(FileLines) /\ Len(base.lines) \in Nat
  BY LenProperties DEF File
<1>2. <<>> \in Seq(FileLines) /\ Len(<<>>) = 0
  BY EmptySeq
<1>3. pre \in Seq(FileLines) /\ Len(pre) \in Nat
  <2>1. CASE from > 1
    <3>1. from - 1 \in Nat \ {0} /\ from - 1 \in Int /\ from - 1 <= Len(base.lines)
      BY <1>1, <2>1
    <3>2. SubSeq(base.lines, from - 1, from - 1) \in Seq(FileLines)
      BY <1>1, <3>1, CutType
    <3> QED BY <2>1, <3>2, LenProperties
  <2> QED BY <1>2, <2>1
<1>4. post \in Seq(FileLines) /\ Len(post) \in Nat
  <2>1. CASE ~last
    <3>1. to + 1 \in Nat \ {0} /\ to + 1 \in Int /\ to + 1 <= Len(base.lines)
      BY <1>1, <2>1
    <3>2. SubSeq(base.lines, to + 1, to + 1) \in Seq(FileLines)
      BY <1>1, <3>1, CutType
    <3> QED BY <2>1, <3>2, LenProperties
  <2> QED BY <1>2, <2>1
<1>5. cut \in Seq(FileLines) /\ Len(cut) \in Nat
  <2>1. cut \in Seq(FileLines)
    BY <1>1, CutType
  <2> QED BY <2>1, LenProperties
<1>6. Len(ins) \in Nat
  BY LenProperties
<1> HIDE DEF pre, post, cut, last
<1>7. body \in Seq(HunkLine)
  <2>1. Tagged(" ", pre) \in Seq(HunkLine)
    BY <1>3, TaggedType
  <2>2. WithMarker(Tagged("-", cut), last /\ base.bare) \in Seq(HunkLine)
    BY <1>5, TaggedType, MarkerType
  <2>3. WithMarker(Tagged("+", ins), last /\ bare) \in Seq(HunkLine)
    BY TaggedType, MarkerType
  <2>4. WithMarker(Tagged(" ", post), to + 1 = Len(base.lines) /\ base.bare) \in Seq(HunkLine)
    BY <1>4, TaggedType, MarkerType
  <2>5. Tagged(" ", pre) \o WithMarker(Tagged("-", cut), last /\ base.bare) \in Seq(HunkLine)
    BY <2>1, <2>2, ConcatProperties
  <2>6. Tagged(" ", pre) \o WithMarker(Tagged("-", cut), last /\ base.bare)
          \o WithMarker(Tagged("+", ins), last /\ bare) \in Seq(HunkLine)
    BY <2>3, <2>5, ConcatProperties
  <2> QED BY <2>4, <2>6, ConcatProperties
<1>8. start \in Int
  BY <1>3
<1>9. HunkOf(base, from, to, ins, bare)
        = [start |-> start, old |-> Len(pre) + Len(cut) + Len(post), new |-> Len(pre) + Len(ins) + Len(post),
           body |-> body]
  BY DEF HunkOf, pre, post, cut, last
<1>10. Len(pre) + Len(cut) + Len(post) \in Int /\ Len(pre) + Len(ins) + Len(post) \in Int
  BY <1>3, <1>4, <1>5, <1>6
<1> HIDE DEF start, body
<1> QED BY <1>7, <1>8, <1>9, <1>10 DEF Hunk

\* The parse keeps the lines and their tags.
LEMMA ParsedType ==
  ASSUME NEW body \in Seq(HunkLine) PROVE Parsed(body) \in Seq(HunkLine)
<1>1. DOMAIN body = 1..Len(body) /\ Len(body) \in Nat /\ \A n \in 1..Len(body) : body[n] \in HunkLine
  BY LenProperties, ElementOfSeq
<1>2. \A n \in 1..Len(body) : Line(body[n].tag, [body[n].text EXCEPT !.cr = FALSE]) \in HunkLine
  <2> TAKE n \in 1..Len(body)
  <2>1. body[n].tag \in {"+", "-", " ", "\\"} /\ body[n].text \in Contents
    BY <1>1 DEF HunkLine
  <2>2. [body[n].text EXCEPT !.cr = FALSE] \in Contents
    BY <2>1 DEF Contents
  <2> QED BY <2>1, <2>2 DEF Line, HunkLine
<1>3. Parsed(body) \in [1..Len(body) -> HunkLine]
  BY <1>1, <1>2 DEF Parsed
<1> QED BY <1>1, <1>3, FunctionIsSeq

\* The lines counted on a side are finitely many, and grow with the body line by line.
LEMMA CountType == ASSUME NEW body \in Seq(HunkLine), NEW tag PROVE Count(body, tag) \in Nat
<1>1. DOMAIN body = 1..Len(body) /\ Len(body) \in Nat
  BY LenProperties
<1>2. IsFiniteSet(1..Len(body))
  BY <1>1, FS_Interval
<1>3. IsFiniteSet({n \in DOMAIN body : body[n].tag = tag})
  BY <1>1, <1>2, FS_Subset
<1> QED BY <1>3, FS_CardinalityType DEF Count

LEMMA BeforeType ==
  ASSUME NEW n \in Nat, NEW side
  PROVE  IsFiniteSet({m \in 1..n : Body[m].tag \in {side, " "}}) /\ Before(side, n) \in Nat
<1>1. IsFiniteSet(1..n)
  BY FS_Interval
<1>2. IsFiniteSet({m \in 1..n : Body[m].tag \in {side, " "}})
  BY <1>1, FS_Subset
<1> QED BY <1>2, FS_CardinalityType DEF Before

LEMMA BeforeNone == ASSUME NEW side PROVE Before(side, 0) = 0
<1>1. {m \in 1..0 : Body[m].tag \in {side, " "}} = {}
  OBVIOUS
<1> QED BY <1>1, FS_EmptySet DEF Before

LEMMA BeforeNext ==
  ASSUME NEW n \in Nat, NEW side
  PROVE  Before(side, n + 1) = IF Body[n + 1].tag \in {side, " "} THEN Before(side, n) + 1 ELSE Before(side, n)
<1> DEFINE ahead(k) == {m \in 1..k : Body[m].tag \in {side, " "}}
<1>1. IsFiniteSet(ahead(n))
  BY BeforeType
<1>2. 1..n + 1 = 1..n \cup {n + 1} /\ n + 1 \notin 1..n
  OBVIOUS
<1>3. CASE Body[n + 1].tag \in {side, " "}
  <2>1. ahead(n + 1) = ahead(n) \cup {n + 1} /\ n + 1 \notin ahead(n)
    BY <1>2, <1>3
  <2>2. Cardinality(ahead(n + 1)) = Cardinality(ahead(n)) + 1
    BY <1>1, <2>1, FS_AddElement
  <2> QED BY <1>3, <2>2 DEF Before
<1>4. CASE Body[n + 1].tag \notin {side, " "}
  <2>1. ahead(n + 1) = ahead(n)
    BY <1>2, <1>4
  <2> QED BY <1>4, <2>1 DEF Before
<1> QED BY <1>3, <1>4

LEMMA BeforeGrows ==
  ASSUME NEW m \in Nat, NEW n \in Nat, m <= n, NEW side
  PROVE  Before(side, m) <= Before(side, n)
<1>1. {k \in 1..m : Body[k].tag \in {side, " "}} \in SUBSET {k \in 1..n : Body[k].tag \in {side, " "}}
  <2>1. \A k \in 1..m : k \in 1..n
    OBVIOUS
  <2> QED BY <2>1
<1> QED BY <1>1, BeforeType, FS_Subset DEF Before

\* A line of a side has its place behind all that precede it.
LEMMA Places ==
  ASSUME upload.hunk.start \in Int
  PROVE  /\ Skipped \in Nat
         /\ \A n \in Nat : /\ OldAt(n) \in Nat /\ OldAt(n) >= Skipped
                           /\ NewAt(n) \in Nat /\ NewAt(n) >= Skipped
         /\ OldAt(0) = Skipped /\ NewAt(0) = Skipped
         /\ \A n \in Nat : /\ (Body[n + 1].tag \in {"-", " "} => OldAt(n + 1) = OldAt(n) + 1)
                           /\ (Body[n + 1].tag \notin {"-", " "} => OldAt(n + 1) = OldAt(n))
                           /\ (Body[n + 1].tag \in {"+", " "} => NewAt(n + 1) = NewAt(n) + 1)
                           /\ (Body[n + 1].tag \notin {"+", " "} => NewAt(n + 1) = NewAt(n))
         /\ \A n \in Nat, m \in Nat : m <= n => OldAt(m) <= OldAt(n) /\ NewAt(m) <= NewAt(n)
<1>1. Skipped \in Nat
  BY DEF Skipped
<1>2. \A n \in Nat : OldAt(n) \in Nat /\ OldAt(n) >= Skipped /\ NewAt(n) \in Nat /\ NewAt(n) >= Skipped
  <2> SUFFICES ASSUME NEW n \in Nat
               PROVE  OldAt(n) \in Nat /\ OldAt(n) >= Skipped /\ NewAt(n) \in Nat /\ NewAt(n) >= Skipped
    OBVIOUS
  <2>1. Before("-", n) \in Nat /\ Before("+", n) \in Nat
    BY BeforeType
  <2> QED BY <1>1, <2>1 DEF OldAt, NewAt
<1>3. OldAt(0) = Skipped /\ NewAt(0) = Skipped
  BY <1>1, BeforeNone DEF OldAt, NewAt
<1>4. ASSUME NEW n \in Nat
      PROVE  /\ (Body[n + 1].tag \in {"-", " "} => OldAt(n + 1) = OldAt(n) + 1)
             /\ (Body[n + 1].tag \notin {"-", " "} => OldAt(n + 1) = OldAt(n))
             /\ (Body[n + 1].tag \in {"+", " "} => NewAt(n + 1) = NewAt(n) + 1)
             /\ (Body[n + 1].tag \notin {"+", " "} => NewAt(n + 1) = NewAt(n))
  <2>1. Before("-", n) \in Nat /\ Before("+", n) \in Nat
    BY BeforeType
  <2>2. /\ (Body[n + 1].tag \in {"-", " "} => OldAt(n + 1) = OldAt(n) + 1)
        /\ (Body[n + 1].tag \notin {"-", " "} => OldAt(n + 1) = OldAt(n))
    <3>1. CASE Body[n + 1].tag \in {"-", " "}
      <4>1. Before("-", n + 1) = Before("-", n) + 1
        BY <3>1, BeforeNext
      <4>2. Skipped + (Before("-", n) + 1) = (Skipped + Before("-", n)) + 1
        BY <1>1, <2>1
      <4> QED BY <3>1, <4>1, <4>2, Zenon DEF OldAt
    <3>2. CASE Body[n + 1].tag \notin {"-", " "}
      <4>1. Before("-", n + 1) = Before("-", n)
        BY <3>2, BeforeNext
      <4> QED BY <1>1, <2>1, <3>2, <4>1 DEF OldAt
    <3> QED BY <3>1, <3>2
  <2>3. /\ (Body[n + 1].tag \in {"+", " "} => NewAt(n + 1) = NewAt(n) + 1)
        /\ (Body[n + 1].tag \notin {"+", " "} => NewAt(n + 1) = NewAt(n))
    <3>1. CASE Body[n + 1].tag \in {"+", " "}
      <4>1. Before("+", n + 1) = Before("+", n) + 1
        BY <3>1, BeforeNext
      <4>2. Skipped + (Before("+", n) + 1) = (Skipped + Before("+", n)) + 1
        BY <1>1, <2>1
      <4> QED BY <3>1, <4>1, <4>2, Zenon DEF NewAt
    <3>2. CASE Body[n + 1].tag \notin {"+", " "}
      <4>1. Before("+", n + 1) = Before("+", n)
        BY <3>2, BeforeNext
      <4> QED BY <1>1, <2>1, <3>2, <4>1 DEF NewAt
    <3> QED BY <3>1, <3>2
  <2> QED BY <2>2, <2>3
<1>5. ASSUME NEW n \in Nat, NEW m \in Nat, m <= n
      PROVE  OldAt(m) <= OldAt(n) /\ NewAt(m) <= NewAt(n)
  <2>1. Before("-", m) <= Before("-", n) /\ Before("+", m) <= Before("+", n)
    BY <1>5, BeforeGrows
  <2>2. /\ Before("-", m) \in Nat /\ Before("+", m) \in Nat
        /\ Before("-", n) \in Nat /\ Before("+", n) \in Nat
    BY BeforeType
  <2> QED BY <1>1, <2>1, <2>2 DEF OldAt, NewAt
<1> QED BY <1>1, <1>2, <1>3, <1>4, <1>5

\* A line of the body, and its place in the hunk's new side.
LEMMA BodyLines ==
  ASSUME DiffTypes
  PROVE  /\ upload.hunk.start \in Int /\ Body \in Seq(HunkLine) /\ Len(Body) \in Nat
         /\ DOMAIN Body = 1..Len(Body)
         /\ \A n \in 1..Len(Body) : Body[n] \in HunkLine
<1>1. upload.hunk.start \in Int /\ Body \in Seq(HunkLine)
  BY ParsedType DEF DiffTypes, Hunk, Body
<1> QED BY <1>1, LenProperties, ElementOfSeq

LEMMA NewSide ==
  ASSUME DiffTypes, NEW k \in Nat
  PROVE  \A n \in 1..k : Body[n].tag \in {"+", " "} => NewAt(n) \in 1..NewAt(k)
<1> TAKE n \in 1..k
<1> HAVE Body[n].tag \in {"+", " "}
<1>1. n - 1 \in Nat /\ n \in Nat /\ n <= k /\ (n - 1) + 1 = n
  BY Positions
<1>2. upload.hunk.start \in Int
  BY BodyLines
<1>3. NewAt(n) <= NewAt(k) /\ NewAt(n - 1) \in Nat /\ NewAt(n) \in Nat /\ NewAt(k) \in Nat
  BY <1>1, <1>2, Places
<1>4. NewAt((n - 1) + 1) = NewAt(n - 1) + 1
  <2>1. Body[(n - 1) + 1].tag \in {"+", " "}
    BY <1>1
  <2> QED BY <1>1, <1>2, <2>1, Places
<1>5. NewAt(n) = NewAt(n - 1) + 1
  BY <1>1, <1>4
<1> QED BY <1>3, <1>5, Within

\* The files of the constants are files.
LEMMA SmallFiles == \A n : SeqsUpTo(n) \subseteq Seq(FileLines)
<1> SUFFICES ASSUME NEW n, NEW s \in SeqsUpTo(n) PROVE s \in Seq(FileLines)
  OBVIOUS
<1>1. PICK k \in 0..n : s \in [1..k -> FileLines]
  BY DEF SeqsUpTo
<1> QED BY <1>1, FunctionIsSeq

LEMMA DiffInitially == DiffInit => DiffInv
<1> SUFFICES ASSUME DiffInit PROVE DiffInv
  OBVIOUS
<1>1. PICK e \in Edits, skew \in {-1, 0, 1}, lie \in {0, 1}, touch \in Touches, ok \in BOOLEAN :
        /\ edit = [base |-> e.base, head |-> EditedFile(e.base, e.from, e.to, e.ins, e.bare)]
        /\ upload = Posted(HunkOf(e.base, e.from, e.to, e.ins, e.bare), skew, lie, touch, ok)
        /\ stageOf = "posted" /\ committed = e.base
        /\ progress = [out |-> <<>>, cursor |-> 0, bare |-> FALSE, kind |-> "none", line |-> 1]
  BY Zenon DEF DiffInit
<1>2. /\ stageOf = "posted"
      /\ progress = [out |-> <<>>, cursor |-> 0, bare |-> FALSE, kind |-> "none", line |-> 1]
  BY DEF DiffInit
<1>3. \A n : SeqsUpTo(n) \subseteq Seq(FileLines)
  BY SmallFiles
<1>4. /\ e.base \in File /\ e.from \in Nat \ {0} /\ e.to \in Nat /\ e.ins \in Seq(FileLines)
      /\ e.to + 1 >= e.from /\ e.to <= Len(e.base.lines)
  BY <1>3, DiffAssumption DEF Edits, File
<1>5. HunkOf(e.base, e.from, e.to, e.ins, e.bare) \in Hunk
  BY <1>4, HunkType
<1>6. Posted(HunkOf(e.base, e.from, e.to, e.ins, e.bare), skew, lie, touch, ok)
        \in [hunk : Hunk, numstat : {upload.numstat}, touch : {upload.touch}, approved : BOOLEAN]
  <2> DEFINE hunk == HunkOf(e.base, e.from, e.to, e.ins, e.bare)
             stats == [added |-> Count(hunk.body, "+") - lie, deleted |-> Count(hunk.body, "-")]
  <2>1. [hunk EXCEPT !.new = @ + skew] \in Hunk
    BY <1>5 DEF Hunk
  <2>2. upload = [hunk |-> [hunk EXCEPT !.new = @ + skew], numstat |-> stats, touch |-> touch, approved |-> ok]
    BY <1>1 DEF Posted
  <2> HIDE DEF hunk, stats
  <2>3. upload.numstat = stats /\ upload.touch = touch
    BY <2>2
  <2> QED BY <1>1, <2>1, <2>2, <2>3
<1>7. DiffTypes
  <2>1. edit \in [base : File, head : {edit.head}]
    BY <1>1, <1>4
  <2>2. upload \in [hunk : Hunk, numstat : {upload.numstat}, touch : {upload.touch}, approved : BOOLEAN]
    BY <1>1, <1>6
  <2>3. progress \in [out : Seq(Contents), cursor : Nat, bare : BOOLEAN,
                      kind : {"none", "+", "-", " "}, line : Nat \ {0}]
    BY <1>2, EmptySeq
  <2> QED BY <2>1, <2>2, <2>3 DEF DiffTypes
<1>8. SoFar /\ Unstarted /\ Judged /\ ApplyIsExact
  BY <1>2 DEF SoFar, Unstarted, Judged, ApplyIsExact
<1> QED BY <1>7, <1>8 DEF DiffInv

LEMMA HunkStays ==
  ASSUME UNCHANGED upload
  PROVE  /\ Body' = Body /\ Skipped' = Skipped
         /\ \A n : OldAt(n)' = OldAt(n) /\ NewAt(n)' = NewAt(n)
         /\ OldAt(Len(Body))' = OldAt(Len(Body)) /\ NewAt(Len(Body))' = NewAt(Len(Body))
         /\ DiffVerdict(upload)' = DiffVerdict(upload)
         /\ RefusedOutright(upload)' = RefusedOutright(upload)
<1>1. Body' = Body /\ Skipped' = Skipped
  BY DEF Body, Skipped
<1>2. \A side, n : Before(side, n)' = Before(side, n)
  BY <1>1 DEF Before
<1>3. \A n : OldAt(n)' = OldAt(n) /\ NewAt(n)' = NewAt(n)
  BY <1>1, <1>2 DEF OldAt, NewAt
<1>4. DiffVerdict(upload)' = DiffVerdict(upload) /\ RefusedOutright(upload)' = RefusedOutright(upload)
  OBVIOUS
<1>5. OldAt(Len(Body))' = OldAt(Len(Body)) /\ NewAt(Len(Body))' = NewAt(Len(Body))
  BY <1>1 DEF OldAt, NewAt, Before
<1> QED BY <1>1, <1>3, <1>4, <1>5

\* A diff is judged, or judged again: nothing is applied yet.
LEMMA JudgeSteps == ASSUME DiffInv, Judge \/ GateApproved PROVE DiffInv'
<1>1. CASE Judge
  <2>1. UNCHANGED <<edit, upload, progress, committed>> /\ stageOf = "posted"
    BY <1>1 DEF Judge
  <2>2. DiffTypes'
    BY <2>1 DEF DiffInv, DiffTypes
  <2>3. /\ stageOf' \in {"malformed", "refused", "denied", "gated", "allowed"}
        /\ stageOf' = "allowed" => ~RefusedOutright(upload) /\ DiffVerdict(upload) = "allowed"
    BY <1>1 DEF Judge, DiffVerdict
  <2>4. SoFar' /\ Unstarted' /\ ApplyIsExact'
    BY <2>1, <2>3 DEF DiffInv, SoFar, Unstarted, ApplyIsExact
  <2>5. Judged'
    BY <2>1, <2>3, HunkStays DEF Judged
  <2> QED BY <2>2, <2>4, <2>5 DEF DiffInv
<1>2. CASE GateApproved
  <2>1. /\ UNCHANGED <<edit, progress, committed>> /\ stageOf = "gated" /\ stageOf' = "posted"
        /\ upload' = [upload EXCEPT !.approved = TRUE]
    BY <1>2 DEF GateApproved
  <2>2. DiffTypes'
    <3>1. upload' \in [hunk : Hunk, numstat : {upload'.numstat}, touch : {upload'.touch}, approved : BOOLEAN]
      BY <2>1 DEF DiffInv, DiffTypes
    <3> QED BY <2>1, <3>1 DEF DiffInv, DiffTypes
  <2>3. SoFar' /\ Unstarted' /\ ApplyIsExact' /\ Judged'
    BY <2>1 DEF DiffInv, SoFar, Unstarted, ApplyIsExact, Judged
  <2> QED BY <2>2, <2>3 DEF DiffInv
<1> QED BY <1>1, <1>2

\* The lines before the hunk are taken over: nothing of it is read yet.
LEMMA StartStep == ASSUME DiffInv, ApplyStarts PROVE DiffInv'
<1>1. PICK base \in {edit.base.lines} \cup SeqsUpTo(1) :
        /\ edit' = [edit EXCEPT !.base.lines = base]
        /\ stageOf' = IF Skipped > Len(base) THEN "mismatch" ELSE "applying"
        /\ progress' = IF Skipped > Len(base) THEN progress
                       ELSE [progress EXCEPT !.out = SubSeq(base, 1, Skipped), !.cursor = Skipped]
  BY DEF ApplyStarts
<1>2. UNCHANGED <<upload, committed>> /\ stageOf = "allowed"
  BY DEF ApplyStarts
<1>3. DiffTypes
  BY DEF DiffInv
<1>4. base \in Seq(FileLines) /\ Len(base) \in Nat
  <2>1. base \in Seq(FileLines)
    BY <1>3, SmallFiles DEF DiffTypes, File
  <2> QED BY <2>1, LenProperties
<1>5. edit' \in [base : File, head : {edit.head}] /\ edit'.base.lines = base /\ edit'.head = edit.head
  BY <1>1, <1>3, <1>4 DEF DiffTypes, File
<1>6. /\ Body' = Body /\ Skipped' = Skipped /\ \A n : OldAt(n)' = OldAt(n) /\ NewAt(n)' = NewAt(n)
      /\ OldAt(Len(Body))' = OldAt(Len(Body))
  BY <1>2, HunkStays
<1>7. /\ Skipped \in Nat /\ OldAt(0) = Skipped /\ NewAt(0) = Skipped
      /\ OldAt(Len(Body)) \in Nat /\ OldAt(Len(Body)) >= Skipped /\ Len(Body) \in Nat
  BY <1>3, Places, BodyLines
<1>8. Judged'
  BY <1>2, HunkStays DEF DiffInv, Judged
<1>9. CASE Skipped > Len(base)
  <2>1. stageOf' = "mismatch" /\ progress' = progress
    BY <1>1, <1>9
  <2>2. DiffTypes'
    BY <1>2, <1>3, <1>5, <2>1 DEF DiffTypes
  <2>3. ~Fits(Body, edit.base.lines)'
    <3>1. Fits(Body, edit.base.lines)' => OldAt(Len(Body))' <= Len(edit'.base.lines)
      BY DEF Fits
    <3> QED BY <1>4, <1>5, <1>6, <1>7, <1>9, <3>1
  <2> QED BY <1>8, <2>1, <2>2, <2>3 DEF DiffInv, SoFar, Unstarted, ApplyIsExact
<1>10. CASE ~(Skipped > Len(base))
  <2>1. Skipped <= Len(base)
    BY <1>4, <1>7, <1>10
  <2>2. /\ SubSeq(base, 1, Skipped) \in Seq(FileLines) /\ Len(SubSeq(base, 1, Skipped)) = Skipped
        /\ \A m \in 1..Skipped : SubSeq(base, 1, Skipped)[m] = base[m]
    BY <1>4, <1>7, <2>1, CutType
  <2>3. SubSeq(base, 1, Skipped) \in Seq(Contents)
    BY <2>2, LinesAreContents
  <2>4. /\ stageOf' = "applying"
        /\ progress' = [progress EXCEPT !.out = SubSeq(base, 1, Skipped), !.cursor = Skipped]
    BY <1>1, <1>10
  <2>5. progress.line = 1
    BY <1>2 DEF DiffInv, Unstarted
  <2>6. /\ progress' \in [out : Seq(Contents), cursor : Nat, bare : BOOLEAN,
                          kind : {"none", "+", "-", " "}, line : Nat \ {0}]
        /\ progress'.out = SubSeq(base, 1, Skipped) /\ progress'.cursor = Skipped /\ progress'.line = 1
    BY <1>3, <1>7, <2>3, <2>4, <2>5 DEF DiffTypes
  <2>7. DiffTypes'
    BY <1>2, <1>3, <1>5, <2>6 DEF DiffTypes
  <2>8. SoFar'
    <3>1. progress'.line = 1
      BY <2>6
    <3>2. progress'.line = 0 + 1 /\ 0 \in 0..Len(Body)
      BY <1>7, <3>1
    <3>3. OldAt(0)' = Skipped /\ NewAt(0)' = Skipped
      BY <1>6, <1>7
    <3>4. /\ progress'.cursor = OldAt(0)' /\ progress'.cursor <= Len(edit'.base.lines)
          /\ Len(progress'.out) = NewAt(0)'
      BY <1>5, <2>1, <2>2, <2>6, <3>3
    <3>5. \A m \in 1..Skipped' : progress'.out[m] = edit'.base.lines[m]
      BY <1>5, <1>6, <2>2, <2>6
    <3>6. \A n \in 1..0 : FALSE
      OBVIOUS
    <3> QED BY <1>6, <3>2, <3>4, <3>5, <3>6 DEF SoFar
  <2> QED BY <1>8, <2>4, <2>7, <2>8 DEF DiffInv, Unstarted, ApplyIsExact
<1> QED BY <1>9, <1>10

\* A line of the body is applied: it takes its place on its sides, or refutes the fit.
LEMMA LineStep == ASSUME DiffInv, LineApplied PROVE DiffInv'
<1>1. stageOf = "applying" /\ progress.line <= Len(Body) /\ UNCHANGED <<edit, upload, committed>>
  BY DEF LineApplied
<1>2. PICK done \in 0..Len(Body) :
        /\ progress.line = done + 1
        /\ progress.cursor = OldAt(done) /\ progress.cursor <= Len(edit.base.lines)
        /\ Len(progress.out) = NewAt(done)
        /\ \A m \in 1..Skipped : progress.out[m] = edit.base.lines[m]
        /\ \A n \in 1..done : Body[n].tag \in {"-", " "} => edit.base.lines[OldAt(n)] = Body[n].text
        /\ \A n \in 1..done : Body[n].tag \in {"+", " "} => progress.out[NewAt(n)] = Body[n].text
  BY <1>1 DEF DiffInv, SoFar
<1>3. DiffTypes
  BY DEF DiffInv
<1>4. Len(Body) \in Nat /\ DOMAIN Body = 1..Len(Body)
  BY <1>3, BodyLines
<1>line. progress.line = done + 1 /\ done \in Nat /\ done <= Len(Body)
  BY <1>2, <1>4, Positions
<1>place. progress.cursor = OldAt(done) /\ progress.cursor <= Len(edit.base.lines) /\ Len(progress.out) = NewAt(done)
  BY <1>2
<1>5. done \in Nat /\ done + 1 \in Nat /\ done + 1 \in 1..Len(Body) /\ done + 1 \in 0..Len(Body)
  <2>1. done + 1 <= Len(Body)
    BY <1>1, <1>line
  <2> QED BY <1>4, <1>line, <2>1
<1> DEFINE l == Body[done + 1]
           base == edit.base.lines
<1>6. l.tag \in {"+", "-", " ", "\\"} /\ l.text \in Contents
  BY <1>3, <1>5, BodyLines DEF HunkLine
<1>7. base \in Seq(FileLines) /\ Len(base) \in Nat
  <2>1. base \in Seq(FileLines)
    BY <1>3 DEF DiffTypes, File
  <2> QED BY <2>1, LenProperties
<1>8. progress.out \in Seq(Contents) /\ Len(progress.out) \in Nat
  <2>1. progress.out \in Seq(Contents)
    BY <1>3 DEF DiffTypes
  <2> QED BY <2>1, LenProperties
<1>9. Inserts(l) \/ Marks(l) \/ DeletesOrKeeps(l) \/ Refuses(l)
  BY <1>2 DEF LineApplied
<1>10. /\ Body' = Body /\ Skipped' = Skipped /\ \A n : OldAt(n)' = OldAt(n) /\ NewAt(n)' = NewAt(n)
       /\ OldAt(Len(Body))' = OldAt(Len(Body)) /\ NewAt(Len(Body))' = NewAt(Len(Body))
       /\ DiffVerdict(upload)' = DiffVerdict(upload) /\ RefusedOutright(upload)' = RefusedOutright(upload)
  BY <1>1, HunkStays
<1>11. upload.hunk.start \in Int
  BY <1>3, BodyLines
<1> HIDE DEF l, base
<1>12. /\ Skipped \in Nat /\ OldAt(done) \in Nat /\ NewAt(done) \in Nat /\ NewAt(done) >= Skipped
       /\ (l.tag \in {"-", " "} => OldAt(done + 1) = OldAt(done) + 1)
       /\ (l.tag \notin {"-", " "} => OldAt(done + 1) = OldAt(done))
       /\ (l.tag \in {"+", " "} => NewAt(done + 1) = NewAt(done) + 1)
       /\ (l.tag \notin {"+", " "} => NewAt(done + 1) = NewAt(done))
  BY <1>5, <1>11, Places DEF l
<1>ahead. OldAt(done + 1) <= OldAt(Len(Body)) /\ OldAt(Len(Body)) \in Nat /\ OldAt(done + 1) \in Nat
  <2>1. done + 1 <= Len(Body)
    BY <1>4, <1>5
  <2> QED BY <1>4, <1>5, <1>11, <2>1, Places
<1>13. \A n \in 1..done : Body[n].tag \in {"+", " "} => NewAt(n) \in 1..NewAt(done)
  BY <1>3, <1>5, NewSide
<1>14. Judged'
  BY <1>1, <1>10 DEF DiffInv, Judged
<1>15. ASSUME UNCHANGED stageOf,
              progress' \in [out : Seq(Contents), cursor : Nat, bare : BOOLEAN,
                             kind : {"none", "+", "-", " "}, line : Nat \ {0}],
              progress'.line = (done + 1) + 1,
              progress'.cursor = OldAt(done + 1), progress'.cursor <= Len(base),
              Len(progress'.out) = NewAt(done + 1),
              \A m \in 1..Len(progress.out) : progress'.out[m] = progress.out[m],
              l.tag \in {"-", " "} => base[OldAt(done + 1)] = l.text,
              l.tag \in {"+", " "} => progress'.out[NewAt(done + 1)] = l.text
       PROVE  DiffInv'
  <2>1. DiffTypes'
    BY <1>1, <1>3, <1>15 DEF DiffTypes
  <2>2. base' = base
    BY <1>1 DEF base
  <2>3. \A m \in 1..Skipped' : progress'.out[m] = edit'.base.lines[m]
    <3>1. \A m \in 1..Skipped : m \in 1..Len(progress.out)
      BY <1>place, <1>12, Positions
    <3> QED BY <1>1, <1>2, <1>10, <1>15, <3>1
  <2>4. ASSUME NEW n \in 1..(done + 1)
        PROVE  /\ Body'[n].tag \in {"-", " "} => edit'.base.lines[OldAt(n)'] = Body'[n].text
               /\ Body'[n].tag \in {"+", " "} => progress'.out[NewAt(n)'] = Body'[n].text
    <3>1. CASE n = done + 1
      BY <1>1, <1>10, <1>15, <3>1 DEF l, base
    <3>2. CASE n # done + 1
      <4>1. n \in 1..done
        BY <1>5, <3>2
      <4> QED BY <1>1, <1>2, <1>10, <1>13, <1>15, <4>1
    <3> QED BY <3>1, <3>2
  <2>5. /\ progress'.cursor = OldAt(done + 1)' /\ progress'.cursor <= Len(edit'.base.lines)
        /\ Len(progress'.out) = NewAt(done + 1)'
    BY <1>1, <1>10, <1>15 DEF base
  <2>6. SoFar'
    BY <1>5, <1>10, <1>15, <2>3, <2>4, <2>5 DEF SoFar
  <2>7. Unstarted' /\ ApplyIsExact'
    BY <1>1, <1>15 DEF Unstarted, ApplyIsExact
  <2> QED BY <1>14, <2>1, <2>6, <2>7 DEF DiffInv
<1>16. CASE Inserts(l)
  <2>1. /\ l.tag = "+" /\ UNCHANGED stageOf
        /\ progress' = [progress EXCEPT !.out = Append(progress.out, l.text), !.kind = "+", !.line = done + 1 + 1]
    BY <1>2, <1>16 DEF Inserts
  <2>2. /\ Append(progress.out, l.text) \in Seq(Contents)
        /\ Len(Append(progress.out, l.text)) = NewAt(done) + 1
        /\ \A m \in 1..Len(progress.out) : Append(progress.out, l.text)[m] = progress.out[m]
        /\ Append(progress.out, l.text)[NewAt(done) + 1] = l.text
    <3>1. l.text \in Contents
      BY <1>6
    <3> QED BY <1>place, <1>8, <3>1, AppendProperties
  <2>3. done + 1 + 1 \in Nat \ {0}
    BY <1>5
  <2>4. /\ progress' \in [out : Seq(Contents), cursor : Nat, bare : BOOLEAN,
                          kind : {"none", "+", "-", " "}, line : Nat \ {0}]
        /\ progress'.line = done + 1 + 1 /\ progress'.cursor = progress.cursor
        /\ progress'.out = Append(progress.out, l.text)
    BY <1>3, <2>1, <2>2, <2>3 DEF DiffTypes
  <2>5. OldAt(done + 1) = OldAt(done) /\ NewAt(done + 1) = NewAt(done) + 1
    BY <1>12, <2>1
  <2> QED BY <1>2, <1>15, <2>1, <2>2, <2>4, <2>5 DEF base
<1>17. CASE Marks(l)
  <2>1. /\ l.tag = "\\" /\ UNCHANGED stageOf
        /\ progress' = [progress EXCEPT !.bare = progress.bare \/ progress.kind \in {"+", " "}, !.line = done + 1 + 1]
    BY <1>2, <1>17 DEF Marks
  <2>2. done + 1 + 1 \in Nat \ {0}
    BY <1>5
  <2>3. /\ progress' \in [out : Seq(Contents), cursor : Nat, bare : BOOLEAN,
                          kind : {"none", "+", "-", " "}, line : Nat \ {0}]
        /\ progress'.line = done + 1 + 1 /\ progress'.cursor = progress.cursor /\ progress'.out = progress.out
    BY <1>3, <2>1, <2>2 DEF DiffTypes
  <2>4. OldAt(done + 1) = OldAt(done) /\ NewAt(done + 1) = NewAt(done)
    BY <1>12, <2>1
  <2> QED BY <1>2, <1>15, <2>1, <2>3, <2>4 DEF base
<1>18. CASE DeletesOrKeeps(l)
  <2>1. /\ l.tag \in {"-", " "} /\ UNCHANGED stageOf
        /\ progress.cursor < Len(base) /\ base[progress.cursor + 1] = l.text
        /\ progress' = [progress EXCEPT !.out = IF l.tag = " " THEN Append(progress.out, l.text) ELSE progress.out,
                                        !.cursor = progress.cursor + 1, !.kind = l.tag, !.line = done + 1 + 1]
    BY <1>2, <1>18 DEF DeletesOrKeeps, LineMatches, base
  <2> DEFINE out == IF l.tag = " " THEN Append(progress.out, l.text) ELSE progress.out
  <2>2. /\ Append(progress.out, l.text) \in Seq(Contents)
        /\ Len(Append(progress.out, l.text)) = NewAt(done) + 1
        /\ \A m \in 1..Len(progress.out) : Append(progress.out, l.text)[m] = progress.out[m]
        /\ Append(progress.out, l.text)[NewAt(done) + 1] = l.text
    <3>1. l.text \in Contents
      BY <1>6
    <3> QED BY <1>place, <1>8, <3>1, AppendProperties
  <2>3. done + 1 + 1 \in Nat \ {0} /\ progress.cursor + 1 \in Nat /\ out \in Seq(Contents)
    <3>1. out \in Seq(Contents)
      BY <1>8, <2>2
    <3>2. progress.cursor \in Nat
      BY <1>place, <1>12
    <3> QED BY <1>5, <3>1, <3>2, Positions
  <2>4. /\ Len(out) = NewAt(done + 1)
        /\ \A m \in 1..Len(progress.out) : out[m] = progress.out[m]
        /\ l.tag \in {"+", " "} => out[NewAt(done + 1)] = l.text
    BY <1>place, <1>12, <2>1, <2>2
  <2> HIDE DEF out
  <2>5. /\ progress' \in [out : Seq(Contents), cursor : Nat, bare : BOOLEAN,
                          kind : {"none", "+", "-", " "}, line : Nat \ {0}]
        /\ progress'.line = done + 1 + 1 /\ progress'.cursor = progress.cursor + 1 /\ progress'.out = out
    BY <1>3, <2>1, <2>3 DEF DiffTypes, out
  <2>6. OldAt(done + 1) = progress.cursor + 1
    BY <1>place, <1>12, <2>1
  <2>7. progress.cursor + 1 <= Len(base)
    <3>1. progress.cursor \in Nat
      BY <1>place, <1>12
    <3> QED BY <1>7, <2>1, <3>1, Positions
  <2> QED BY <1>15, <2>1, <2>4, <2>5, <2>6, <2>7
<1>19. CASE Refuses(l)
  <2>1. /\ l.tag \in {"-", " "} /\ ~LineMatches(base, progress, l)
        /\ stageOf' = "mismatch" /\ UNCHANGED progress
    BY <1>19 DEF Refuses, base
  <2>2. OldAt(done + 1) = progress.cursor + 1
    BY <1>place, <1>12, <2>1
  <2>3. Fits(Body, base) => progress.cursor + 1 <= Len(base) /\ base[progress.cursor + 1] = l.text
    <3>1. Fits(Body, base) => OldAt(Len(Body)) <= Len(base) /\ base[OldAt(done + 1)] = l.text
      BY <1>4, <1>5, <2>1 DEF Fits, l
    <3> QED BY <1>7, <1>ahead, <2>2, <3>1
  <2>4. ~Fits(Body, base)
    <3>1. progress.cursor \in Nat
      BY <1>place, <1>12
    <3>2. progress.cursor + 1 <= Len(base) <=> progress.cursor < Len(base)
      BY <1>7, <3>1, Positions
    <3> QED BY <2>1, <2>3, <3>2 DEF LineMatches
  <2>5. ~Fits(Body, edit.base.lines)'
    BY <1>1, <1>10, <2>4 DEF Fits, base
  <2>6. DiffTypes'
    BY <1>1, <1>3, <2>1 DEF DiffTypes
  <2> QED BY <1>14, <2>1, <2>5, <2>6 DEF DiffInv, SoFar, Unstarted, ApplyIsExact
<1> QED BY <1>9, <1>16, <1>17, <1>18, <1>19

LEMMA JoinedFile ==
  ASSUME NEW out \in Seq(Contents), NEW base \in Seq(Contents), NEW old \in 0..Len(base)
  PROVE  /\ Len(out \o SubSeq(base, old + 1, Len(base))) = Len(out) + (Len(base) - old)
         /\ \A m \in 1..Len(out) : (out \o SubSeq(base, old + 1, Len(base)))[m] = out[m]
         /\ \A m \in 1..Len(base) - old :
              (out \o SubSeq(base, old + 1, Len(base)))[Len(out) + m] = base[old + m]
<1> DEFINE rest == SubSeq(base, old + 1, Len(base))
           lines == out \o rest
<1>1. PICK len \in Nat, all \in Nat : len = Len(out) /\ all = Len(base)
  BY LenProperties
<1>2. old \in Nat /\ old <= all /\ old + 1 \in Nat \ {0} /\ all \in Int
  BY <1>1, Positions
<1>3. /\ rest \in Seq(Contents) /\ Len(rest) = (IF old + 1 <= all THEN all - (old + 1) + 1 ELSE 0)
      /\ \A k \in 1..all - (old + 1) + 1 : rest[k] = base[(old + 1) + k - 1]
  BY <1>1, <1>2, CutType
<1> HIDE DEF rest
<1>4. Len(rest) = all - old
  <2>1. CASE old + 1 <= all
    <3>1. Len(rest) = all - (old + 1) + 1
      BY <1>3, <2>1
    <3>2. all - (old + 1) + 1 = all - old
      BY <1>2
    <3> QED BY <3>1, <3>2
  <2>2. CASE ~(old + 1 <= all)
    <3>1. all - old = 0
      BY <1>2, <2>2
    <3> QED BY <1>3, <2>2, <3>1
  <2> QED BY <2>1, <2>2
<1>5. \A k \in 1..all - old : rest[k] = base[old + k]
  <2> TAKE k \in 1..all - old
  <2>1. k \in 1..all - (old + 1) + 1 /\ (old + 1) + k - 1 = old + k
    BY <1>2
  <2> QED BY <1>3, <2>1
<1>6. /\ Len(lines) = Len(out) + Len(rest)
      /\ \A m \in 1..Len(out) + Len(rest) : lines[m] = IF m <= Len(out) THEN out[m] ELSE rest[m - Len(out)]
  BY <1>3, ConcatProperties
<1> HIDE DEF lines
<1>7. \A m \in 1..len : lines[m] = out[m]
  <2> TAKE m \in 1..len
  <2>1. m \in 1..len + (all - old) /\ m <= len
    BY <1>2
  <2> QED BY <1>1, <1>4, <1>6, <2>1
<1>8. \A m \in 1..all - old : lines[len + m] = rest[m]
  <2> TAKE m \in 1..all - old
  <2>1. len + m \in 1..len + (all - old) /\ ~(len + m <= len) /\ (len + m) - len = m
    BY <1>2
  <2> QED BY <1>1, <1>4, <1>6, <2>1
<1> QED BY <1>1, <1>4, <1>5, <1>6, <1>7, <1>8 DEF lines, rest

\* The rest of the base follows: the new side stands between what precedes the hunk and it.
LEMMA EndStep == ASSUME DiffInv, ApplyEnds PROVE DiffInv'
<1>1. /\ stageOf = "applying" /\ progress.line > Len(Body) /\ stageOf' = "applied"
      /\ UNCHANGED <<edit, upload, progress>>
  BY DEF ApplyEnds
<1>2. PICK done \in 0..Len(Body) :
        /\ progress.line = done + 1
        /\ progress.cursor = OldAt(done) /\ progress.cursor <= Len(edit.base.lines)
        /\ Len(progress.out) = NewAt(done)
        /\ \A m \in 1..Skipped : progress.out[m] = edit.base.lines[m]
        /\ \A n \in 1..done : Body[n].tag \in {"-", " "} => edit.base.lines[OldAt(n)] = Body[n].text
        /\ \A n \in 1..done : Body[n].tag \in {"+", " "} => progress.out[NewAt(n)] = Body[n].text
  BY <1>1 DEF DiffInv, SoFar
<1>3. DiffTypes
  BY DEF DiffInv
<1>4. Len(Body) \in Nat /\ DOMAIN Body = 1..Len(Body) /\ upload.hunk.start \in Int
  BY <1>3, BodyLines
<1>5. done = Len(Body)
  <2>1. done \in Nat /\ done <= Len(Body) /\ progress.line = done + 1
    BY <1>2, <1>4, Positions
  <2>2. PICK len \in Nat : len = Len(Body)
    BY <1>4
  <2>3. done <= len /\ done + 1 > len
    BY <1>1, <2>1, <2>2
  <2> QED BY <2>1, <2>2, <2>3, Positions
<1>6. PICK base \in Seq(FileLines) : base = edit.base.lines
  BY <1>3 DEF DiffTypes, File
<1>7. PICK old \in Nat, new \in Nat, skip \in Nat :
        old = OldAt(Len(Body)) /\ new = NewAt(Len(Body)) /\ skip = Skipped /\ skip <= old /\ skip <= new
  BY <1>4, Places
<1>8. /\ progress.cursor = old /\ old <= Len(base) /\ Len(progress.out) = new /\ Len(base) \in Nat
      /\ \A m \in 1..skip : progress.out[m] = base[m]
      /\ \A n \in DOMAIN Body : Body[n].tag \in {"-", " "} => base[OldAt(n)] = Body[n].text
      /\ \A n \in DOMAIN Body : Body[n].tag \in {"+", " "} => progress.out[NewAt(n)] = Body[n].text
  BY <1>2, <1>4, <1>5, <1>6, <1>7, LenProperties
<1>9. PICK out \in Seq(Contents) : out = progress.out
  BY <1>3 DEF DiffTypes
<1> DEFINE lines == out \o SubSeq(base, old + 1, Len(base))
<1>11. /\ Len(lines) = new + (Len(base) - old)
       /\ \A m \in 1..new : lines[m] = out[m]
       /\ \A m \in 1..Len(base) - old : lines[new + m] = base[old + m]
  <2>1. base \in Seq(Contents)
    BY LinesAreContents
  <2>2. old \in 0..Len(base)
    BY <1>8, Positions
  <2>3. /\ Len(lines) = Len(out) + (Len(base) - old)
        /\ \A m \in 1..Len(out) : lines[m] = out[m]
        /\ \A m \in 1..Len(base) - old : lines[Len(out) + m] = base[old + m]
    BY <2>1, <2>2, JoinedFile
  <2>4. Len(out) = new
    BY <1>8, <1>9
  <2> QED BY <2>3, <2>4
<1>12. committed'.lines = lines
  BY <1>6, <1>8, <1>9 DEF ApplyEnds
<1> HIDE DEF lines
<1>13. Fits(Body, edit.base.lines)
  BY <1>6, <1>7, <1>8 DEF Fits
<1>14. \A n \in DOMAIN Body : Body[n].tag \in {"+", " "} => NewAt(n) \in 1..new
  BY <1>3, <1>4, <1>7, NewSide
<1>15. Merges(Body, edit.base.lines, lines)
  <2>2. \A m \in 1..skip : lines[m] = base[m]
    <3>1. \A m \in 1..skip : m \in 1..new
      BY <1>7
    <3> QED BY <1>8, <1>9, <1>11, <3>1
  <2>3. \A n \in DOMAIN Body : Body[n].tag \in {"+", " "} => lines[NewAt(n)] = Body[n].text
    BY <1>8, <1>9, <1>11, <1>14
  <2> QED BY <1>6, <1>7, <1>11, <2>2, <2>3 DEF Merges
<1>16. Fits(Body, edit.base.lines)'
  BY <1>1, <1>13, HunkStays DEF Fits
<1>17. Merges(Body, edit.base.lines, committed.lines)'
  BY <1>1, <1>12, <1>15, HunkStays DEF Merges
<1>18. DiffTypes' /\ Judged'
  BY <1>1, <1>3, HunkStays DEF DiffInv, DiffTypes, Judged
<1> QED BY <1>1, <1>16, <1>17, <1>18 DEF DiffInv, SoFar, Unstarted, ApplyIsExact

\* Every step keeps the strengthening.
LEMMA DiffStays == DiffInv /\ [DiffNext]_diffs => DiffInv'
<1> SUFFICES ASSUME DiffInv, [DiffNext]_diffs PROVE DiffInv'
  OBVIOUS
<1>1. CASE UNCHANGED diffs
  <2>1. UNCHANGED <<edit, upload, stageOf, progress, committed>>
    BY <1>1 DEF diffs
  <2>2. DiffTypes' /\ Unstarted' /\ Judged'
    BY <2>1, HunkStays DEF DiffInv, DiffTypes, Unstarted, Judged
  <2>3. SoFar'
    <3> SUFFICES ASSUME stageOf' = "applying" PROVE SoFar'
      BY DEF SoFar
    <3>1. PICK done \in 0..Len(Body) :
            /\ progress.line = done + 1
            /\ progress.cursor = OldAt(done) /\ progress.cursor <= Len(edit.base.lines)
            /\ Len(progress.out) = NewAt(done)
            /\ \A m \in 1..Skipped : progress.out[m] = edit.base.lines[m]
            /\ \A n \in 1..done : Body[n].tag \in {"-", " "} => edit.base.lines[OldAt(n)] = Body[n].text
            /\ \A n \in 1..done : Body[n].tag \in {"+", " "} => progress.out[NewAt(n)] = Body[n].text
      BY <2>1 DEF DiffInv, SoFar
    <3>2. Body' = Body /\ Skipped' = Skipped /\ \A n : OldAt(n)' = OldAt(n) /\ NewAt(n)' = NewAt(n)
      BY <2>1, HunkStays
    <3> QED BY <2>1, <3>1, <3>2 DEF SoFar
  <2>4. ApplyIsExact'
    <3>1. Fits(Body, edit.base.lines)' <=> Fits(Body, edit.base.lines)
      BY <2>1, HunkStays DEF Fits
    <3>2. Merges(Body, edit.base.lines, committed.lines)' <=> Merges(Body, edit.base.lines, committed.lines)
      BY <2>1, HunkStays DEF Merges
    <3> QED BY <2>1, <3>1, <3>2 DEF DiffInv, ApplyIsExact
  <2> QED BY <2>2, <2>3, <2>4 DEF DiffInv
<1>2. CASE DiffNext
  BY <1>2, JudgeSteps, StartStep, LineStep, EndStep DEF DiffNext
<1> QED BY <1>1, <1>2

\* What is committed is the hunk as it was parsed, on a base whose lines it names, and only
\* of a diff whose numstat is the parse's and that the policy allows (consumeHunk,
\* applyHunks, DiffApplyService.apply, evaluateDiffPolicy).
THEOREM HunksMergeAsJudged == DiffSpec => []CommittedAsJudged
<1>1. DiffInv => CommittedAsJudged
  <2> SUFFICES ASSUME DiffInv PROVE CommittedAsJudged
    OBVIOUS
  <2>1. DiffTypes /\ ApplyIsExact
    BY DEF DiffInv
  <2>2. ASSUME stageOf = "applied"
        PROVE  /\ ParsedStats(upload.hunk) = upload.numstat
               /\ upload.approved \/ (upload.numstat.added <= MaxAdded /\ upload.touch # "protected path")
               /\ upload.touch # "git path"
               /\ upload.touch \in {"secret", "git link"} => Count(upload.hunk.body, "+") = 0
    <3>1. ~RefusedOutright(upload) /\ DiffVerdict(upload) = "allowed"
      BY <2>2 DEF DiffInv, Judged
    <3>2. PICK added \in Nat : added = Count(upload.hunk.body, "+")
      BY <2>1, CountType DEF DiffTypes, Hunk
    <3>3. ParsedStats(upload.hunk).added = added
      BY <3>2 DEF ParsedStats
    <3>4. ParsedStats(upload.hunk) = upload.numstat /\ upload.touch # "git path" /\ upload.numstat.added = added
      BY <3>1, <3>3 DEF RefusedOutright
    <3>5. ~(upload.touch \in {"secret", "git link"} /\ added > 0)
      BY <3>1, <3>3 DEF DiffVerdict
    <3>6. upload.approved \/ (upload.touch # "protected path" /\ ~(added > MaxAdded))
      BY <3>1, <3>3 DEF DiffVerdict
    <3>7. ~(added > MaxAdded) => added <= MaxAdded
      BY DiffAssumption, Positions
    <3>8. ~(added > 0) => added = 0
      OBVIOUS
    <3> QED BY <3>2, <3>4, <3>5, <3>6, <3>7, <3>8
  <2> QED BY <2>1, <2>2 DEF ApplyIsExact, CommittedAsJudged
<1> QED BY <1>1, DiffInitially, DiffStays, PTL DEF DiffSpec
=============================================================================
