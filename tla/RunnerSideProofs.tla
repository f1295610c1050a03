--------------------------- MODULE RunnerSideProofs ---------------------------
(***************************************************************************)
(* The machines around a running container, for every value of their       *)
(* constants: the budget of a job, the tunnel slots of the egress proxy, the *)
(* parts a job leaves on the engine, the machines of the Fly backend and the *)
(* process groups of the local one.  Each is proved over its own           *)
(* specification; they share no state.                                     *)
(***************************************************************************)
EXTENDS LlmBudget, EgressProxy, JobResources, FlyMachines, LocalRunner,
        FiniteSetTheorems, WellFoundedInduction, TLAPS

(***************************************************************************)
(* The budget of a job: by how much it can be overshot.                    *)
(***************************************************************************)
Status == {"active", "applying", "budget_exceeded", "ended"}
CallPlace == {"idle", "forward", "meter", "judge", "finalize"}

BudgetTypes ==
  /\ jobStatus \in Status /\ usage \in 0..Cap /\ overwritten \in BOOLEAN /\ misses \in Nat
  /\ calls \in [Calls -> [pc : CallPlace, price : Prices \cup {0}, read : 0..Cap]]
  /\ \A c \in Calls : calls[c].pc = "meter" => calls[c].price \in Prices

\* Calls that can add nothing any more: each has read a position over the budget and
\* will end the job, or has found it ended.
Settled ==
  {c \in Calls : \/ calls[c].pc = "judge" /\ calls[c].read >= Budget
                 \/ calls[c].pc = "finalize"
                 \/ calls[c].pc = "idle" /\ jobStatus \in {"budget_exceeded", "ended"}}

\* The strengthening: each price beyond the budget has settled the call that added it.
OvershootCounted ==
  misses = 0 /\ ~overwritten /\ Budget > 0
    => usage <= Budget - 1 + Cardinality(Settled) * Dearest

BudgetInv == BudgetTypes /\ OvershootCounted

-----------------------------------------------------------------------------
\* Among finitely many prices there is a dearest.
LEMMA DearestIsOne == Dearest \in Prices /\ \A p \in Prices : p <= Dearest
<1> DEFINE above(p) == {q \in Prices : q > p}
           Aboves   == {above(p) : p \in Prices}
<1>1. IsFiniteSet(Prices)
  <2>1. IsFiniteSet(0..Cap) /\ Prices \in SUBSET (0..Cap)
    BY BudgetAssumption, FS_Interval
  <2> QED BY <2>1, FS_Subset
<1>2. IsWellFoundedOn(StrictSubsetOrdering(Prices), SUBSET Prices)
  BY <1>1, FS_StrictSubsetOrderingWellFounded, FS_FiniteSubsetsOfFinite
<1>3. Aboves \subseteq SUBSET Prices /\ Aboves # {}
  BY BudgetAssumption
<1>4. PICK A \in Aboves : \A B \in Aboves : ~(<<B, A>> \in StrictSubsetOrdering(Prices))
  <2> HIDE DEF Aboves
  <2> QED BY <1>2, <1>3, WFMin
<1>5. PICK p \in Prices : A = above(p)
  OBVIOUS
<1>6. \A q \in Prices : ~(q > p)
  <2> SUFFICES ASSUME NEW q \in Prices, q > p PROVE FALSE
    OBVIOUS
  <2>1. above(q) \subseteq above(p) /\ above(q) # above(p)
    <3>1. p \in Nat /\ q \in Nat /\ \A n \in Prices : n \in Nat
      BY BudgetAssumption
    <3>2. q \in above(p) /\ q \notin above(q)
      BY <3>1
    <3>3. \A n \in Prices : n > q => n > p
      BY <3>1
    <3>4. above(q) \subseteq above(p)
      BY <3>3
    <3> QED BY <3>2, <3>4
  <2>2. <<above(q), above(p)>> \in StrictSubsetOrdering(Prices)
    <3>1. \A X, Y \in SUBSET Prices : X \subseteq Y /\ X # Y => <<X, Y>> \in StrictSubsetOrdering(Prices)
      BY DEF StrictSubsetOrdering
    <3>2. above(q) \in SUBSET Prices /\ above(p) \in SUBSET Prices
      OBVIOUS
    <3> HIDE DEF above
    <3> QED BY <2>1, <3>1, <3>2
  <2>3. above(q) \in Aboves
    OBVIOUS
  <2> QED BY <1>4, <1>5, <2>2, <2>3
<1>7. \A q \in Prices : q <= p
  BY <1>6, BudgetAssumption
<1> QED BY <1>7 DEF Dearest

LEMMA DearestNat == Dearest \in Nat /\ 0 <= Dearest
BY DearestIsOne, BudgetAssumption

\* More of them cost no less.
LEMMA TimesGrows ==
  ASSUME NEW m \in Nat, NEW n \in Nat, NEW d \in Nat, m <= n
  PROVE  m * d <= n * d /\ m * d \in Nat /\ (m + 1) * d = m * d + d
OBVIOUS

LEMMA SettledFinite ==
  /\ IsFiniteSet(Settled) /\ Cardinality(Settled) \in Nat
  /\ Cardinality(Settled) <= Cardinality(Calls) /\ Cardinality(Calls) \in Nat
<1>1. Settled \subseteq Calls /\ IsFiniteSet(Calls)
  BY BudgetAssumption DEF Settled
<1> QED BY <1>1, FS_Subset, FS_CardinalityType

\* A step that bills nothing and unsettles nobody keeps the count.
LEMMA NothingBilled ==
  ASSUME BudgetInv, usage' = usage, Settled \subseteq Settled', Settled' \subseteq Calls,
         misses = 0 \/ misses' # 0, overwritten => overwritten'
  PROVE  OvershootCounted'
<1>1. IsFiniteSet(Settled') /\ Cardinality(Settled') \in Nat
  BY BudgetAssumption, FS_Subset, FS_CardinalityType
<1>2. Cardinality(Settled) <= Cardinality(Settled') /\ Cardinality(Settled) \in Nat
  BY <1>1, SettledFinite, FS_Subset
<1>3. Cardinality(Settled) * Dearest <= Cardinality(Settled') * Dearest
  BY <1>1, <1>2, TimesGrows, DearestNat
<1>4. Cardinality(Settled) * Dearest \in Nat /\ Cardinality(Settled') * Dearest \in Nat
  BY <1>1, <1>2, TimesGrows, DearestNat
<1>5. Dearest' = Dearest
  BY DEF Dearest
<1> QED BY <1>3, <1>4, <1>5, BudgetAssumption DEF BudgetInv, BudgetTypes, OvershootCounted

\* The statement that bills settles its call if it reads a position over the budget.
LEMMA BilledSettles ==
  ASSUME BudgetInv, NEW c \in Calls, Accumulates(c)
  PROVE  OvershootCounted'
<1> DEFINE price == calls[c].price
<1>1. /\ price \in Prices /\ price \in Nat /\ price <= Dearest /\ Dearest \in Nat
      /\ usage \in Nat /\ usage' \in Nat /\ usage' <= usage + price /\ Budget \in Nat
  BY DearestIsOne, BudgetAssumption DEF BudgetInv, BudgetTypes, Accumulates, CallAt, Plus
<1>2. /\ calls'[c].pc = "judge" /\ calls'[c].read = usage' /\ calls[c].pc = "meter"
      /\ \A o \in Calls \ {c} : calls'[o] = calls[o]
      /\ UNCHANGED <<jobStatus, overwritten>> /\ (misses = 0 \/ misses' # 0)
  BY DEF BudgetInv, BudgetTypes, Accumulates, CallAt
<1>3. c \notin Settled /\ Settled \subseteq Settled' /\ (usage' >= Budget => c \in Settled')
  BY <1>2 DEF Settled
<1>4. IsFiniteSet(Settled') /\ Cardinality(Settled') \in Nat /\ Cardinality(Settled) \in Nat
  BY SettledFinite, BudgetAssumption, FS_Subset, FS_CardinalityType DEF Settled
<1>5. /\ Cardinality(Settled) * Dearest \in Nat /\ Cardinality(Settled') * Dearest \in Nat
      /\ (Cardinality(Settled) + 1) * Dearest = Cardinality(Settled) * Dearest + Dearest
  BY <1>1, <1>4, TimesGrows
<1>6. Dearest' = Dearest
  BY DEF Dearest
<1> HIDE DEF price
<1> SUFFICES ASSUME misses' = 0, ~overwritten', Budget > 0
             PROVE  usage' <= Budget - 1 + Cardinality(Settled') * Dearest
  BY <1>6 DEF OvershootCounted
<1>7. CASE usage' < Budget
  BY <1>1, <1>5, <1>7
<1>8. CASE usage' >= Budget
  <2>1. Cardinality(Settled \cup {c}) = Cardinality(Settled) + 1
    BY <1>3, SettledFinite, FS_AddElement
  <2>2. Settled \cup {c} \subseteq Settled'
    BY <1>3, <1>8
  <2>3. Cardinality(Settled) + 1 <= Cardinality(Settled')
    BY <1>4, <2>1, <2>2, FS_Subset
  <2>4. (Cardinality(Settled) + 1) * Dearest <= Cardinality(Settled') * Dearest
    BY <1>1, <1>4, <2>3, TimesGrows
  <2>5. usage <= Budget - 1 + Cardinality(Settled) * Dearest
    BY <1>2 DEF BudgetInv, OvershootCounted
  <2> QED BY <1>1, <1>5, <2>4, <2>5
<1> QED BY <1>1, <1>7, <1>8

\* Types, by action.
LEMMA BudgetTypesKept ==
  ASSUME BudgetTypes, [BudgetNext]_budgetVars
  PROVE  BudgetTypes'
<1> USE BudgetAssumption DEF BudgetTypes, CallAt, Goes, Ends, NoCall, Status, CallPlace
<1>1. ASSUME NEW c \in Calls, CallAdmitted(c) \/ UpstreamRefuses(c) PROVE BudgetTypes'
  BY <1>1 DEF CallAdmitted, UpstreamRefuses
<1>2. ASSUME NEW c \in Calls, UpstreamAnswers(c) PROVE BudgetTypes'
  BY <1>2 DEF UpstreamAnswers
<1>3. ASSUME NEW c \in Calls, Accumulates(c) PROVE BudgetTypes'
  <2>1. usage' \in 0..Cap
    BY <1>3 DEF Accumulates, Plus
  <2> DEFINE judged == [calls[c] EXCEPT !.pc = "judge", !.read = usage']
  <2>5. /\ judged \in [pc : CallPlace, price : Prices \cup {0}, read : 0..Cap]
        /\ judged.pc = "judge"
    BY <2>1
  <2>6. calls' = [calls EXCEPT ![c] = judged]
    BY <1>3 DEF Accumulates
  <2> HIDE DEF judged
  <2>2. calls' \in [Calls -> [pc : CallPlace, price : Prices \cup {0}, read : 0..Cap]]
    BY <2>5, <2>6
  <2>3. \A o \in Calls : calls'[o].pc = "meter" => calls'[o].price \in Prices
    BY <2>5, <2>6
  <2>4. misses' \in Nat /\ UNCHANGED <<jobStatus, overwritten>>
    BY <1>3 DEF Accumulates
  <2> QED BY <2>1, <2>2, <2>3, <2>4
<1>4. ASSUME NEW c \in Calls, AccumulateFails(c) \/ FinalizeMisses(c) PROVE BudgetTypes'
  BY <1>4 DEF AccumulateFails, FinalizeMisses
<1>5. ASSUME NEW c \in Calls, Exceeds(c) \/ JobFinalized(c) \/ Delivers(c) PROVE BudgetTypes'
  BY <1>5 DEF Exceeds, JobFinalized, Delivers
<1>6. CASE ResultOverwrites \/ BudgetedJobEnds
  <2>0. {0} \cup Prices \subseteq 0..Cap
    OBVIOUS
  <2>1. usage' \in 0..Cap
    BY <1>6, <2>0 DEF ResultOverwrites, BudgetedJobEnds
  <2> QED BY <1>6, <2>1 DEF ResultOverwrites, BudgetedJobEnds
<1>7. CASE UNCHANGED budgetVars
  BY <1>7 DEF budgetVars
<1> QED BY <1>1, <1>2, <1>3, <1>4, <1>5, <1>6, <1>7 DEF BudgetNext, CallSteps

LEMMA BudgetStart == BudgetInit => BudgetInv
<1> SUFFICES ASSUME BudgetInit PROVE BudgetInv
  OBVIOUS
<1>1. BudgetTypes
  <2>1. NoCall \in [pc : CallPlace, price : Prices \cup {0}, read : 0..Cap] /\ NoCall.pc = "idle"
    BY BudgetAssumption DEF NoCall, CallPlace
  <2>2. usage \in 0..Cap
    BY BudgetAssumption DEF BudgetInit
  <2> QED BY <2>1, <2>2 DEF BudgetInit, BudgetTypes, Status
<1>2. Cardinality(Settled) * Dearest \in Nat
  BY SettledFinite, DearestNat, TimesGrows
<1>3. usage = 0
  BY DEF BudgetInit
<1> QED BY <1>1, <1>2, <1>3, BudgetAssumption DEF BudgetInv, OvershootCounted

LEMMA BudgetStep == BudgetInv /\ [BudgetNext]_budgetVars => BudgetInv'
<1> SUFFICES ASSUME BudgetInv, [BudgetNext]_budgetVars PROVE BudgetInv'
  OBVIOUS
<1>1. BudgetTypes'
  BY BudgetTypesKept DEF BudgetInv
<1>2. OvershootCounted'
  <2> USE DEF BudgetInv, BudgetTypes, CallAt, Goes, Ends, NoCall
  <2>0. Settled' \subseteq Calls
    BY DEF Settled
  <2>1. ASSUME NEW c \in Calls, CallAdmitted(c) \/ UpstreamRefuses(c) \/ UpstreamAnswers(c)
        PROVE  OvershootCounted'
    <3>1. /\ calls[c].pc \in {"idle", "forward"} /\ (calls[c].pc = "idle" => jobStatus \in {"active", "applying"})
          /\ \A o \in Calls \ {c} : calls'[o] = calls[o]
      BY <2>1 DEF CallAdmitted, UpstreamRefuses, UpstreamAnswers
    <3>2. Settled \subseteq Settled'
      BY <2>1, <3>1 DEF CallAdmitted, UpstreamRefuses, UpstreamAnswers, Settled, Status
    <3> QED BY <2>0, <2>1, <3>2, NothingBilled DEF CallAdmitted, UpstreamRefuses, UpstreamAnswers
  <2>2. ASSUME NEW c \in Calls, Accumulates(c) PROVE OvershootCounted'
    BY <2>2, BilledSettles
  <2>3. ASSUME NEW c \in Calls, AccumulateFails(c) \/ FinalizeMisses(c) PROVE OvershootCounted'
    BY <2>3 DEF AccumulateFails, FinalizeMisses, OvershootCounted
  <2>4. ASSUME NEW c \in Calls, Exceeds(c) PROVE OvershootCounted'
    <3>1. Settled \subseteq Settled'
      BY <2>4 DEF Exceeds, Settled
    <3> QED BY <2>0, <2>4, <3>1, NothingBilled DEF Exceeds
  <2>5. ASSUME NEW c \in Calls, JobFinalized(c) PROVE OvershootCounted'
    <3>1. Settled \subseteq Settled'
      BY <2>5 DEF JobFinalized, Settled, Status
    <3> QED BY <2>0, <2>5, <3>1, NothingBilled DEF JobFinalized
  <2>6. ASSUME NEW c \in Calls, Delivers(c), Budget > 0 PROVE OvershootCounted'
    <3>1. ~(calls[c].read >= Budget)
      BY <2>6 DEF Delivers, Over
    <3>2. Settled \subseteq Settled'
      BY <2>6, <3>1 DEF Delivers, Settled
    <3> QED BY <2>0, <2>6, <3>2, NothingBilled DEF Delivers
  <2>7. CASE ResultOverwrites
    BY <2>7 DEF ResultOverwrites, OvershootCounted
  <2>8. CASE BudgetedJobEnds
    <3>1. Settled \subseteq Settled'
      BY <2>8 DEF BudgetedJobEnds, Settled
    <3> QED BY <2>0, <2>8, <3>1, NothingBilled DEF BudgetedJobEnds
  <2>9. CASE UNCHANGED budgetVars
    <3>1. Settled' = Settled
      BY <2>9 DEF budgetVars, Settled
    <3> QED BY <2>0, <2>9, <3>1, NothingBilled DEF budgetVars
  <2>10. CASE ~(Budget > 0)
    BY <2>10 DEF OvershootCounted
  <2> QED BY <2>1, <2>2, <2>3, <2>4, <2>5, <2>6, <2>7, <2>8, <2>9, <2>10 DEF BudgetNext, CallSteps
<1> QED BY <1>1, <1>2 DEF BudgetInv

-----------------------------------------------------------------------------
\* If every write succeeds and no result overwrites the counters, a budget is
\* overshot by at most one dearest response per call the runner has in flight
\* (llmProxy: accumulate, then judge what the statement read back).
THEOREM OvershootBounded == BudgetSpec => []BoundedOvershoot
<1>1. BudgetInv => BoundedOvershoot
  <2> SUFFICES ASSUME BudgetInv, misses = 0, ~overwritten, Budget > 0
               PROVE  usage <= Budget - 1 + Cardinality(Calls) * Dearest
    BY DEF BoundedOvershoot
  <2>1. Cardinality(Settled) * Dearest <= Cardinality(Calls) * Dearest
    BY SettledFinite, DearestNat, TimesGrows
  <2>2. Cardinality(Settled) * Dearest \in Nat /\ Cardinality(Calls) * Dearest \in Nat
    BY SettledFinite, DearestNat, TimesGrows
  <2>3. usage <= Budget - 1 + Cardinality(Settled) * Dearest
    BY DEF BudgetInv, OvershootCounted
  <2> QED BY <2>1, <2>2, <2>3, BudgetAssumption DEF BudgetInv, BudgetTypes
<1> QED BY <1>1, BudgetStart, BudgetStep, PTL DEF BudgetSpec

(***************************************************************************)
(* The tunnel slots: the counter the cap is measured by is always exact.   *)
(***************************************************************************)
TunnelState == {"idle", "resolving", "dialling", "open", "closing"}

\* The strengthening: every connection is somewhere in handleConnect.
SlotInv == tunnels \in [Tunnels -> TunnelState] /\ SlotsAreExact

\* The tunnels that hold a slot are finitely many.
LEMMA TunnelledFinite == IsFiniteSet(Tunnelled) /\ Cardinality(Tunnelled) \in Nat
<1>1. Tunnelled \in SUBSET Tunnels
  BY DEF Tunnelled
<1>2. IsFiniteSet(Tunnelled)
  BY <1>1, ProxyAssumption, FS_Subset
<1> QED BY <1>2, FS_CardinalityType

\* A dial takes one slot: the one connection that enters.
LEMMA DialTakesOne ==
  ASSUME SlotInv, NEW k \in Tunnels, Dials(k)
  PROVE  SlotInv'
<1>1. tunnels'[k] = "dialling" /\ \A i \in Tunnels \ {k} : tunnels'[i] = tunnels[i]
  BY DEF SlotInv, Dials
<1>2. Tunnelled' = Tunnelled \cup {k} /\ k \notin Tunnelled
  BY <1>1 DEF Tunnelled, Dials
<1>3. Cardinality(Tunnelled') = Cardinality(Tunnelled) + 1
  BY <1>2, TunnelledFinite, FS_AddElement
<1> QED BY <1>3 DEF SlotInv, SlotsAreExact, Dials, TunnelState

\* However often teardown runs, it gives back the slot of a connection once.
LEMMA TeardownGivesOneBack ==
  ASSUME SlotInv, NEW k \in Tunnels, TunnelEnds(k)
  PROVE  SlotInv'
<1>1. CASE tunnels[k] \in {"dialling", "open"}
  <2>1. tunnels'[k] = "closing" /\ \A i \in Tunnels \ {k} : tunnels'[i] = tunnels[i]
    BY <1>1 DEF SlotInv, TunnelEnds, TornDown
  <2>2. Tunnelled' = Tunnelled \ {k} /\ k \in Tunnelled
    BY <1>1, <2>1 DEF Tunnelled
  <2>3. Cardinality(Tunnelled') = Cardinality(Tunnelled) - 1
    BY <2>2, TunnelledFinite, FS_RemoveElement
  <2> QED BY <1>1, <2>3 DEF SlotInv, SlotsAreExact, TunnelEnds, TornDown, TunnelState
<1>2. CASE tunnels[k] = "closing"
  <2>1. Tunnelled' = Tunnelled
    BY <1>2 DEF SlotInv, Tunnelled, TunnelEnds, TornDown
  <2> QED BY <1>2, <2>1 DEF SlotInv, SlotsAreExact, TunnelEnds, TornDown, TunnelState
<1> QED BY <1>1, <1>2 DEF TunnelEnds, TornDown

\* Steps that move no connection into a slot or out of one.
LEMMA OthersKeepSlots ==
  ASSUME SlotInv, UNCHANGED activeTunnels,
         \/ UNCHANGED tunnels
         \/ \E k \in Tunnels : Connects(k) \/ ResolveRefused(k) \/ TunnelOpens(k)
  PROVE  SlotInv'
<1>1. CASE UNCHANGED tunnels
  BY <1>1 DEF SlotInv, SlotsAreExact, Tunnelled
<1>2. ASSUME NEW k \in Tunnels, Connects(k) \/ ResolveRefused(k) \/ TunnelOpens(k)
      PROVE  SlotInv'
  <2>1. tunnels' \in [Tunnels -> TunnelState]
    BY <1>2 DEF SlotInv, Connects, ResolveRefused, TunnelOpens, TunnelState
  <2>2. Tunnelled' = Tunnelled
    BY <1>2 DEF SlotInv, Connects, ResolveRefused, TunnelOpens, Tunnelled
  <2> QED BY <2>1, <2>2 DEF SlotInv, SlotsAreExact
<1> QED BY <1>1, <1>2

LEMMA SlotsStep == SlotInv /\ [ProxyNext]_proxy => SlotInv'
<1> SUFFICES ASSUME SlotInv, [ProxyNext]_proxy PROVE SlotInv'
  OBVIOUS
<1>1. CASE Registers \/ Withdraws \/ DaemonDies \/ RegistrationLapses \/ Pruned
  BY <1>1, OthersKeepSlots DEF Registers, Withdraws, DaemonDies, RegistrationLapses, Pruned
<1>2. ASSUME NEW call \in controlCalls, CallArrives(call) \/ CallAborted(call)
      PROVE  SlotInv'
  BY <1>2, OthersKeepSlots DEF CallArrives, CallAborted
<1>3. CASE ProxyRestarts
  <2>1. Tunnelled' = {}
    BY <1>3 DEF ProxyRestarts, Tunnelled
  <2> QED BY <1>3, <2>1, FS_EmptySet DEF ProxyRestarts, SlotInv, SlotsAreExact, TunnelState
<1>4. ASSUME NEW k \in Tunnels, Connects(k) \/ ResolveRefused(k) \/ TunnelOpens(k)
      PROVE  SlotInv'
  BY <1>4, OthersKeepSlots DEF Connects, ResolveRefused, TunnelOpens
<1>5. ASSUME NEW k \in Tunnels, Dials(k) PROVE SlotInv'
  BY <1>5, DialTakesOne
<1>6. ASSUME NEW k \in Tunnels, TunnelEnds(k) PROVE SlotInv'
  BY <1>6, TeardownGivesOneBack
<1>7. CASE UNCHANGED proxy
  BY <1>7, OthersKeepSlots DEF proxy
<1> QED BY <1>1, <1>2, <1>3, <1>4, <1>5, <1>6, <1>7 DEF ProxyNext

\* The cap of the proxy is measured by a counter that every end of a tunnel may
\* decrement: timers, errors and closes (proxy.mjs:323).  It is the number of tunnels.
THEOREM SlotsExact == ProxySpec => []SlotsAreExact
<1>1. ProxyInit => SlotInv
  <2> SUFFICES ASSUME ProxyInit PROVE SlotInv
    OBVIOUS
  <2>1. Tunnelled = {}
    BY DEF ProxyInit, Tunnelled
  <2> QED BY <2>1, FS_EmptySet DEF ProxyInit, SlotInv, SlotsAreExact, TunnelState
<1>2. SlotInv => SlotsAreExact
  BY DEF SlotInv
<1> QED BY <1>1, <1>2, SlotsStep, PTL DEF ProxySpec

(***************************************************************************)
(* What a job leaves on the engine: a teardown without an error left nothing. *)
(***************************************************************************)
\* The parts a job may have.
Own == IF dind THEN Parts ELSE Parts \ Sidecar

ResourcesInv ==
  /\ dind \in BOOLEAN /\ parts \subseteq Own /\ made \subseteq Own
  /\ doing = "create" => todo \in Seq(Own)
  /\ doing \in {"live", "destroy"} /\ handle.held => handle.dind = dind
  /\ doing = "destroy" =>
       handle.held /\ todo \in Seq(Parts) /\ (errors \/ \A p \in parts : \E i \in 1..Len(todo) : todo[i] = p)

LEMMA TeardownIsWhole ==
  ASSUME dind \in BOOLEAN
  PROVE  /\ MakeOrder(dind) \in Seq(Own) /\ Teardown(dind, TRUE) \in Seq(Parts)
         /\ \A p \in Own : \E i \in 1..Len(Teardown(dind, TRUE)) : Teardown(dind, TRUE)[i] = p
<1> DEFINE rest == IF dind THEN <<"sidecar", "network", "workspace", "images", "certs">>
                           ELSE <<"network", "workspace">>
           order == <<"container">> \o rest
<1>1. Teardown(dind, TRUE) = order
  BY DEF Teardown
<1>2. rest \in Seq(Parts) /\ MakeOrder(dind) \in Seq(Own)
  <2>1. CASE dind = TRUE
    BY <2>1 DEF Parts, Sidecar, Own, MakeOrder
  <2>2. CASE dind = FALSE
    BY <2>2 DEF Parts, Sidecar, Own, MakeOrder
  <2> QED BY <2>1, <2>2
<1>3. \A p \in Own \ {"container"} : \E i \in 1..Len(rest) : rest[i] = p
  <2>1. CASE dind = TRUE
    <3> DEFINE all == <<"sidecar", "network", "workspace", "images", "certs">>
    <3>1. Len(all) = 5 /\ all[1] = "sidecar" /\ all[2] = "network" /\ all[3] = "workspace"
            /\ all[4] = "images" /\ all[5] = "certs"
      OBVIOUS
    <3>b. rest = all
      BY <2>1
    <3>2. Own \ {"container"} = {"sidecar", "network", "workspace", "images", "certs"}
      BY <2>1 DEF Own, Parts, Sidecar
    <3> HIDE DEF all, rest
    <3>a. Len(rest) = 5
      BY <3>1, <3>b
    <3>3. \A n \in {1, 2, 3, 4, 5} : n \in 1..Len(rest)
      BY <3>a
    <3>4. \A p \in Own \ {"container"} : \E n \in {1, 2, 3, 4, 5} : rest[n] = p
      <4> TAKE p \in Own \ {"container"}
      <4>1. p = rest[1] \/ p = rest[2] \/ p = rest[3] \/ p = rest[4] \/ p = rest[5]
        BY <3>1, <3>2, <3>b
      <4> QED BY <4>1
    <3> QED BY <3>3, <3>4
  <2>2. CASE dind = FALSE
    <3> DEFINE all == <<"network", "workspace">>
    <3>1. Len(all) = 2 /\ all[1] = "network" /\ all[2] = "workspace" /\ rest = all
      BY <2>2
    <3>2. Own \ {"container"} = {"network", "workspace"}
      BY <2>2 DEF Own, Parts, Sidecar
    <3> HIDE DEF all, rest
    <3> QED BY <3>1, <3>2
  <2> QED BY <2>1, <2>2
<1> HIDE DEF rest
<1>4. "container" \in Parts
  BY DEF Parts
<1>5. order \in Seq(Parts) /\ Len(order) = Len(rest) + 1 /\ order[1] = "container" /\ Len(rest) \in Nat
        /\ \A i \in 1..Len(rest) : order[i + 1] = rest[i]
  BY <1>2, <1>4
<1> HIDE DEF order
<1>6. \A p \in Own : \E i \in 1..Len(order) : order[i] = p
  <2> TAKE p \in Own
  <2>1. CASE p = "container"
    BY <1>5, <2>1
  <2>2. CASE p # "container"
    <3>1. PICK i \in 1..Len(rest) : rest[i] = p
      BY <1>3, <2>2
    <3>2. i + 1 \in 1..Len(order) /\ order[i + 1] = p
      BY <1>5, <3>1
    <3> QED BY <3>2
  <2> QED BY <2>1, <2>2
<1> QED BY <1>1, <1>2, <1>5, <1>6

LEMMA ResourcesStep ==
  ASSUME ResourcesInv, [ResourcesNext]_resources
  PROVE  ResourcesInv'
<1>0. dind \in BOOLEAN /\ parts \subseteq Own /\ made \subseteq Own
  BY DEF ResourcesInv
<1>1. CASE UNCHANGED resources
  BY <1>1 DEF resources, ResourcesInv, Own
<1>2. CASE MakesContainer
  BY <1>0, <1>2, TeardownIsWhole DEF MakesContainer, ResourcesInv, Own
<1>3. CASE PartMade
  <2>1. Head(todo) \in Own /\ Tail(todo) \in Seq(Own)
    BY <1>3 DEF PartMade, ResourcesInv
  <2> QED BY <1>0, <1>3, <2>1 DEF PartMade, ResourcesInv, Own
<1>4. CASE ContainerMade
  BY <1>0, <1>4 DEF ContainerMade, ResourcesInv, Own
<1>5. CASE PartFails
  <2>1. Head(todo) \in Own
    BY <1>5 DEF PartFails, ResourcesInv
  <2>2. PICK made1 \in {made} \cup {made \cup {Head(todo)}} :
          parts' \in {parts \cup made1} \cup {parts \cup {Head(todo)}}
    BY <1>5 DEF PartFails
  <2>3. parts' \subseteq Own
    BY <1>0, <2>1, <2>2
  <2> QED BY <1>0, <1>5, <2>3 DEF PartFails, ResourcesInv, Own
<1>6. CASE PartGone
  <2>1. CASE doing = "destroy"
    <3>1. todo \in Seq(Parts) /\ todo # <<>> /\ Head(todo) = todo[1]
      BY <1>6, <2>1 DEF PartGone, Removing, ResourcesInv
    <3>2. Tail(todo) \in Seq(Parts) /\ Len(Tail(todo)) = Len(todo) - 1 /\ Len(todo) \in Nat
            /\ \A i \in 1..Len(todo) - 1 : Tail(todo)[i] = todo[i + 1]
      BY <3>1
    <3>3. ASSUME ~errors, NEW p \in parts \ {Head(todo)} PROVE \E i \in 1..Len(Tail(todo)) : Tail(todo)[i] = p
      <4>1. PICK i \in 1..Len(todo) : todo[i] = p
        BY <2>1, <3>3 DEF ResourcesInv
      <4>2. i # 1 /\ i - 1 \in 1..Len(Tail(todo))
        BY <3>1, <3>2, <3>3, <4>1
      <4> QED BY <3>2, <4>1, <4>2
    <3> QED BY <1>0, <1>6, <2>1, <3>2, <3>3 DEF PartGone, ResourcesInv, Own
  <2>2. CASE doing # "destroy"
    BY <1>0, <1>6, <2>2 DEF PartGone, Removing, ResourcesInv, Own
  <2> QED BY <2>1, <2>2
<1>7. CASE PartStays
  <2>1. parts' \subseteq parts /\ errors' = TRUE /\ UNCHANGED <<dind, doing, made, handle>> /\ todo' = Tail(todo)
    BY <1>7 DEF PartStays
  <2>2. doing = "destroy" => Tail(todo) \in Seq(Parts)
    BY <1>7 DEF PartStays, Removing, ResourcesInv
  <2>3. doing # "create"
    BY <1>7 DEF PartStays, Removing
  <2> QED BY <1>0, <2>1, <2>2, <2>3 DEF ResourcesInv, Own
<1>8. CASE RolledBack
  BY <1>0, <1>8 DEF RolledBack, ResourcesInv, Own
<1>9. CASE Destroys
  BY <1>0, <1>9, TeardownIsWhole DEF Destroys, ResourcesInv, Own
<1>10. CASE Destroyed
  BY <1>0, <1>10 DEF Destroyed, NoHandle, ResourcesInv, Own
<1>11. CASE Sweeps
  BY <1>0, <1>11 DEF Sweeps, ResourcesInv, Own
<1>12. CASE Swept
  BY <1>0, <1>12 DEF Swept, ResourcesInv, Own
<1>13. CASE DaemonRestarts
  BY <1>0, <1>13 DEF DaemonRestarts, ResourcesInv, Own
<1>14. CASE Adopts
  BY <1>0, <1>14 DEF Adopts, ResourcesInv, Own
<1> QED BY <1>1, <1>2, <1>3, <1>4, <1>5, <1>6, <1>7, <1>8, <1>9, <1>10, <1>11, <1>12, <1>13, <1>14
        DEF ResourcesNext

\* TeardownIsProof, of dockerode.mjs and jobs.mjs: a teardown that ends without an error
\* has removed every part of the job, the sidecar's included, whatever of the create
\* failed before it and however often the daemon restarted.
THEOREM TeardownsAreWhole == ResourcesSpec => TeardownIsProof
<1>1. ResourcesInit => ResourcesInv
  BY DEF ResourcesInit, ResourcesInv, NoHandle
<1>2. ASSUME ResourcesInv, [ResourcesNext]_resources
      PROVE  [doing = "destroy" /\ doing' = "idle" => parts' = {}]_resources
  <2>1. CASE Destroyed
    BY <1>2, <2>1 DEF Destroyed, ResourcesInv
  <2>2. CASE ~Destroyed
    BY <1>2, <2>2 DEF ResourcesNext, MakesContainer, PartMade, ContainerMade, PartFails, PartGone,
                      PartStays, RolledBack, Destroys, Sweeps, Swept, DaemonRestarts, Adopts
  <2> QED BY <2>1, <2>2
<1> QED BY <1>1, <1>2, ResourcesStep, PTL DEF ResourcesSpec, TeardownIsProof

(***************************************************************************)
(* The Fly backend: no second machine beside one that may be up.           *)
(***************************************************************************)
Provisions == [pc : {"none", "create", "prove", "wait", "undo", "attach"}, vm : SUBSET Vms, again : BOOLEAN]

FlyTypes ==
  /\ vms \in [Vms -> {"absent", "up", "gone"}] /\ undoFailed \in BOOLEAN
  /\ provision \in Provisions

\* No machine is up behind a create that may still be committed; the machine of a
\* start that is waited for, or undone, is the only one.
VmsFollowTheJob ==
  /\ \A v, w \in Up : v = w
  /\ flyJob = "queued" => Up = {} /\ provision = NoProvision
  /\ provision.pc = "create" => Up = {}
  /\ provision.pc \in {"wait", "undo"} => Up \subseteq provision.vm

FlyInv == FlyTypes /\ (undoFailed \/ VmsFollowTheJob)

LEMMA NoProvisionTyped == NoProvision \in Provisions /\ NoProvision.pc = "none"
<1>1. {} \in SUBSET Vms
  OBVIOUS
<1> QED BY <1>1 DEF NoProvision, Provisions

LEMMA FewAreOne ==
  ASSUME NEW S, \A v, w \in S : v = w
  PROVE  IsFiniteSet(S) /\ Cardinality(S) <= 1
<1>1. CASE S = {}
  BY <1>1, FS_EmptySet
<1>2. CASE S # {}
  <2>1. PICK v \in S : S = {v}
    BY <1>2
  <2>2. IsFiniteSet({v}) /\ Cardinality({v}) = 1
    BY FS_Singleton
  <2> QED BY <2>1, <2>2
<1> QED BY <1>1, <1>2

LEMMA GoneAreFewer ==
  ASSUME FlyTypes, NEW vm, VmGone(vm)
  PROVE  vms' \in [Vms -> {"absent", "up", "gone"}] /\ Up' = Up \ vm
BY DEF FlyTypes, VmGone, Up

LEMMA CommitIsOne ==
  ASSUME FlyTypes, NEW v \in Vms, Committed(v)
  PROVE  vms' \in [Vms -> {"absent", "up", "gone"}] /\ Up' = Up \cup {v}
BY DEF FlyTypes, Committed, Up

\* OneMachineOfAJob, of flyMachinesBackend.ts: however creates, waits and undos fail and
\* the middleware restarts, no two machines of a job are up, unless an undo failed.
THEOREM OneMachine == FlySpec => []OneMachineOfAJob
<1>1. FlyInit => FlyInv
  <2>1. FlyInit => FlyTypes
    BY NoProvisionTyped DEF FlyInit, FlyTypes
  <2>2. FlyInit => Up = {}
    BY DEF FlyInit, Up
  <2> QED BY <2>1, <2>2 DEF FlyInit, FlyInv, VmsFollowTheJob, NoProvision
<1>2. ASSUME FlyInv, [FlyNext]_fly PROVE FlyInv'
  <2> USE <1>2
  <2>0. FlyTypes /\ (undoFailed \/ VmsFollowTheJob)
    BY DEF FlyInv
  <2>1. CASE UNCHANGED fly
    BY <2>0, <2>1 DEF fly, FlyInv, FlyTypes, Provisions, VmsFollowTheJob, Up
  <2>2. CASE CreateSent
    BY <2>0, <2>2 DEF CreateSent, FlyInv, FlyTypes, Provisions, VmsFollowTheJob, NoProvision, Up
  <2>3. CASE Created
    <3>1. PICK v \in Vms : Committed(v) /\ provision' = [provision EXCEPT !.pc = "wait", !.vm = {v}]
      BY <2>3 DEF Created
    <3>2. Up' = Up \cup {v} /\ vms' \in [Vms -> {"absent", "up", "gone"}]
      BY <2>0, <3>1, CommitIsOne
    <3>3. FlyTypes'
      BY <2>0, <2>3, <3>1, <3>2 DEF Created, FlyTypes, Provisions
    <3>a. provision'.pc = "wait" /\ provision'.vm = {v}
      BY <2>0, <3>1 DEF FlyTypes, Provisions
    <3>b. VmsFollowTheJob => flyJob # "queued" /\ Up = {}
      BY <2>3 DEF Created, VmsFollowTheJob, NoProvision
    <3>4. VmsFollowTheJob => VmsFollowTheJob'
      BY <2>3, <3>2, <3>a, <3>b DEF Created, VmsFollowTheJob
    <3> QED BY <2>0, <2>3, <3>3, <3>4 DEF Created, FlyInv
  <2>4. CASE CreateFails
    <3>1. vms' \in [Vms -> {"absent", "up", "gone"}]
      BY <2>0, <2>4, CommitIsOne DEF CreateFails, FlyTypes, Provisions
    <3>2. VmsFollowTheJob => \A v, w \in Up' : v = w
      <4>1. CASE UNCHANGED vms
        BY <4>1 DEF Up, VmsFollowTheJob
      <4>2. ASSUME NEW v \in Vms, Committed(v) PROVE VmsFollowTheJob => \A u, w \in Up' : u = w
        <5>1. Up' = Up \cup {v}
          BY <2>0, <4>2, CommitIsOne
        <5> QED BY <2>4, <5>1 DEF CreateFails, VmsFollowTheJob
      <4> QED BY <2>4, <4>1, <4>2 DEF CreateFails
    <3>3. PICK status \in Statuses :
            IF Retryable(status)
            THEN provision' = [provision EXCEPT !.pc = "prove"] /\ UNCHANGED flyJob
            ELSE provision' = NoProvision /\ RowAfter(FALSE)
      BY <2>4 DEF CreateFails
    <3>4. FlyTypes'
      <4>1. provision' = [provision EXCEPT !.pc = "prove"] \/ provision' = NoProvision
        BY <3>3
      <4>2. provision' \in Provisions
        <5>1. CASE provision' = NoProvision
          BY <5>1, NoProvisionTyped
        <5>2. CASE provision' = [provision EXCEPT !.pc = "prove"]
          BY <2>0, <5>2 DEF FlyTypes, Provisions
        <5> QED BY <4>1, <5>1, <5>2
      <4> QED BY <2>0, <2>4, <3>1, <4>2 DEF CreateFails, FlyTypes
    <3>5. CASE Retryable(status)
      BY <2>0, <2>4, <3>2, <3>3, <3>4, <3>5
         DEF CreateFails, FlyInv, FlyTypes, Provisions, VmsFollowTheJob, NoProvision
    <3>6. CASE ~Retryable(status)
      <4>1. provision # NoProvision
        BY <2>4 DEF CreateFails, NoProvision
      <4> QED BY <2>0, <2>4, <3>2, <3>3, <3>4, <3>6, <4>1 DEF CreateFails, FlyInv, RowAfter, VmsFollowTheJob, NoProvision
    <3> QED BY <3>5, <3>6
  <2>5. CASE CreateProved
    <3>1. Up' = Up /\ UNCHANGED <<vms, undoFailed>> /\ provision # NoProvision
      <4>1. provision.pc = "prove" /\ UNCHANGED <<vms, undoFailed>>
        BY <2>5 DEF CreateProved
      <4> QED BY <4>1, NoProvisionTyped DEF Up
    <3>2. ASSUME NEW v \in Up, provision' = [provision EXCEPT !.pc = "wait", !.vm = {v}], UNCHANGED flyJob
          PROVE  FlyInv'
      <4>1. v \in Vms
        BY DEF Up
      <4>2. provision' \in Provisions /\ provision'.pc = "wait" /\ provision'.vm = {v}
        BY <2>0, <3>2, <4>1 DEF FlyTypes, Provisions
      <4>3. VmsFollowTheJob => VmsFollowTheJob'
        BY <3>1, <3>2, <4>2 DEF VmsFollowTheJob
      <4> QED BY <2>0, <3>1, <4>2, <4>3 DEF FlyInv, FlyTypes, Provisions
    <3>3. ASSUME Up = {}, provision' = NoProvision PROVE FlyInv'
      BY <2>0, <3>1, <3>3 DEF FlyInv, FlyTypes, VmsFollowTheJob, NoProvision, Provisions
    <3> QED BY <2>5, <3>2, <3>3 DEF CreateProved
  <2>6. CASE ProofFails
    BY <2>0, <2>6 DEF ProofFails, UnprovenAgain, RowAfter, FlyInv, FlyTypes, Provisions, VmsFollowTheJob, NoProvision, Up
  <2>7. CASE Started
    BY <2>0, <2>7 DEF Started, FlyInv, FlyTypes, Provisions, VmsFollowTheJob, NoProvision, Up
  <2>8. CASE StartFails
    <3>1. Up' = Up /\ UNCHANGED <<vms, undoFailed>> /\ provision.pc = "wait"
      BY <2>8 DEF StartFails, Up
    <3>2. ASSUME NEW again \in BOOLEAN, provision' = [provision EXCEPT !.pc = "undo", !.again = again], UNCHANGED flyJob
          PROVE  FlyInv'
      <4>1. provision' \in Provisions /\ provision'.pc = "undo" /\ provision'.vm = provision.vm
        BY <2>0, <3>2 DEF FlyTypes, Provisions
      <4>2. VmsFollowTheJob => VmsFollowTheJob'
        BY <3>1, <3>2, <4>1 DEF VmsFollowTheJob, NoProvision
      <4> QED BY <2>0, <3>1, <4>1, <4>2 DEF FlyInv, FlyTypes, Provisions
    <3>3. ASSUME provision' = NoProvision, RowAfter(FALSE) PROVE FlyInv'
      <4>1. FlyTypes'
        BY <2>0, <3>1, <3>3, NoProvisionTyped DEF FlyTypes
      <4>2. provision # NoProvision
        BY <3>1, NoProvisionTyped
      <4>3. VmsFollowTheJob => VmsFollowTheJob'
        BY <3>1, <3>3, <4>2, NoProvisionTyped DEF RowAfter, VmsFollowTheJob
      <4> QED BY <2>0, <3>1, <4>1, <4>3 DEF FlyInv
    <3>4. PICK status \in Statuses :
            IF status = 0
            THEN provision' = NoProvision /\ RowAfter(FALSE)
            ELSE /\ provision' = [provision EXCEPT !.pc = "undo", !.again = Retryable(status)]
                 /\ UNCHANGED flyJob
      BY <2>8 DEF StartFails
    <3>5. Retryable(status) \in BOOLEAN
      BY DEF Retryable
    <3> QED BY <3>2, <3>3, <3>4, <3>5
  <2>9. CASE Undone
    <3>1. CASE VmGone(provision.vm) /\ UNCHANGED undoFailed
      <4>1. vms' \in [Vms -> {"absent", "up", "gone"}] /\ Up' = Up \ provision.vm
        BY <2>0, <3>1, GoneAreFewer
      <4> QED BY <2>0, <2>9, <3>1, <4>1 DEF Undone, RowAfter, FlyInv, FlyTypes, Provisions, VmsFollowTheJob, NoProvision
    <3>2. CASE undoFailed' = TRUE /\ UNCHANGED vms
      BY <2>0, <2>9, <3>2 DEF Undone, FlyInv, FlyTypes, Provisions, NoProvision
    <3> QED BY <2>9, <3>1, <3>2 DEF Undone
  <2>10. CASE HandleAttached
    BY <2>0, <2>10 DEF HandleAttached, FlyInv, FlyTypes, Provisions, VmsFollowTheJob, NoProvision, Up
  <2>11. CASE FlyJobEnds
    BY <2>0, <2>11 DEF FlyJobEnds, FlyInv, FlyTypes, Provisions, VmsFollowTheJob, Up
  <2>12. CASE OwnerRead
    BY <2>0, <2>12 DEF OwnerRead, FlyInv, FlyTypes, Provisions, VmsFollowTheJob, Up
  <2>13. CASE UNCHANGED <<flyJob, provision, undoFailed>> /\ (UNCHANGED vms \/ \E vm : VmGone(vm))
    <3>1. CASE UNCHANGED vms
      BY <2>0, <2>13, <3>1 DEF FlyInv, FlyTypes, Provisions, VmsFollowTheJob, Up
    <3>2. ASSUME NEW vm, VmGone(vm) PROVE FlyInv'
      <4>1. vms' \in [Vms -> {"absent", "up", "gone"}] /\ Up' = Up \ vm
        BY <2>0, <3>2, GoneAreFewer
      <4> QED BY <2>0, <2>13, <4>1 DEF FlyInv, FlyTypes, Provisions, VmsFollowTheJob
    <3> QED BY <2>13, <3>1, <3>2
  <2>14. MachineStopped \/ MachineDeleted \/ VmExits \/ ReapListed \/ ReapVisited
           => UNCHANGED <<flyJob, provision, undoFailed>> /\ (UNCHANGED vms \/ \E vm : VmGone(vm))
    BY DEF MachineStopped, MachineDeleted, VmExits, ReapListed, ReapVisited
  <2>15. CASE FlyRestarts
    BY <2>0, <2>15 DEF FlyRestarts, FlyInv, FlyTypes, Provisions, VmsFollowTheJob, NoProvision, Up
  <2> QED BY <2>1, <2>2, <2>3, <2>4, <2>5, <2>6, <2>7, <2>8, <2>9, <2>10, <2>11, <2>12, <2>13,
             <2>14, <2>15 DEF FlyNext
<1>3. FlyInv => OneMachineOfAJob
  BY FewAreOne DEF FlyInv, VmsFollowTheJob, OneMachineOfAJob
<1> QED BY <1>1, <1>2, <1>3, PTL DEF FlySpec

(***************************************************************************)
(* The local backend: the group of every workspace can be found.           *)
(***************************************************************************)
Workspace ==
  [dir : BOOLEAN, file : BOOLEAN, group : {"up", "orphan", "none"}, tracked : BOOLEAN,
   pc : {"unmade", "made", "spawned", "undo", "rm", "none"}, held : BOOLEAN, unnamed : BOOLEAN]

\* A workspace is safe to leave alone: nothing runs in one that is not spawned yet or
\* being removed, a provision has its directory, and its group can be found.
Findable(r) ==
  /\ r.pc \in {"unmade", "made", "rm"} => r.group = "none"
  /\ r.pc \in {"made", "spawned", "undo"} => r.dir
  /\ r.group # "none" => r.unnamed \/ (r.dir /\ (r.file \/ r.pc \in {"spawned", "undo"}))

LocalInv == ws \in [Dirs -> Workspace] /\ \A d \in Dirs : Findable(ws[d])

\* One workspace changes, to one that can be found.
LEMMA BecomesFindable ==
  ASSUME LocalInv, NEW d \in Dirs, NEW r \in Workspace, Findable(r), Becomes(d, r)
  PROVE  LocalInv'
<1>1. /\ ws' \in [Dirs -> Workspace] /\ ws'[d] = r
      /\ \A o \in Dirs \ {d} : ws'[o] = ws[o]
  BY DEF LocalInv, Becomes
<1> QED BY <1>1 DEF LocalInv, Findable

LEMMA LocalSteps ==
  ASSUME LocalInv, NEW d \in Dirs
  PROVE  /\ WorkspaceMade(d) \/ ShimSpawned(d) \/ SpawnFails(d) \/ PidWritten(d)
               \/ PidWriteFails(d) \/ WorkspaceRemoved(d) \/ LeaderDies(d) \/ ChildExits(d) => LocalInv'
         /\ SpawnUndone(d) => LocalInv'
         /\ GroupTerminated(d) => LocalInv'
         /\ ReapVisits(d) => LocalInv'
<1> DEFINE r == ws[d]
<1>0. r \in Workspace /\ Findable(r)
  BY DEF LocalInv
<1> USE BecomesFindable
<1>1. WorkspaceMade(d) => LocalInv'
  BY DEF WorkspaceMade, Unmade, Workspace, Findable
<1>2. ShimSpawned(d) => LocalInv'
  BY <1>0 DEF ShimSpawned, Workspace, Findable
<1>3. SpawnFails(d) => LocalInv'
  BY <1>0 DEF SpawnFails, Removed, Workspace, Findable
<1>4. PidWritten(d) => LocalInv'
  BY <1>0 DEF PidWritten, Workspace, Findable
<1>5. PidWriteFails(d) => LocalInv'
  BY <1>0 DEF PidWriteFails, Workspace, Findable
<1>6. WorkspaceRemoved(d) => LocalInv'
  BY <1>0 DEF WorkspaceRemoved, Removed, Workspace, Findable
<1>7. LeaderDies(d) => LocalInv'
  BY <1>0 DEF LeaderDies, Workspace, Findable
<1>8. ChildExits(d) => LocalInv'
  BY <1>0 DEF ChildExits, Workspace, Findable
<1>9. ASSUME SpawnUndone(d) PROVE LocalInv'
  <2>1. CASE Becomes(d, Removed(ConfirmedGone(r)))
    BY <1>0, <2>1 DEF Removed, ConfirmedGone, GroupAlive, Workspace, Findable
  <2>2. ASSUME NEW s \in Survivors(r), NEW written \in BOOLEAN,
               Becomes(d, [s EXCEPT !.pc = "none", !.file = written, !.unnamed = ~written])
        PROVE  LocalInv'
    <3>1. r.pc = "undo" /\ r.dir
      BY <1>0, <1>9 DEF SpawnUndone, Findable
    <3>2. s = r \/ s = [r EXCEPT !.group = "orphan"]
      BY <2>2 DEF Survivors, GroupAlive
    <3>3. s \in Workspace /\ s.pc = "undo" /\ s.dir
      BY <1>0, <3>1, <3>2 DEF Workspace
    <3> DEFINE kept == [s EXCEPT !.pc = "none", !.file = written, !.unnamed = ~written]
    <3>4. kept \in Workspace /\ Findable(kept)
      BY <3>3 DEF Workspace, Findable
    <3> QED BY <2>2, <3>4
  <2> QED BY <1>9, <2>1, <2>2 DEF SpawnUndone
<1>10. ASSUME GroupTerminated(d) PROVE LocalInv'
  <2>1. CASE Becomes(d, [ConfirmedGone(r) EXCEPT !.tracked = FALSE, !.pc = "rm"])
    BY <1>0, <2>1 DEF ConfirmedGone, GroupAlive, Workspace, Findable
  <2>2. ASSUME NEW s \in Survivors(r), Becomes(d, s) PROVE LocalInv'
    BY <1>0, <1>10, <2>2 DEF GroupTerminated, Survivors, GroupAlive, Workspace, Findable
  <2> QED BY <1>10, <2>1, <2>2 DEF GroupTerminated
<1>11. ASSUME ReapVisits(d) PROVE LocalInv'
  <2>1. CASE Spared(r) /\ UNCHANGED ws
    BY <2>1 DEF LocalInv
  <2>2. CASE ~Spared(r) /\ Known(r) /\ Becomes(d, Removed(ConfirmedGone(r)))
    BY <1>0, <2>2 DEF Removed, ConfirmedGone, GroupAlive, Workspace, Findable
  <2>3. CASE ~Spared(r) /\ ~Known(r) /\ Becomes(d, Removed(r))
    BY <1>0, <2>3 DEF Spared, Known, Removed, Workspace, Findable
  <2>4. ASSUME ~Spared(r), Known(r), NEW s \in Survivors(r), Becomes(d, s) PROVE LocalInv'
    BY <1>0, <2>4 DEF Spared, Survivors, GroupAlive, Workspace, Findable
  <2> QED BY <1>11, <2>1, <2>2, <2>3, <2>4 DEF ReapVisits
<1> QED BY <1>1, <1>2, <1>3, <1>4, <1>5, <1>6, <1>7, <1>8, <1>9, <1>10, <1>11

\* NoGroupIsStranded, of localProcessBackend.ts: whatever provision, terminate, reap and
\* restarts do, a group that is alive has its directory and its pid on disk, unless its
\* provision still has it in hand or the pid never was written.
THEOREM GroupsAreFound == LocalSpec => []NoGroupIsStranded
<1>1. LocalInit => LocalInv
  BY DEF LocalInit, LocalInv, Unmade, Workspace, Findable
<1>2. ASSUME LocalInv, [LocalNext]_local PROVE LocalInv'
  <2>1. CASE UNCHANGED local
    BY <1>2, <2>1 DEF local, LocalInv
  <2>2. CASE ReapReads
    BY <1>2, <2>2 DEF ReapReads, LocalInv
  <2>3. CASE MiddlewareDies
    <3>1. \A d \in Dirs : ws[d] \in Workspace /\ Findable(ws[d])
      BY <1>2 DEF LocalInv
    <3>2. \A d \in Dirs : ws'[d] \in Workspace /\ Findable(ws'[d])
      BY <2>3, <3>1 DEF MiddlewareDies, Workspace, Findable
    <3> QED BY <2>3, <3>2 DEF MiddlewareDies, LocalInv
  <2> QED BY <1>2, <2>1, <2>2, <2>3, LocalSteps DEF LocalNext
<1>3. LocalInv => NoGroupIsStranded
  BY DEF LocalInv, Findable, NoGroupIsStranded
<1> QED BY <1>1, <1>2, <1>3, PTL DEF LocalSpec
=============================================================================
