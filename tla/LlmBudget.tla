----------------------------- MODULE LlmBudget -----------------------------
(***************************************************************************)
(* The LLM proxy of one job and its budget: concurrent calls, each admitted*)
(* by the status of the job, sent to the provider, metered in one atomic   *)
(* statement and judged on what that statement read back.                  *)
(*                                                                         *)
(* The budgets of cost and of tokens are judged alike and one of them is   *)
(* modelled; its counters saturate at Cap.                                 *)
(***************************************************************************)
EXTENDS Naturals, FiniteSets

CONSTANTS Calls,        \* calls the runner may have in flight
          Prices,       \* what a billed call may add
          Budget,       \* of the job; 0 is no budget
          Cap,          \* bound: the counters saturate here
          MaxMisses   \* bound: failed database writes

ASSUME BudgetAssumption ==
  /\ Cap \in Nat /\ MaxMisses \in Nat /\ Budget \in 0..Cap
  /\ Prices \subseteq 0..Cap /\ Prices # {} /\ IsFiniteSet(Calls)

VARIABLES
  jobStatus,   \* of the job: active, applying, budget_exceeded or ended
  usage,       \* the usage counters of its row
  calls,       \* each call: where it is, its price, what it read back
  ledger,      \* the usage ledger's total for the job
  warnings,    \* budget_warning events
  overwritten, \* ghost: a result has overwritten the counters
  misses       \* failed writes so far

budgetVars == <<jobStatus, usage, calls, ledger, warnings, overwritten, misses>>

Plus(a, b) == IF a + b > Cap THEN Cap ELSE a + b
NoCall == [pc |-> "idle", price |-> 0, read |-> 0]

Over(s) == Budget > 0 /\ s >= Budget

\* The edge at four fifths of the budget, crossed by this call.
Crossed(prev, now) == Budget > 0 /\ 5 * prev < 4 * Budget /\ 5 * now >= 4 * Budget

BudgetInit ==
  /\ jobStatus = "active" /\ usage = 0 /\ calls = [c \in Calls |-> NoCall]
  /\ ledger = 0
  /\ warnings = 0 /\ overwritten = FALSE /\ misses = 0

CallAt(c, pc) == calls[c].pc = pc
Goes(c, pc) == calls' = [calls EXCEPT ![c].pc = pc]
Ends(c) == calls' = [calls EXCEPT ![c] = NoCall]

\* Mutant of CallAdmitted: the status of the job is not looked at.
AdmittedAnyway(c) ==
  /\ CallAt(c, "idle")
  /\ Goes(c, "forward")
  /\ UNCHANGED <<jobStatus, usage, ledger, warnings, overwritten, misses>>

\* The token resolves to a job that is not terminal; the model is on the list,
\* the ceiling is put on the answer, the provider key is there.  The status is
\* not looked at again.  Any other call is refused and changes nothing.
CallAdmitted(c) ==
  /\ CallAt(c, "idle") /\ jobStatus \in {"active", "applying"}
  /\ Goes(c, "forward")
  /\ UNCHANGED <<jobStatus, usage, ledger, warnings, overwritten, misses>>

\* An error of the provider, which is tried twice before a byte has reached the
\* client, is passed on, scrubbed and unmetered.
UpstreamRefuses(c) ==
  /\ CallAt(c, "forward")
  /\ Ends(c)
  /\ UNCHANGED <<jobStatus, usage, ledger, warnings, overwritten, misses>>

\* A billable response, buffered whole or cut off: what it shows of its usage is
\* metered, and a response that shows none is delivered.
UpstreamAnswers(c) ==
  /\ CallAt(c, "forward")
  /\ \E price \in Prices, seen \in BOOLEAN :
       IF seen THEN calls' = [calls EXCEPT ![c].pc = "meter", ![c].price = price] ELSE Ends(c)
  /\ UNCHANGED <<jobStatus, usage, ledger, warnings, overwritten, misses>>

\* One statement adds the price and reads the new position back; the ledger row
\* follows once it has committed, and may be lost.
Accumulates(c) ==
  /\ CallAt(c, "meter")
  /\ usage' = Plus(usage, calls[c].price)
  /\ \/ ledger' = Plus(ledger, calls[c].price) /\ UNCHANGED misses
     \/ misses < MaxMisses /\ misses' = misses + 1 /\ UNCHANGED ledger
  /\ calls' = [calls EXCEPT ![c].pc = "judge", ![c].read = usage']
  /\ UNCHANGED <<jobStatus, warnings, overwritten>>

\* The statement fails, and the call is delivered: metering fails open.
AccumulateFails(c) ==
  /\ CallAt(c, "meter") /\ misses < MaxMisses
  /\ misses' = misses + 1
  /\ Ends(c)
  /\ UNCHANGED <<jobStatus, usage, ledger, warnings, overwritten>>

\* Mutant of Exceeds: edge-triggered, as the warning is.
ExceedsOnce(c) ==
  /\ CallAt(c, "judge") /\ Over(calls[c].read)
  /\ IF calls[c].read - calls[c].price < Budget THEN Goes(c, "finalize") ELSE Ends(c)
  /\ UNCHANGED <<jobStatus, usage, ledger, warnings, overwritten, misses>>

\* At or over a budget, on this and on every later call: the job is finalized
\* and the call answered 402.
Exceeds(c) ==
  /\ CallAt(c, "judge") /\ Over(calls[c].read)
  /\ Goes(c, "finalize")
  /\ UNCHANGED <<jobStatus, usage, ledger, warnings, overwritten, misses>>

JobFinalized(c) ==
  /\ CallAt(c, "finalize")
  /\ jobStatus' = IF jobStatus \in {"active", "applying"} THEN "budget_exceeded" ELSE jobStatus
  /\ Ends(c)
  /\ UNCHANGED <<usage, ledger, warnings, overwritten, misses>>

FinalizeMisses(c) ==
  /\ CallAt(c, "finalize") /\ misses < MaxMisses
  /\ misses' = misses + 1
  /\ Ends(c)
  /\ UNCHANGED <<jobStatus, usage, ledger, warnings, overwritten>>

\* Under every budget: a warning if this call crossed an edge, and delivery.
Delivers(c) ==
  /\ CallAt(c, "judge") /\ ~Over(calls[c].read)
  /\ warnings' = IF Crossed(calls[c].read - calls[c].price, calls[c].read) /\ warnings < 2 THEN warnings + 1 ELSE warnings
  /\ Ends(c)
  /\ UNCHANGED <<jobStatus, usage, ledger, overwritten, misses>>

\* The runner reports its result: the counters are set to the usage it reports,
\* to nothing if it reports none; and the job ends in its own ways.
ResultOverwrites ==
  /\ jobStatus = "active"
  /\ usage' \in {0} \cup Prices /\ jobStatus' = "applying" /\ overwritten' = TRUE
  /\ UNCHANGED <<calls, ledger, warnings, misses>>

BudgetedJobEnds ==
  /\ jobStatus \in {"active", "applying"}
  /\ jobStatus' = "ended"
  /\ UNCHANGED <<usage, calls, ledger, warnings, overwritten, misses>>

CallSteps(c) ==
  \/ CallAdmitted(c) \/ UpstreamRefuses(c) \/ UpstreamAnswers(c)
  \/ Accumulates(c) \/ AccumulateFails(c) \/ Exceeds(c) \/ JobFinalized(c) \/ FinalizeMisses(c)
  \/ Delivers(c)

BudgetNext == (\E c \in Calls : CallSteps(c)) \/ ResultOverwrites \/ BudgetedJobEnds

\* A runner that goes on calling; a provider that answers some of its calls with
\* its usage; a finalize that is retried by each call.
BudgetFairness ==
  \A c \in Calls :
    /\ WF_budgetVars(CallSteps(c))
    /\ SF_budgetVars(UpstreamAnswers(c) /\ calls'[c].pc = "meter")
    /\ SF_budgetVars(Accumulates(c)) /\ SF_budgetVars(JobFinalized(c))

BudgetSpec == BudgetInit /\ [][BudgetNext]_budgetVars /\ BudgetFairness

-----------------------------------------------------------------------------
Dearest == CHOOSE n \in Prices : \A p \in Prices : p <= n

\* The overshoot is bounded by the calls in flight: none is admitted once the
\* first over-budget call has ended the job.
BoundedOvershoot ==
  misses = 0 /\ ~overwritten /\ Budget > 0
    => usage <= Budget - 1 + Cardinality(Calls) * Dearest

\* A finalize that fails at the crossing is made good by a later call.
OverBudgetEnds == [](Over(usage) => <>(jobStatus \notin {"active", "applying"} \/ ~Over(usage)))
=============================================================================
