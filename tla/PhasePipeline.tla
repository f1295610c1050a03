--------------------------- MODULE PhasePipeline ---------------------------
(***************************************************************************)
(* The pure decision tables of the gated pipeline: which transition a      *)
(* phase result causes, and what the review loop does with a verdict.      *)
(***************************************************************************)
EXTENDS Naturals

Phase == {"analyze", "bootstrap", "plan", "clarify", "await_human",
          "implement", "review", "pr"}
Kind == {"analyze", "fix_issue"}
Mode == {"gated", "collapsed"}

\* A fingerprint stands for the sorted hash of a round's blocking findings;
\* "none" is the null fingerprint and also a verdict without blocking findings.
Complaint == {"f1", "f2"}
Fingerprint == Complaint \cup {"none"}

(***************************************************************************)
(* A parsed verdict: approve, request_changes with the fingerprint of its  *)
(* blocking findings ("none": minor findings only), or malformed.          *)
(***************************************************************************)
Verdict == [ask : {"approve", "request_changes"}, fp : Fingerprint]
Malformed == [ask |-> "malformed", fp |-> "none"]
NoVerdict == [ask |-> "none", fp |-> "none"]

MAX_REVIEW_ATTEMPTS == 2

\* A request_changes whose findings are all minor is coerced to approve.
NormalizedAsk(v) == IF v.fp = "none" THEN "approve" ELSE v.ask

Judgment(action, attempt, fp) == [action |-> action, attempt |-> attempt, fp |-> fp]

\* What the loop decides, and the attempt and fingerprint it leaves on the row.
DecideReview(v, attempt, previous) ==
  CASE NormalizedAsk(v) = "approve" -> Judgment("approve", attempt, previous)
    [] NormalizedAsk(v) # "approve" /\ previous = v.fp -> Judgment("give_up", attempt, v.fp)
    [] NormalizedAsk(v) # "approve" /\ previous # v.fp /\ attempt >= MAX_REVIEW_ATTEMPTS
         -> Judgment("give_up", attempt, v.fp)
    [] OTHER -> Judgment("retry", attempt + 1, v.fp)

ReviewAction == {"approve", "give_up", "retry"}

(***************************************************************************)
(* The transition table.  A transition is [act, to]; `review' is the       *)
(* review action, "approve" outside the review phase.                      *)
(***************************************************************************)
To(act, phase) == [act |-> act, to |-> phase]

AfterReview(review) ==
  CASE review = "retry"   -> To("retry_implement", "implement")
    [] review = "approve" -> To("advance", "pr")
    [] review = "give_up" -> To("advance", "pr")

ComputeTransition(phase, ok, review, mode, kind) ==
  IF ~ok THEN To("fail", phase)
  ELSE IF kind = "analyze" THEN To(IF phase = "analyze" THEN "done" ELSE "fail", phase)
  ELSE CASE phase = "analyze"     -> To("advance", IF mode = "gated" THEN "bootstrap" ELSE "implement")
         [] phase = "bootstrap"   -> To("advance", "plan")
         [] phase = "plan"        -> To("advance", "clarify")
         [] phase = "clarify"     -> To("park", "await_human")
         [] phase = "await_human" -> To("requeue", "implement")
         [] phase = "implement"   -> To("advance", "review")
         [] phase = "review"      -> AfterReview(review)
         [] phase = "pr"          -> To("done", "pr")

\* The phases a runner may execute: await_human and pr are host-only.
Runnable == Phase \ {"await_human", "pr"}
=============================================================================
