---------------------------- MODULE DevJobSystem ----------------------------
(***************************************************************************)
(* The dev-job lifecycle as a whole: the workers of all replicas, the      *)
(* runners and their API, the gates, the operator's routes and the         *)
(* environment, over one database.                                         *)
(***************************************************************************)
EXTENDS DevJobWorker, RunnerApi, GateRoutes, AdminRoutes

\* A flow goes on: every step of a handler or worker that waits for nobody.
FlowStep(p) == ApplyStep(p) \/ FinalizeStep(p)
HandlerStep(h) == FlowStep(h) \/ ReplyStep(h) \/ GateStep(h) \/ HeldOpen(h)
WorkerFlow(w) == WorkerStep(w) \/ FlowStep(w)

RunnerCalls(c) == \E h \in Handlers, at \in Replicas : RunnerApiStep(c, h, at)

People ==
  \/ \E j \in Jobs : Create(j) \/ Delete(j)
  \/ \E j, k \in Jobs : Retry(j, k)
  \/ \E h \in Handlers, at \in Replicas :
       \/ \E j \in Jobs : AdminArrival(h, j, at)
       \/ \E g \in GateIds : GateArrival(h, g, at)

Environment ==
  \/ \E j \in Jobs : \E clock \in Clocks : TimePasses(j, clock)
  \/ \E c \in Claims : RunnerDies(c) \/ Reclaimed(c)
  \/ \E r \in Replicas : Crash(r)

Next ==
  \/ \E w \in Replicas : WorkerFlow(w)
  \/ \E h \in Handlers : HandlerStep(h)
  \/ \E c \in Claims : RunnerCalls(c) \/ Heartbeat(c)
  \/ People
  \/ Environment

Spec == Init /\ [][Next]_vars

(***************************************************************************)
(* Fairness: a replica's loop is re-armed by a timer and a handler that    *)
(* runs is driven on by the event loop; clocks go on; and the deadline     *)
(* timer sooner or later gets to an overdue gate.  Nothing is asked of     *)
(* runners or people.                                                      *)
(***************************************************************************)
Deadline == \E h \in Handlers, at \in Replicas, g \in GateIds : GateExpires(h, g, at)

Fairness ==
  /\ \A w \in Replicas : WF_vars(WorkerFlow(w))
  /\ \A h \in Handlers : WF_vars(HandlerStep(h))
  /\ \A j \in Jobs, clock \in Clocks : WF_vars(TimePasses(j, clock))
  /\ SF_vars(Deadline)

FairSpec == Spec /\ Fairness
=============================================================================
