------------------------------ MODULE MCClaims ------------------------------
EXTENDS DevJobClaims, TLC

\* Bounds of the liveness run: a replica crashes, and heartbeats stop, over local jobs
\* only.  A docker job, which may wait for its plan as well, has the wall clock.
InBounds ==
  \A j \in Jobs : jobs[j].backend = "docker" => crashes = 0 /\ jobs[j].beat # "stale"

\* People choose the backend of a job, and the rest is the environment's.
LiveNext ==
  \/ \E w \in Replicas : WorkerFlow(w)
  \/ \E h \in Handlers : HandlerStep(h)
  \/ \E c \in Claims : RunnerCalls(c) \/ Heartbeat(c)
  \/ People /\ InBounds'
  \/ Environment /\ InBounds'

\* Fairness asks of the clocks what the bounds let them do, and of nothing else that
\* leaves them.
LiveFairness ==
  /\ \A w \in Replicas : WF_vars(WorkerFlow(w))
  /\ \A h \in Handlers : WF_vars(HandlerStep(h))
  /\ \A j \in Jobs, clock \in Clocks : WF_vars(TimePasses(j, clock) /\ InBounds')
  /\ SF_vars(Deadline)

LiveSpec == Init /\ [][LiveNext]_vars /\ LiveFairness
=============================================================================
