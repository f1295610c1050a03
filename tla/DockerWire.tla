----------------------------- MODULE DockerWire -----------------------------
(***************************************************************************)
(* One docker job between the middleware's DockerBackend and the runner    *)
(* daemon: the create that is retried after its absence is confirmed, the  *)
(* policy lookup that reissues the job's token, lease renewal, teardown,   *)
(* reap, and restarts of either side.  RunnerDaemon has the daemon in full.*)
(***************************************************************************)
EXTENDS Naturals

CONSTANTS MaxLookups,   \* bound: policy lookups, each of which reissues the token
          MaxAttempts,  \* POSTs of one provision
          MaxWireFaults \* bound: calls that fail, and restarts

ASSUME WireAssumption ==
  MaxLookups \in Nat /\ MaxAttempts \in Nat \ {0} /\ MaxWireFaults \in Nat

VARIABLES
  jobRow,     \* status of the row, and the token whose hash it has
  attempt,    \* the provision under way: where it is, and its POSTs so far
  lookups,    \* handlers of the job-policy route: none, working or done
  creating,   \* JobManager.#inflight of the job: stage, lookup and token
  recorded,   \* JobManager.#jobs has it
  container,  \* the container: up, its token, its lease held
  relisted,   \* the daemon's registry is relisted from the engine
  tracked,    \* DockerBackend.live has the handle
  condemned,  \* DockerBackend.terminating has the job
  calling,    \* teardown, renewal and reap under way in the middleware
  wireFaults

wire == <<jobRow, attempt, lookups, creating, recorded, container, relisted, tracked,
          condemned, calling, wireFaults>>

NoAttempt == [pc |-> "none", posts |-> 0]
NotCreating == [pc |-> "none", lookup |-> 0, token |-> 0]
NoContainer == [up |-> FALSE, token |-> 0, held |-> FALSE]
Waiting == attempt.pc \in {"post", "wait"}

WireInit ==
  /\ jobRow = [status |-> "queued", token |-> 0]
  /\ attempt = NoAttempt /\ lookups = [n \in 1..MaxLookups |-> "none"]
  /\ creating = NotCreating /\ recorded = FALSE /\ container = NoContainer /\ relisted = TRUE
  /\ tracked = FALSE /\ condemned = FALSE
  /\ calling = [delete |-> FALSE, renew |-> FALSE, reap |-> "none"] /\ wireFaults = 0

Fault == wireFaults < MaxWireFaults /\ wireFaults' = wireFaults + 1

-----------------------------------------------------------------------------
\* The worker claims the job and names it to the daemon.
ProvisionStarts ==
  /\ jobRow.status = "queued" /\ attempt.pc = "none"
  /\ jobRow' = [jobRow EXCEPT !.status = "claimed"] /\ attempt' = [pc |-> "post", posts |-> 1]
  /\ UNCHANGED <<lookups, creating, recorded, container, relisted, tracked, condemned, calling, wireFaults>>

\* The daemon answers with the record it has, joins the create under way, or starts
\* one, whose first step is the lookup.  A teardown under way refuses it (409).
PostArrives ==
  /\ attempt.pc = "post" /\ ~recorded
  /\ attempt' = [attempt EXCEPT !.pc = "wait"]
  /\ \/ creating.pc # "none" /\ UNCHANGED <<lookups, creating>>
     \/ /\ creating.pc = "none"
        /\ \E n \in 1..MaxLookups :
             /\ lookups[n] = "none" /\ \A m \in 1..(n - 1) : lookups[m] # "none"
             /\ lookups' = [lookups EXCEPT ![n] = "working"]
             /\ creating' = [pc |-> "lookup", lookup |-> n, token |-> 0]
  /\ UNCHANGED <<jobRow, recorded, container, relisted, tracked, condemned, calling, wireFaults>>

PostRefused ==
  /\ attempt.pc = "post" /\ ~recorded /\ creating.pc = "none" /\ Fault
  /\ attempt' = [attempt EXCEPT !.pc = "prove"]
  /\ UNCHANGED <<jobRow, lookups, creating, recorded, container, relisted, tracked, condemned, calling>>

\* The handler of the route: it reissues the token and answers, in time or not.
LookupReissues(n) ==
  /\ lookups[n] = "working" /\ lookups' = [lookups EXCEPT ![n] = "done"]
  /\ jobRow' = [jobRow EXCEPT !.token = n]
  /\ creating' = IF creating.lookup = n THEN [creating EXCEPT !.pc = "start", !.token = n] ELSE creating
  /\ UNCHANGED <<attempt, recorded, container, relisted, tracked, condemned, calling, wireFaults>>

\* The daemon gives the lookup up at its deadline: 503, for the caller retryable.
LookupAborted ==
  /\ creating.pc = "lookup" /\ Fault
  /\ creating' = NotCreating
  /\ attempt' = IF attempt.pc = "wait" THEN [attempt EXCEPT !.pc = "prove"] ELSE attempt
  /\ UNCHANGED <<jobRow, lookups, recorded, container, relisted, tracked, condemned, calling>>

ContainerStarts ==
  /\ creating.pc = "start" /\ ~container.up
  /\ container' = [up |-> TRUE, token |-> creating.token, held |-> TRUE] /\ recorded' = TRUE
  /\ creating' = NotCreating
  /\ UNCHANGED <<jobRow, attempt, lookups, relisted, tracked, condemned, calling, wireFaults>>

\* The engine refuses, always if there is a container of that name: 502, terminal.
StartRefused ==
  /\ creating.pc = "start" /\ IF container.up THEN UNCHANGED wireFaults ELSE Fault
  /\ creating' = NotCreating
  /\ \/ /\ attempt.pc = "wait" /\ attempt' = NoAttempt
        /\ jobRow' = [jobRow EXCEPT !.status = IF @ = "claimed" THEN "over" ELSE @]
     \/ attempt.pc # "wait" /\ UNCHANGED <<jobRow, attempt>>
  /\ UNCHANGED <<lookups, recorded, container, relisted, tracked, condemned, calling>>

\* The call fails or times out on the way: confirm that nothing was created, as long
\* as there are attempts.
PostLost ==
  /\ Waiting
  /\ IF attempt.pc = "wait" /\ creating.pc = "none" /\ ~recorded THEN UNCHANGED wireFaults ELSE Fault
  /\ IF attempt.posts < MaxAttempts
     THEN attempt' = [attempt EXCEPT !.pc = "confirm"] /\ UNCHANGED jobRow
     ELSE /\ attempt' = NoAttempt
          /\ jobRow' = [jobRow EXCEPT !.status = IF @ = "claimed" THEN "over" ELSE @]
  /\ UNCHANGED <<lookups, creating, recorded, container, relisted, tracked, condemned, calling>>

\* After a lost call the job is adopted or posted again; a list that fails counts
\* as absence.
Confirmed ==
  /\ attempt.pc = "confirm" /\ IF recorded THEN Fault ELSE UNCHANGED wireFaults
  /\ attempt' = [pc |-> "post", posts |-> attempt.posts + 1]
  /\ UNCHANGED <<jobRow, lookups, creating, recorded, container, relisted, tracked, condemned, calling>>

\* A retryable answer promises that nothing was created: proved by the list, the
\* claim goes back; unproven, the job ends.
Proved ==
  /\ attempt.pc = "prove" /\ attempt' = NoAttempt
  /\ \/ /\ ~recorded /\ UNCHANGED wireFaults
        /\ jobRow' = [jobRow EXCEPT !.status = IF @ = "claimed" THEN "queued" ELSE @]
     \/ /\ Fault /\ jobRow' = [jobRow EXCEPT !.status = IF @ = "claimed" THEN "over" ELSE @]
  /\ UNCHANGED <<lookups, creating, recorded, container, relisted, tracked, condemned, calling>>

\* The daemon has the job: the handle is tracked and attached, or, for a job that
\* ended meanwhile, terminated as an orphan.
Attached ==
  /\ attempt.pc \in {"post", "wait", "confirm", "prove"} /\ recorded
  /\ attempt' = NoAttempt /\ tracked' = TRUE
  /\ \/ /\ jobRow.status = "claimed" /\ jobRow' = [jobRow EXCEPT !.status = "running"]
        /\ UNCHANGED <<condemned, calling>>
     \/ /\ jobRow.status = "over" /\ condemned' = TRUE /\ calling' = [calling EXCEPT !.delete = TRUE]
        /\ UNCHANGED jobRow
  /\ UNCHANGED <<lookups, creating, recorded, container, relisted, wireFaults>>

-----------------------------------------------------------------------------
\* The job ends by any other path; its handle, if it has one, is terminated.
JobEnds ==
  /\ jobRow.status \in {"claimed", "running"} /\ jobRow' = [jobRow EXCEPT !.status = "over"]
  /\ condemned' = (condemned \/ jobRow.status = "running")
  /\ calling' = [calling EXCEPT !.delete = @ \/ jobRow.status = "running"]
  /\ UNCHANGED <<attempt, lookups, creating, recorded, container, relisted, tracked, wireFaults>>

\* DELETE: torn down, with a create under way cancelled, or unknown to the daemon
\* (404), which counts as done.
Deleted ==
  /\ calling.delete /\ calling' = [calling EXCEPT !.delete = FALSE]
  /\ tracked' = FALSE /\ condemned' = FALSE /\ recorded' = FALSE
  /\ container' = IF recorded THEN NoContainer ELSE container
  /\ creating' = NotCreating /\ attempt' = IF attempt.pc = "wait" THEN NoAttempt ELSE attempt
  /\ UNCHANGED <<jobRow, lookups, relisted, wireFaults>>

\* It fails: the handle stays tracked, and nobody asks again.
DeleteFails ==
  /\ calling.delete /\ Fault /\ calling' = [calling EXCEPT !.delete = FALSE]
  /\ UNCHANGED <<jobRow, attempt, lookups, creating, recorded, container, relisted, tracked, condemned>>

\* Mutant of MayRenew: every tracked job is renewed.
RenewsTracked == tracked

\* A tracked job's lease is renewed until its teardown has been asked for.
MayRenew == tracked /\ ~condemned

RenewSent ==
  /\ MayRenew /\ ~calling.renew /\ calling' = [calling EXCEPT !.renew = TRUE]
  /\ UNCHANGED <<jobRow, attempt, lookups, creating, recorded, container, relisted, tracked, condemned, wireFaults>>

\* A job the daemon does not know is left to the reap.
RenewArrives ==
  /\ calling.renew /\ calling' = [calling EXCEPT !.renew = FALSE]
  /\ container' = [container EXCEPT !.held = @ \/ recorded]
  /\ UNCHANGED <<jobRow, attempt, lookups, creating, recorded, relisted, tracked, condemned, wireFaults>>

LeaseLapsed ==
  /\ container.held /\ container' = [container EXCEPT !.held = FALSE]
  /\ UNCHANGED <<jobRow, attempt, lookups, creating, recorded, relisted, tracked, condemned, calling, wireFaults>>

\* The daemon's own sweep, which only trusts a relisted registry.
DaemonReaps ==
  /\ relisted /\ recorded /\ ~container.held
  /\ recorded' = FALSE /\ container' = NoContainer
  /\ UNCHANGED <<jobRow, attempt, lookups, creating, relisted, tracked, condemned, calling, wireFaults>>

\* reap: the daemon's list is read, then compared with what is tracked.
ReapLists ==
  /\ tracked /\ calling.reap = "none"
  /\ calling' = [calling EXCEPT !.reap = IF recorded THEN "found" ELSE "missing"]
  /\ UNCHANGED <<jobRow, attempt, lookups, creating, recorded, container, relisted, tracked, condemned, wireFaults>>

\* A tracked job the list lacks is lost: no longer tracked, and its row ends.
ReapSettles ==
  /\ calling.reap # "none" /\ calling' = [calling EXCEPT !.reap = "none"]
  /\ \/ calling.reap = "missing" /\ tracked' = FALSE /\ condemned' = FALSE
        /\ jobRow' = [jobRow EXCEPT !.status = IF @ = "running" THEN "over" ELSE @]
     \/ calling.reap = "found" /\ UNCHANGED <<tracked, condemned, jobRow>>
  /\ UNCHANGED <<attempt, lookups, creating, recorded, container, relisted, wireFaults>>

-----------------------------------------------------------------------------
\* The daemon restarts: calls under way are lost, the record comes back with the
\* rebuild, or later if the engine cannot be listed; the daemon serves either way.
DaemonBoots ==
  /\ Fault /\ creating' = NotCreating
  /\ relisted' \in BOOLEAN /\ recorded' = (relisted' /\ container.up)
  /\ UNCHANGED <<jobRow, attempt, lookups, container, tracked, condemned, calling>>

RegistryRebuilt ==
  /\ ~relisted /\ relisted' = TRUE /\ recorded' = (recorded \/ container.up)
  /\ UNCHANGED <<jobRow, attempt, lookups, creating, container, tracked, condemned, calling, wireFaults>>

\* The middleware restarts: what is tracked comes back from the rows with a handle.
\* The sweep ends a job whose provision was lost (JobEnds).
MiddlewareBoots ==
  /\ Fault /\ attempt' = NoAttempt
  /\ tracked' = (jobRow.status = "running") /\ condemned' = FALSE
  /\ calling' = [delete |-> FALSE, renew |-> FALSE, reap |-> "none"]
  /\ UNCHANGED <<jobRow, lookups, creating, recorded, container, relisted>>

WireNext ==
  \/ ProvisionStarts \/ PostArrives \/ PostRefused \/ PostLost \/ Confirmed \/ Proved \/ Attached
  \/ \E n \in 1..MaxLookups : LookupReissues(n)
  \/ LookupAborted \/ ContainerStarts \/ StartRefused
  \/ JobEnds \/ Deleted \/ DeleteFails \/ RenewSent \/ RenewArrives \/ LeaseLapsed \/ DaemonReaps
  \/ ReapLists \/ ReapSettles \/ DaemonBoots \/ RegistryRebuilt \/ MiddlewareBoots

\* Leases lapse when nothing renews them, the daemon sweeps and retries its rebuild,
\* calls under way end, and a create settles.
WireFairness ==
  /\ WF_wire(LeaseLapsed) /\ WF_wire(DaemonReaps) /\ WF_wire(RegistryRebuilt)
  /\ WF_wire(RenewArrives) /\ WF_wire(Deleted \/ DeleteFails) /\ WF_wire(ReapSettles)
  /\ WF_wire(Attached) /\ WF_wire(Confirmed) /\ WF_wire(Proved) /\ WF_wire(PostArrives)
  /\ \A n \in 1..MaxLookups : WF_wire(LookupReissues(n))
  /\ WF_wire(ContainerStarts \/ StartRefused)

WireSpec == WireInit /\ [][WireNext]_wire /\ WireFairness

-----------------------------------------------------------------------------
\* A job that is over loses its container, whatever call was lost, whichever side
\* restarted and whenever the container came up: nothing renews its lease, and a
\* teardown that failed does not keep it alive.
EndedJobsLoseTheirContainer == <>[](jobRow.status = "over" => ~container.up)
=============================================================================
