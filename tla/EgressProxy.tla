---------------------------- MODULE EgressProxy ----------------------------
(***************************************************************************)
(* The egress proxy as one job meets it: the registration the daemon puts *)
(* and deletes through the control plane, whose calls may be given up and  *)
(* still arrive, and the CONNECT tunnels of its runner on the data plane.  *)
(***************************************************************************)
EXTENDS Naturals, FiniteSets

CONSTANTS Tunnels,      \* connections the runner may have under way
          MaxTunnels,   \* limits.maxTunnels
          MaxIncarnations    \* bound: incarnations of the job, each with its proxy token

ASSUME ProxyAssumption ==
  /\ MaxTunnels \in Nat \ {0} /\ MaxIncarnations \in Nat /\ IsFiniteSet(Tunnels)

VARIABLES
  registered,    \* JobRegistry's record of the job: its token (0: none), lapsed or not
  controlCalls,  \* PUT and DELETE on their way to the control plane
  incarnation,   \* the latest proxy token the daemon has minted
  daemonUp,      \* the daemon still makes calls
  tunnels,       \* where handleConnect is for each connection
  activeTunnels  \* the counter of createProxy

proxy == <<registered, controlCalls, incarnation, daemonUp, tunnels, activeTunnels>>

Unregistered == [token |-> 0, lapsed |-> FALSE]

ProxyInit ==
  /\ registered = Unregistered /\ controlCalls = {} /\ incarnation = 0 /\ daemonUp = TRUE
  /\ tunnels = [k \in Tunnels |-> "idle"] /\ activeTunnels = 0

-----------------------------------------------------------------------------
\* The daemon registers a fresh token before it starts the container, and
\* withdraws the job when it is gone.  Either call may be given up at its deadline
\* by the daemon and still reach the proxy.
Registers ==
  /\ daemonUp /\ incarnation < MaxIncarnations
  /\ incarnation' = incarnation + 1
  /\ controlCalls' = controlCalls \cup {[kind |-> "put", token |-> incarnation']}
  /\ UNCHANGED <<registered, daemonUp, tunnels, activeTunnels>>

Withdraws ==
  /\ daemonUp /\ incarnation > 0
  /\ controlCalls' = controlCalls \cup {[kind |-> "delete", token |-> incarnation]}
  /\ UNCHANGED <<registered, incarnation, daemonUp, tunnels, activeTunnels>>

DaemonDies == daemonUp /\ daemonUp' = FALSE
  /\ UNCHANGED <<registered, controlCalls, incarnation, tunnels, activeTunnels>>

\* A PUT replaces what is registered, a DELETE removes whatever is.
CallArrives(call) ==
  /\ registered' = IF call.kind = "put" THEN [token |-> call.token, lapsed |-> FALSE] ELSE Unregistered
  /\ controlCalls' = controlCalls \ {call}
  /\ UNCHANGED <<incarnation, daemonUp, tunnels, activeTunnels>>

CallAborted(call) ==
  /\ controlCalls' = controlCalls \ {call}
  /\ UNCHANGED <<registered, incarnation, daemonUp, tunnels, activeTunnels>>

\* The TTL runs out; the timer or the next look prunes the record.
RegistrationLapses ==
  /\ registered.token > 0 /\ ~registered.lapsed
  /\ registered' = [registered EXCEPT !.lapsed = TRUE]
  /\ UNCHANGED <<controlCalls, incarnation, daemonUp, tunnels, activeTunnels>>

Pruned ==
  /\ registered.lapsed /\ registered' = Unregistered
  /\ UNCHANGED <<controlCalls, incarnation, daemonUp, tunnels, activeTunnels>>

\* Registrations and tunnels are in memory; nobody registers a running job again.
ProxyRestarts ==
  /\ registered' = Unregistered /\ activeTunnels' = 0
  /\ tunnels' = [k \in Tunnels |-> "idle"]
  /\ UNCHANGED <<controlCalls, incarnation, daemonUp>>

-----------------------------------------------------------------------------
\* decideRequest: a live registration with the token presented.
Authorised(token) == registered.token = token /\ ~registered.lapsed

Tunnelled == {k \in Tunnels : tunnels[k] \in {"dialling", "open"}}

\* Any other CONNECT is refused on the spot and leaves nothing.  The cap is
\* looked at here; the name is resolved after it.
Connects(k) ==
  /\ tunnels[k] = "idle" /\ \E token \in 1..incarnation : Authorised(token)
  /\ activeTunnels < MaxTunnels
  /\ tunnels' = [tunnels EXCEPT ![k] = "resolving"]
  /\ UNCHANGED <<registered, controlCalls, incarnation, daemonUp, activeTunnels>>

\* Every address is classified; the socket is dialled to the one that was, and
\* only then counted.
Dials(k) ==
  /\ tunnels[k] = "resolving"
  /\ tunnels' = [tunnels EXCEPT ![k] = "dialling"] /\ activeTunnels' = activeTunnels + 1
  /\ UNCHANGED <<registered, controlCalls, incarnation, daemonUp>>

\* No address in time, or an internal one.
ResolveRefused(k) ==
  /\ tunnels[k] = "resolving" /\ tunnels' = [tunnels EXCEPT ![k] = "idle"]
  /\ UNCHANGED <<registered, controlCalls, incarnation, daemonUp, activeTunnels>>

TunnelOpens(k) ==
  /\ tunnels[k] = "dialling" /\ tunnels' = [tunnels EXCEPT ![k] = "open"]
  /\ UNCHANGED <<registered, controlCalls, incarnation, daemonUp, activeTunnels>>

\* Mutant of TornDown: the torndown flag is not looked at.
TornDownAnyway(k) ==
  /\ tunnels[k] \in {"dialling", "open", "closing"} /\ activeTunnels > 0
  /\ tunnels' = [tunnels EXCEPT ![k] = IF @ = "closing" THEN "idle" ELSE "closing"]
  /\ activeTunnels' = activeTunnels - 1

\* teardown: run by an error, by either side's close and by each of the deadlines,
\* and again by the close of the sockets it destroys.
TornDown(k) ==
  \/ /\ tunnels[k] \in {"dialling", "open"}
     /\ tunnels' = [tunnels EXCEPT ![k] = "closing"] /\ activeTunnels' = activeTunnels - 1
  \/ /\ tunnels[k] = "closing"
     /\ tunnels' = [tunnels EXCEPT ![k] = "idle"] /\ UNCHANGED activeTunnels

TunnelEnds(k) ==
  /\ TornDown(k)
  /\ UNCHANGED <<registered, controlCalls, incarnation, daemonUp>>

\* Mutant of Deadline: a dial has its deadline, an open tunnel only the idle one,
\* which traffic resets.
DeadlineWhenIdle(k) == tunnels[k] \in {"dialling", "closing"} /\ TunnelEnds(k)

\* The connect deadline of a dial, the absolute one of an open tunnel, and the
\* close that follows.
Deadline(k) == TunnelEnds(k)

ProxyNext ==
  \/ Registers \/ Withdraws \/ DaemonDies \/ RegistrationLapses \/ Pruned \/ ProxyRestarts
  \/ \E call \in controlCalls : CallArrives(call) \/ CallAborted(call)
  \/ \E k \in Tunnels :
       Connects(k) \/ Dials(k) \/ ResolveRefused(k) \/ TunnelOpens(k) \/ TunnelEnds(k)

\* The timers of the proxy fire, names resolve or time out, and a call ends.
ProxyFairness ==
  /\ WF_proxy(RegistrationLapses) /\ WF_proxy(\E call \in controlCalls : CallArrives(call) \/ CallAborted(call))
  /\ \A k \in Tunnels : WF_proxy(Dials(k) \/ ResolveRefused(k)) /\ WF_proxy(Deadline(k))

ProxySpec == ProxyInit /\ [][ProxyNext]_proxy /\ ProxyFairness

-----------------------------------------------------------------------------
\* The counter the cap is measured by is the number of tunnels, however often the
\* teardown of one is run.
SlotsAreExact == activeTunnels = Cardinality(Tunnelled)

\* Egress is authorised for a bounded time: when the daemon is gone, whatever its
\* last calls were and whenever they arrive, there comes a time from which the job
\* has no registration it can use and no tunnel.
DeadDaemonLeavesNothing ==
  <>[](daemonUp \/ (Tunnelled = {} /\ \A token \in 1..MaxIncarnations : ~Authorised(token)))
=============================================================================
