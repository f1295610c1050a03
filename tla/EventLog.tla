------------------------------ MODULE EventLog ------------------------------
(***************************************************************************)
(* The event log of one job and a stream of it.  Several writers append:   *)
(* the runner's batches, the host's own events, the truncation marker.  An *)
(* identity is taken when an INSERT starts and seen when it commits, and   *)
(* the committed event is published on the in-process bus afterwards, so   *)
(* neither commits nor publications follow the order of identities.        *)
(***************************************************************************)
EXTENDS Naturals, FiniteSets, Sequences

CONSTANTS Writers,
          MaxEvents,    \* DEV_JOB_MAX_EVENTS: the cap of low-value telemetry
          ReplayPage,   \* events in one page of a replay
          MaxId,        \* bound: identities taken
          MaxDrops,     \* bound: connections lost
          MaxTries      \* attempts at a host sequence number

ASSUME EventLogAssumption ==
  /\ MaxEvents \in Nat /\ ReplayPage \in Nat \ {0} /\ MaxId \in Nat
  /\ MaxDrops \in Nat /\ MaxTries \in Nat \ {0}

VARIABLES
  log,        \* committed events, by identity: their kind, or none
  nextId,
  writers,    \* each writer: where it is, its event's kind and identity, its tries
  overtaken,  \* ghost: events committed or published after one with a greater identity
  stream,     \* the stream: where it is, the last identity sent, what it has read and buffered
  received,   \* ghost: what the client has been sent, in order
  drops

eventLog == <<log, nextId, writers, overtaken, stream, received, drops>>

EventIds == 1..MaxId
Stored == {i \in EventIds : log[i] # "none"}
Waiting == [pc |-> "idle", kind |-> "audit", id |-> 0, tries |-> 0]
Closed == [pc |-> "closed", last |-> 0, page |-> {}, pending |-> <<>>]
Marked == \E i \in Stored : log[i] = "marker"

EventLogInit ==
  /\ log = [i \in EventIds |-> "none"] /\ nextId = 1
  /\ writers = [w \in Writers |-> Waiting] /\ overtaken = {}
  /\ stream = Closed /\ received = <<>> /\ drops = 0

Writes(w, pc) == writers[w].pc = pc

\* An append: a batch of the runner counts the log first, an event of the host
\* does not.  At the cap low-value events are and the drop is noted.
AppendStarts(w) ==
  /\ Writes(w, "idle") /\ nextId <= MaxId
  /\ \E kind \in {"low", "audit"} :
       IF kind = "low" /\ Cardinality(Stored) >= MaxEvents
         THEN writers' = [writers EXCEPT ![w] = [Waiting EXCEPT !.pc = "insert", !.kind = "marker"]]
         ELSE writers' = [writers EXCEPT ![w] = [Waiting EXCEPT !.pc = "insert", !.kind = kind]]
  /\ UNCHANGED <<log, nextId, overtaken, stream, received, drops>>

\* The NOT EXISTS of the marker's statement.
MarkerNeeded(w) == writers[w].kind # "marker" \/ ~Marked

InsertStarts(w) ==
  /\ Writes(w, "insert") /\ MarkerNeeded(w) /\ nextId <= MaxId
  /\ nextId' = nextId + 1
  /\ writers' = [writers EXCEPT ![w].pc = "commit", ![w].id = nextId]
  /\ UNCHANGED <<log, overtaken, stream, received, drops>>

MarkerThere(w) ==
  /\ Writes(w, "insert") /\ ~MarkerNeeded(w)
  /\ writers' = [writers EXCEPT ![w] = Waiting]
  /\ UNCHANGED <<log, nextId, overtaken, stream, received, drops>>

MarkerUnique(w) == writers[w].kind # "marker" \/ ~Marked

InsertCommits(w) ==
  /\ Writes(w, "commit") /\ MarkerUnique(w)
  /\ log' = [log EXCEPT ![writers[w].id] = writers[w].kind]
  /\ overtaken' = overtaken \cup (IF \E i \in Stored : i > writers[w].id THEN {writers[w].id} ELSE {})
  /\ writers' = [writers EXCEPT ![w].pc = "publish"]
  /\ UNCHANGED <<nextId, stream, received, drops>>

\* A sequence number another writer was quicker to take, or a batch sent again:
\* nothing is stored.  A host event takes the next number and tries again, the
\* marker after a look for the marker; the last try is given up.
InsertConflicts(w) ==
  /\ Writes(w, "commit")
  /\ writers[w].kind # "marker" \/ Marked \/ \E o \in Writers \ {w} : writers[o].pc # "idle"
  /\ IF writers[w].tries + 1 < MaxTries /\ ~(writers[w].kind = "marker" /\ Marked)
       THEN writers' = [writers EXCEPT ![w].pc = "insert", ![w].tries = @ + 1]
       ELSE writers' = [writers EXCEPT ![w] = Waiting]
  /\ UNCHANGED <<log, nextId, overtaken, stream, received, drops>>

-----------------------------------------------------------------------------

InPublication == {writers[w].id : w \in {w \in Writers : writers[w].pc = "publish"}}

\* writeEvent: never resend, never regress.
EventWritten(s, i) ==
  IF i > s.last THEN stream' = [s EXCEPT !.last = i] /\ received' = Append(received, i)
                ELSE stream' = s /\ UNCHANGED received

\* Mutant of Buffered: an event that is published during the replay is let go.
LetGo(s, i) == s
Buffered(s, i) == [s EXCEPT !.pending = Append(@, i)]

Replaying == stream.pc \in {"replay", "page", "tail"}

\* The bus hands the event to the stream: buffered while it replays.
Published(w) ==
  /\ Writes(w, "publish")
  /\ LET i == writers[w].id IN
     /\ \/ Replaying /\ stream' = Buffered(stream, i) /\ UNCHANGED received
        \/ stream.pc = "live" /\ EventWritten(stream, i)
        \/ stream.pc = "closed" /\ UNCHANGED <<stream, received>>
     /\ overtaken' = overtaken \cup (IF \E o \in Stored \ InPublication : o > i THEN {i} ELSE {})
  /\ writers' = [writers EXCEPT ![w] = Waiting]
  /\ UNCHANGED <<log, nextId, drops>>

\* Opened, or opened again with the Last-Event-ID of the client: subscribed
\* before the replay starts.
StreamOpens ==
  /\ stream.pc = "closed"
  /\ stream' = [stream EXCEPT !.pc = "replay"]
  /\ UNCHANGED <<log, nextId, writers, overtaken, received, drops>>

Ahead == {i \in Stored : i > stream.last}

\* Up to n of the events, and none of the others is before one of them.
FirstOf(events, n) ==
  {page \in SUBSET events : /\ \A i \in page : \A o \in events \ page : i < o
                            /\ \/ Cardinality(page) = n
                               \/ Cardinality(page) < n /\ page = events}

\* A page is read; a short one is the last.
PageRead ==
  /\ stream.pc = "replay"
  /\ \E page \in FirstOf(Ahead, ReplayPage) :
       stream' = [stream EXCEPT !.page = page,
                                !.pc = IF Cardinality(page) < ReplayPage THEN "tail" ELSE "page"]
  /\ UNCHANGED <<log, nextId, writers, overtaken, received, drops>>

\* Its events are written in ascending identities; after a full page the next is read.
PageWritten ==
  /\ stream.pc \in {"page", "tail"}
  /\ \E i \in stream.page :
       /\ \A o \in stream.page : i <= o
       /\ EventWritten([stream EXCEPT !.page = @ \ {i},
                                      !.pc = IF @ = "page" /\ stream.page = {i} THEN "replay" ELSE @], i)
  /\ UNCHANGED <<log, nextId, writers, overtaken, drops>>

\* Then the buffer, in the order of arrival.
BufferFlushed ==
  /\ stream.pc = "tail" /\ stream.page = {} /\ stream.pending # <<>>
  /\ EventWritten([stream EXCEPT !.pending = Tail(@)], Head(stream.pending))
  /\ UNCHANGED <<log, nextId, writers, overtaken, drops>>

GoesLive ==
  /\ stream.pc = "tail" /\ stream.page = {} /\ stream.pending = <<>>
  /\ stream' = [stream EXCEPT !.pc = "live"]
  /\ UNCHANGED <<log, nextId, writers, overtaken, received, drops>>

\* The connection is lost, or ended by the server as the job is over: at any event.
StreamDrops ==
  /\ stream.pc # "closed" /\ drops < MaxDrops /\ drops' = drops + 1
  /\ stream' = [Closed EXCEPT !.last = stream.last]
  /\ UNCHANGED <<log, nextId, writers, overtaken, received>>

\* Retention: low-value events go early, every event at the audit bound, both of
\* them days after the last append that was under way at the time.
Prunes ==
  /\ \E n \in Stored, all \in BOOLEAN :
       /\ \A w \in Writers : writers[w].pc \in {"commit", "publish"} => writers[w].id > n
       /\ log' = [i \in EventIds |-> IF i <= n /\ (all \/ log[i] = "low") THEN "none" ELSE log[i]]
  /\ UNCHANGED <<nextId, writers, overtaken, stream, received, drops>>

EventLogNext ==
  \/ \E w \in Writers : AppendStarts(w) \/ InsertStarts(w) \/ MarkerThere(w) \/ InsertCommits(w)
                        \/ InsertConflicts(w) \/ Published(w)
  \/ StreamOpens \/ PageRead \/ PageWritten \/ BufferFlushed \/ GoesLive \/ StreamDrops \/ Prunes

EventLogSpec == EventLogInit /\ [][EventLogNext]_eventLog

-----------------------------------------------------------------------------
Received == {received[n] : n \in 1..Len(received)}

\* Across replay, buffer, live tail and reconnects a client is sent each event at
\* most once and in the order of identities; and a live stream has sent everything
\* that was committed in order, wherever the replay was when it was committed.
StreamIsComplete ==
  /\ \A m, n \in 1..Len(received) : m < n => received[m] < received[n]
  /\ stream.pc = "live" => Stored \subseteq Received \cup overtaken \cup InPublication
=============================================================================
