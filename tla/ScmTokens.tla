----------------------------- MODULE ScmTokens -----------------------------
(***************************************************************************)
(* The scoped clone tokens of one job: the one-shot route that mints them, *)
(* the per-job registry that remembers them, and the revoker that runs when*)
(* the job is parked or finalized, beside a mint still under way and other *)
(* runs of it: a parked job may be cancelled, a failed one may be applied  *)
(* again.                                                                  *)
(***************************************************************************)
EXTENDS Naturals, FiniteSets

CONSTANTS Asks,          \* requests the runner may have under way
          Revokers,      \* runs of the revoker that may be under way
          MaxTokens,     \* bound: tokens minted
          MaxProvisions, \* bound: provisions of the job
          MaxTokenFaults \* bound: calls that fail, and restarts

ASSUME TokenAssumption ==
  /\ MaxTokens \in Nat /\ MaxProvisions \in Nat \ {0} /\ MaxTokenFaults \in Nat

VARIABLES
  scmJob,     \* live, parked or ended, and its provision
  asks,       \* each request: where it is, the provision and token it has
  issued,     \* issuedScmTokens: provisions with a reservation
  handed,     \* ghost: tokens handed to the runner, by provision
  minted,     \* state of each token at GitHub
  listOf,     \* the list each token was pushed to, named by its first token, or 0
  byJob,      \* the list JobTokenRegistry holds for the job, or 0
  taken,      \* tokens whose record is marked revoked
  revoking,   \* each run of the revoker: the list it iterates over and the token it is at
  excused,    \* ghost: tokens whose revocation failed, came late or was forgotten
  tokenFaults

scm == <<scmJob, asks, issued, handed, minted, listOf, byJob, taken, revoking, excused, tokenFaults>>

TokenIds == 1..MaxTokens
NoAsk == [pc |-> "idle", provision |-> 0, token |-> 0]
NoPassYet == [pc |-> "none", list |-> 0, token |-> 0]

ScmInit ==
  /\ scmJob = [status |-> "live", provision |-> 1]
  /\ asks = [a \in Asks |-> NoAsk] /\ issued = {} /\ handed = [n \in 1..MaxProvisions |-> 0]
  /\ minted = [t \in TokenIds |-> "none"] /\ listOf = [t \in TokenIds |-> 0]
  /\ byJob = 0 /\ taken = {} /\ revoking = [r \in Revokers |-> NoPassYet]
  /\ excused = {} /\ tokenFaults = 0

Asking(a, pc) == asks[a].pc = pc

\* Mutant of TokenAsked: the provision is reserved when the answer is sent.
AskedUnreserved(a) ==
  /\ Asking(a, "idle") /\ scmJob.status = "live" /\ scmJob.provision \notin issued
  /\ asks' = [asks EXCEPT ![a] = [pc |-> "mint", provision |-> scmJob.provision, token |-> 0]]
  /\ UNCHANGED <<scmJob, issued, handed, minted, listOf, byJob, taken, revoking, excused, tokenFaults>>

\* The provision is reserved before anything is awaited.  Any other request gets
\* 409, or 410 after the end.
TokenAsked(a) ==
  /\ Asking(a, "idle") /\ scmJob.status = "live" /\ scmJob.provision \notin issued
  /\ issued' = issued \cup {scmJob.provision}
  /\ asks' = [asks EXCEPT ![a] = [pc |-> "mint", provision |-> scmJob.provision, token |-> 0]]
  /\ UNCHANGED <<scmJob, handed, minted, listOf, byJob, taken, revoking, excused, tokenFaults>>

TokenMinted(a) ==
  /\ Asking(a, "mint")
  /\ \E t \in TokenIds :
       /\ minted[t] = "none" /\ minted' = [minted EXCEPT ![t] = "live"]
       /\ asks' = [asks EXCEPT ![a].pc = "record", ![a].token = t]
  /\ UNCHANGED <<scmJob, issued, handed, listOf, byJob, taken, revoking, excused, tokenFaults>>

Walks(r, list) == revoking[r].pc \in {"walk", "revoke"} /\ revoking[r].list = list
Due == \E r \in Revokers : revoking[r].pc = "due"

\* The push is synchronous, the audit event after it is not.  It goes to the list of the
\* job, or to a new one.  Of a job that left, it is too late if no run is to come or under
\* way on that list.
TokenRecorded(a) ==
  /\ Asking(a, "record")
  /\ LET t == asks[a].token
         list == IF byJob = 0 THEN t ELSE byJob
     IN /\ listOf' = [listOf EXCEPT ![t] = list] /\ byJob' = list
        /\ excused' = IF scmJob.status = "live" \/ Due \/ \E r \in Revokers : Walks(r, list)
                      THEN excused ELSE excused \cup {t}
  /\ asks' = [asks EXCEPT ![a].pc = "send"]
  /\ UNCHANGED <<scmJob, issued, handed, minted, taken, revoking, tokenFaults>>

TokenSent(a) ==
  /\ Asking(a, "send")
  /\ handed' = [handed EXCEPT ![asks[a].provision] = @ + 1]
  /\ asks' = [asks EXCEPT ![a] = NoAsk]
  /\ UNCHANGED <<scmJob, issued, minted, listOf, byJob, taken, revoking, excused, tokenFaults>>

\* The mint, the audit event or the send fails: the reservation is rolled back.
\* A mint whose answer is lost leaves a token nobody knows.
AskFails(a) ==
  /\ asks[a].pc \in {"mint", "send"} /\ tokenFaults < MaxTokenFaults
  /\ tokenFaults' = tokenFaults + 1
  /\ issued' = issued \ {asks[a].provision} /\ asks' = [asks EXCEPT ![a] = NoAsk]
  /\ \/ UNCHANGED <<minted, excused>>
     \/ /\ Asking(a, "mint")
        /\ \E t \in TokenIds : /\ minted[t] = "none" /\ minted' = [minted EXCEPT ![t] = "live"]
                               /\ excused' = excused \cup {t}
  /\ UNCHANGED <<scmJob, handed, listOf, byJob, taken, revoking>>

-----------------------------------------------------------------------------
\* The job is parked at a gate or over; or a parked one is ended, or a failed one that
\* was applied again.  Each runs the revoker, behind statements of its own.
JobLeaves ==
  /\ scmJob' \in {[scmJob EXCEPT !.status = s] :
                     s \in IF scmJob.status = "live" THEN {"parked", "over"} ELSE {"over"}}
  /\ \E r \in Revokers : /\ revoking[r] = NoPassYet
                         /\ revoking' = [revoking EXCEPT ![r].pc = "due"]
  /\ UNCHANGED <<asks, issued, handed, minted, listOf, byJob, taken, excused, tokenFaults>>

\* It is provisioned again after the gate, also while its revoker still runs.
JobReturns ==
  /\ scmJob.status = "parked" /\ scmJob.provision < MaxProvisions
  /\ scmJob' = [status |-> "live", provision |-> scmJob.provision + 1]
  /\ UNCHANGED <<asks, issued, handed, minted, listOf, byJob, taken, revoking, excused, tokenFaults>>

\* The revoker returns at once if the job has no list, and else iterates over it.
RevokerStarts(r) ==
  /\ revoking[r].pc = "due"
  /\ revoking' = [revoking EXCEPT ![r] = IF byJob = 0 THEN NoPassYet
                                          ELSE [pc |-> "walk", list |-> byJob, token |-> 0]]
  /\ UNCHANGED <<scmJob, asks, issued, handed, minted, listOf, byJob, taken, excused, tokenFaults>>

RecordsOf(list) == {t \in TokenIds : listOf[t] = list}

\* Mutant of LeftToRevoke: a revocation that fails ends the loop.
LeftUntilFailure(list) ==
  IF RecordsOf(list) \cap taken \cap excused = {} THEN RecordsOf(list) \ taken ELSE {}

\* What is not marked in a list, which a record may still be pushed to.
LeftToRevoke(list) == RecordsOf(list) \ taken

\* Marked first, by whichever run comes first, and then revoked at GitHub.
RevokeSent(r) ==
  /\ revoking[r].pc = "walk"
  /\ \E t \in LeftToRevoke(revoking[r].list) :
       /\ taken' = taken \cup {t}
       /\ revoking' = [revoking EXCEPT ![r].pc = "revoke", ![r].token = t]
  /\ UNCHANGED <<scmJob, asks, issued, handed, minted, listOf, byJob, excused, tokenFaults>>

\* A failure is recorded and not retried.
RevokeAnswered(r) ==
  /\ revoking[r].pc = "revoke"
  /\ LET t == revoking[r].token IN
     \/ minted' = [minted EXCEPT ![t] = "dead"] /\ UNCHANGED <<excused, tokenFaults>>
     \/ /\ minted[t] = "live" /\ tokenFaults < MaxTokenFaults
        /\ tokenFaults' = tokenFaults + 1 /\ excused' = excused \cup {t}
        /\ UNCHANGED minted
  /\ revoking' = [revoking EXCEPT ![r].pc = "walk", ![r].token = 0]
  /\ UNCHANGED <<scmJob, asks, issued, handed, listOf, byJob, taken>>

\* The list of the job is dropped, which may be another one by now: a faster run
\* dropped the one this run has gone through, and a record began anew.
Dropped ==
  IF byJob = 0 \/ \E q \in Revokers : Walks(q, byJob) THEN {} ELSE RecordsOf(byJob)

RevokerDone(r) ==
  /\ revoking[r].pc = "walk" /\ LeftToRevoke(revoking[r].list) = {}
  /\ excused' = excused \cup Dropped
  /\ byJob' = 0 /\ revoking' = [revoking EXCEPT ![r] = NoPassYet]
  /\ UNCHANGED <<scmJob, asks, issued, handed, minted, listOf, taken, tokenFaults>>

TokenExpires(t) ==
  /\ minted[t] = "live" /\ minted' = [minted EXCEPT ![t] = "dead"]
  /\ UNCHANGED <<scmJob, asks, issued, handed, listOf, byJob, taken, revoking, excused, tokenFaults>>

\* A restart loses the registry, the reservations and the requests.
HostRestarts ==
  /\ tokenFaults < MaxTokenFaults /\ tokenFaults' = tokenFaults + 1
  /\ excused' = {t \in TokenIds : minted[t] # "none"}
  /\ listOf' = [t \in TokenIds |-> 0] /\ byJob' = 0 /\ taken' = {}
  /\ revoking' = [r \in Revokers |-> NoPassYet]
  /\ issued' = {} /\ asks' = [a \in Asks |-> NoAsk] /\ handed' = [n \in 1..MaxProvisions |-> 0]
  /\ UNCHANGED <<scmJob, minted>>

ScmNext ==
  \/ \E a \in Asks : TokenAsked(a) \/ TokenMinted(a) \/ TokenRecorded(a) \/ TokenSent(a) \/ AskFails(a)
  \/ JobLeaves \/ JobReturns \/ HostRestarts
  \/ \E r \in Revokers : RevokerStarts(r) \/ RevokeSent(r) \/ RevokeAnswered(r) \/ RevokerDone(r)
  \/ \E t \in TokenIds : TokenExpires(t)

ScmSpec == ScmInit /\ [][ScmNext]_scm

-----------------------------------------------------------------------------
\* One clone token per provision and life of the process, however many requests
\* are made at the same time and whatever fails before the answer is sent.
OneTokenPerProvision == \A n \in 1..MaxProvisions : handed[n] <= 1

\* Once every run of the revoker has ended, a token of a job that left is dead unless its
\* revocation failed, it was minted or recorded after them, or forgotten by a restart or
\* with a list that nobody had gone through: a record that is pushed to a list a run
\* iterates over is still reached, and a mark of one run does not hide it from another
\* that ends first.
RegisteredTokensDie ==
  scmJob.status # "live" /\ (\A r \in Revokers : revoking[r] = NoPassYet)
    => \A t \in TokenIds : minted[t] = "live" =>
         t \in excused \/ \E a \in Asks : asks[a].token = t /\ asks[a].pc = "record"
=============================================================================
