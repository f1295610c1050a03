----------------------------- MODULE Onboarding -----------------------------
(***************************************************************************)
(* Repositories and GitHub Apps are onboarded: rows in the database,       *)
(* secrets in the vault, nothing spanning both.  POST /repos, DELETE and   *)
(* the App callback are sequences of awaited steps that other requests     *)
(* and a crash of the process interleave with.                             *)
(***************************************************************************)
EXTENDS FiniteSets, Naturals

CONSTANTS Adds,           \* POST /repos requests; each names its own repository
          Callbacks,      \* GET /github-app/callback requests
          MaxOnboardFaults  \* failed vault writes, commits and crashes together

ASSUME OnboardingAssumption == MaxOnboardFaults \in Nat

VARIABLES
  adds,       \* the POST /repos requests
  repoRows,   \* dev_repos: none, or the reference and installation it is bound to
  repoVault,  \* the token stored for each repository
  deletes,    \* DELETE /repos/:id requests
  outrun,  \* repositories deleted while their POST was still under way
  connect,    \* the operator's device flow and the token parked by it
  flow,       \* the manifest flow the store holds
  callbacks,  \* callback requests
  app,        \* the App's row, its secrets, its installation; a commit whose answer was lost
  onboardFaults

onboarding == <<adds, repoRows, repoVault, deletes, outrun, connect, flow, callbacks, app, onboardFaults>>

NoRepo == [exists |-> FALSE, ref |-> "none", branch |-> "unknown"]

OnboardingInit ==
  /\ adds = [a \in Adds |-> [at |-> "idle", kind |-> "pat"]]
  /\ repoRows = [a \in Adds |-> NoRepo] /\ repoVault = [a \in Adds |-> FALSE]
  /\ deletes = [a \in Adds |-> "idle"] /\ outrun = {}
  /\ connect = [flow |-> FALSE, parked |-> FALSE, ended |-> FALSE] /\ flow = "none"
  /\ callbacks = [c \in Callbacks |-> "idle"]
  /\ app = [row |-> FALSE, secrets |-> FALSE, installed |-> FALSE, unclear |-> FALSE]
  /\ onboardFaults = 0

OnboardFault == onboardFaults < MaxOnboardFaults /\ onboardFaults' = onboardFaults + 1
RepoSide == <<adds, repoRows, repoVault, deletes, outrun, connect>>
AppSide == <<flow, callbacks, app>>

AddAt(a, from, to) == adds[a].at = from /\ adds' = [adds EXCEPT ![a].at = to]

-----------------------------------------------------------------------------
\* The device flow of one operator: a code is asked for, and polled until GitHub has
\* an answer; the token is parked, then the flow is dropped.
ConnectStarts ==
  /\ ~connect.flow /\ ~connect.ended /\ connect' = [connect EXCEPT !.flow = TRUE]
  /\ UNCHANGED <<adds, repoRows, repoVault, deletes, outrun, onboardFaults, AppSide>>

ConnectPolled ==
  /\ connect.flow
  /\ \E authorized \in BOOLEAN :
       connect' = [flow |-> FALSE, parked |-> connect.parked \/ authorized, ended |-> authorized]
  /\ UNCHANGED <<adds, repoRows, repoVault, deletes, outrun, onboardFaults, AppSide>>

\* POST /repos with a PAT or the parked token; the access probe may refuse it, and the
\* parked token stays.
AddValidated(a) ==
  /\ AddAt(a, "idle", "probed")
     \/ (connect.parked /\ adds[a].at = "idle" /\ adds' = [adds EXCEPT ![a] = [at |-> "probed", kind |-> "device"]])
  /\ UNCHANGED <<repoRows, repoVault, deletes, outrun, connect, onboardFaults, AppSide>>

\* createRepo: the row refers to a key that is not yet its own.
RepoCreated(a) ==
  /\ AddAt(a, "probed", "created")
  /\ repoRows' = [repoRows EXCEPT ![a] = [NoRepo EXCEPT !.exists = TRUE, !.ref = "pending"]]
  /\ UNCHANGED <<repoVault, deletes, outrun, connect, onboardFaults, AppSide>>

\* updateRepo: nothing is changed when the row is gone.
RefPatched(a) ==
  /\ AddAt(a, "created", "patched")
  /\ repoRows' = [repoRows EXCEPT ![a].ref = IF repoRows[a].exists THEN "own" ELSE @]
  /\ UNCHANGED <<repoVault, deletes, outrun, connect, onboardFaults, AppSide>>

\* credentials.save, or promotePending, which finds nothing when another request was
\* first; the row may have been deleted meanwhile.
TokenStored(a) ==
  /\ AddAt(a, "patched", "stored")
  /\ repoVault' = [repoVault EXCEPT ![a] = @ \/ adds[a].kind = "pat" \/ connect.parked]
  /\ connect' = IF adds[a].kind = "device" THEN [connect EXCEPT !.parked = FALSE] ELSE connect
  /\ UNCHANGED <<repoRows, deletes, outrun, onboardFaults, AppSide>>

\* The branch protection is looked at with the stored token; POST :id/check does it anew.
ProtectionChecked(a) ==
  /\ \/ AddAt(a, "stored", "answered")
     \/ adds[a].at = "answered" /\ UNCHANGED adds
  /\ repoRows' = IF repoRows[a].exists /\ repoVault[a]
                 THEN [repoRows EXCEPT ![a].branch = "checked"] ELSE repoRows
  /\ UNCHANGED <<repoVault, deletes, outrun, connect, onboardFaults, AppSide>>

\* DELETE /repos/:id: the row is read, the vault keys purged, then the row dropped.
DeleteClears(a) ==
  /\ deletes[a] = "idle" /\ repoRows[a].exists
  /\ deletes' = [deletes EXCEPT ![a] = "cleared"]
  /\ repoVault' = [repoVault EXCEPT ![a] = FALSE]
  /\ outrun' = IF adds[a].at \in {"answered", "cut"} THEN outrun ELSE outrun \cup {a}
  /\ UNCHANGED <<adds, repoRows, connect, onboardFaults, AppSide>>

DeleteDrops(a) ==
  /\ deletes[a] = "cleared" /\ deletes' = [deletes EXCEPT ![a] = "idle"]
  /\ repoRows' = [repoRows EXCEPT ![a] = NoRepo]
  /\ UNCHANGED <<adds, repoVault, outrun, connect, onboardFaults, AppSide>>

-----------------------------------------------------------------------------
\* POST manifest/start: a fresh state; consume takes it out, also when it has expired.
ManifestStarts ==
  /\ flow = "none" /\ flow' = "pending" /\ UNCHANGED <<callbacks, app, onboardFaults, RepoSide>>

FlowExpires == flow = "pending" /\ flow' = "expired" /\ UNCHANGED <<callbacks, app, onboardFaults, RepoSide>>

CallbackConsumes(c) ==
  /\ callbacks[c] = "idle"
  /\ callbacks' = [callbacks EXCEPT ![c] = IF flow = "pending" THEN "consumed" ELSE "refused"]
  /\ flow' = IF flow \in {"pending", "expired"} THEN "spent" ELSE flow
  /\ UNCHANGED <<app, onboardFaults, RepoSide>>

\* exchangeManifestCode: GitHub has created the App, or the callback ends.
CodeExchanged(c) ==
  /\ callbacks[c] = "consumed"
  /\ \E to \in {"converted", "refused"} : callbacks' = [callbacks EXCEPT ![c] = to]
  /\ UNCHANGED <<flow, app, onboardFaults, RepoSide>>

\* Mutant of SecretsWritten: the row is committed before the secrets are written.
CommittedBefore(c) ==
  /\ callbacks[c] = "converted"
  /\ callbacks' = [callbacks EXCEPT ![c] = "written"] /\ app' = [app EXCEPT !.row = TRUE]
  /\ UNCHANGED <<flow, onboardFaults, RepoSide>>

\* saveApp: the row is inserted in the open transaction, the secrets written key by key.
SecretsWritten(c) ==
  /\ callbacks[c] = "converted"
  /\ callbacks' = [callbacks EXCEPT ![c] = "written"] /\ app' = [app EXCEPT !.secrets = TRUE]
  /\ UNCHANGED <<flow, onboardFaults, RepoSide>>

\* A vault write fails: the insert is rolled back, earlier keys stay.
VaultFails(c) ==
  /\ callbacks[c] = "converted" /\ OnboardFault
  /\ callbacks' = [callbacks EXCEPT ![c] = "refused"] /\ UNCHANGED <<flow, app, RepoSide>>

SaveCommits(c) ==
  /\ callbacks[c] = "written"
  /\ callbacks' = [callbacks EXCEPT ![c] = "saved"] /\ app' = [app EXCEPT !.row = TRUE]
  /\ UNCHANGED <<flow, onboardFaults, RepoSide>>

\* COMMIT fails, or only its answer is lost: the secrets are deleted in both cases.
SaveFails(c) ==
  /\ callbacks[c] = "written" /\ OnboardFault
  /\ callbacks' = [callbacks EXCEPT ![c] = "refused"]
  /\ \E applied \in BOOLEAN :
       app' = [app EXCEPT !.row = @ \/ applied, !.secrets = FALSE, !.unclear = @ \/ applied]
  /\ UNCHANGED <<flow, RepoSide>>

\* GET setup: the App whose JWT finds the installation owns it; an App without secrets
\* is passed over.
InstallationSet ==
  /\ app.row /\ app.secrets /\ app' = [app EXCEPT !.installed = TRUE]
  /\ UNCHANGED <<flow, callbacks, onboardFaults, RepoSide>>

\* POST /repos/:id/credential: the installation is known, its App usable and covers the
\* repository; the row is bound unless it is gone.
Bound(a) ==
  /\ app.installed /\ app.row /\ app.secrets /\ repoRows[a].exists
  /\ repoRows' = [repoRows EXCEPT ![a].ref = "github app", ![a].branch = "checked"]
  /\ UNCHANGED <<adds, repoVault, deletes, outrun, connect, onboardFaults, AppSide>>

\* The process ends: requests under way, flows and device codes are gone, rows,
\* secrets and the parked token stay.
ProcessCrashes ==
  /\ OnboardFault
  /\ adds' = [a \in Adds |-> IF adds[a].at \in {"idle", "answered"} THEN adds[a]
                             ELSE [adds[a] EXCEPT !.at = "cut"]]
  /\ deletes' = [a \in Adds |-> "idle"]
  /\ callbacks' = [c \in Callbacks |-> IF callbacks[c] \in {"idle", "saved"} THEN callbacks[c] ELSE "refused"]
  /\ flow' = (IF flow = "none" THEN flow ELSE "spent")
  /\ connect' = [connect EXCEPT !.flow = FALSE]
  /\ UNCHANGED <<repoRows, repoVault, outrun, app>>

OnboardingNext ==
  \/ ConnectStarts \/ ConnectPolled \/ ManifestStarts \/ FlowExpires \/ InstallationSet \/ ProcessCrashes
  \/ \E a \in Adds : \/ AddValidated(a) \/ RepoCreated(a) \/ RefPatched(a) \/ TokenStored(a)
                     \/ ProtectionChecked(a) \/ DeleteClears(a) \/ DeleteDrops(a) \/ Bound(a)
  \/ \E c \in Callbacks : \/ CallbackConsumes(c) \/ CodeExchanged(c) \/ SecretsWritten(c) \/ VaultFails(c)
                          \/ SaveCommits(c) \/ SaveFails(c)

OnboardingSpec == OnboardingInit /\ [][OnboardingNext]_onboarding

-----------------------------------------------------------------------------
\* Rows and secrets stay together although no transaction spans both: an App that has a
\* row can be authenticated, unless the answer to its commit was lost; and a stored
\* token has its row, unless the repository was deleted while it was being added.
SecretsFollowRows ==
  /\ app.row => app.secrets \/ app.unclear
  /\ \A a \in Adds : repoVault[a] => repoRows[a].exists \/ a \in outrun
=============================================================================
