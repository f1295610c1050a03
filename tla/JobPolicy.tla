----------------------------- MODULE JobPolicy -----------------------------
(***************************************************************************)
(* The policy of a job on its way from configuration to a container: the   *)
(* middleware derives it from the repository row, the daemon judges it anew*)
(* and adds what it owns, the egress proxy compiles the allowlist.  A host *)
(* is the class its spelling falls in: what the tests of the classifiers   *)
(* tell apart.  The classifier is written down three times in the code,    *)
(* twice over one test of internal addresses and once over another.        *)
(***************************************************************************)
EXTENDS FiniteSets, Naturals

CONSTANTS BaseEntries,    \* entries DEV_EGRESS_BASE_ALLOWLIST may have
          RepoEntries,    \* entries dev_repos.egress_allowlist may have
          MaxEntries      \* MAX_EGRESS_ENTRIES of the daemon, half of the proxy's cap

ASSUME PolicyAssumption ==
  IsFiniteSet(BaseEntries) /\ IsFiniteSet(RepoEntries) /\ MaxEntries \in Nat \ {0}

VARIABLES
  inputs,   \* configuration and repository row the policy is derived from
  stage,    \* how far the policy has come
  policy,   \* what is handed on: image, hosts, environment keys
  hosts     \* the allowlist the proxy compiled: exact names, and suffixes of wildcards

admission == <<inputs, stage, policy, hosts>>

\* Spellings.  "internal" is a name inside the deployment, "spelled" another spelling of
\* a plain name (case, trailing dot), "lookalike" a name that begins as an internal
\* address does (10.example.com, fda.gov), "address" and "private" are IPv4 literals,
\* "rewritten" is a number a URL turns into a public one, "unlabelled" has a label no
\* DNS name has though a URL takes it; "shaped" has a scheme, port, path or empty label.
Classes == {"plain", "forge", "internal", "spelled", "lookalike", "address", "private",
            "rewritten", "unlabelled", "wildcard", "shaped"}

\* isInternalIp: the middleware's asks for four octets, the daemon's and the proxy's,
\* which share theirs, look at how the text begins.
MiddlewareInternal == {"private"}
DaemonInternal == {"private", "lookalike"}

\* classifyEgressEntry: what is refused given such a test, and what the rest stands for.
Rejected(internalIps) == {"shaped", "wildcard", "rewritten", "address", "unlabelled"} \cup internalIps
Canonical(entry) == IF entry = "spelled" THEN "plain" ELSE entry
AllCanonical(entries) == {Canonical(entry) : entry \in entries}

\* forgeHostsFromCloneUrl: a URL that is refused, and the hosts of one that is not; an
\* address or a wildcard is not looked for.
CloneRefused == {"internal", "shaped"} \cup MiddlewareInternal
ForgeHosts(clone) ==
  IF clone = "forge" THEN {"forge", "codeload"}
  ELSE {IF clone = "rewritten" THEN "address" ELSE Canonical(clone)}

OwnedKeys == {"base url", "job id", "workspace", "cli", "proxy"}
AllowedKeys == {"token", "pipeline mode", "llm base url", "quiet"}
AnthropicHosts == {"anthropic"}

\* The runner image of the deployment: pinned by digest, by a malformed digest, by a
\* tag alone, or of a repository the daemon does not list.
Images == {"pinned", "stub", "tagged", "unlisted"}

NoPolicy == [image |-> "none", hosts |-> {}, env |-> {}]
NoHosts == [exact |-> {}, suffixes |-> {}]

PolicyInit ==
  /\ inputs \in [middleware: Classes, clone: Classes, base: SUBSET BaseEntries,
                 repo: SUBSET RepoEntries, subscription: BOOLEAN, image: Images, requireDigest: BOOLEAN]
  /\ stage = "row" /\ policy = NoPolicy /\ hosts = NoHosts

\* Mutant of Validated: entries are taken over as they are written.
AsWritten(entries) == entries

\* pushValidatedHosts: what is no bare host name is dropped, the rest is canonical.
Validated(entries) == AllCanonical(entries \ Rejected(MiddlewareInternal))

\* deriveJobPolicy: the middleware host and the forge are trusted as they are.
DerivedHosts(in) ==
  {in.middleware} \cup ForgeHosts(in.clone) \cup Validated(in.base) \cup Validated(in.repo)
    \cup (IF in.subscription THEN AnthropicHosts ELSE {})

DerivedEnv(in) == {"pipeline mode", IF in.subscription THEN "quiet" ELSE "llm base url"}

\* The route derives the policy and adds the token it reissues; or answers 500.
Derive ==
  /\ stage = "row"
  /\ \/ /\ inputs.clone \notin CloneRefused /\ stage' = "derived"
        /\ policy' = [image |-> inputs.image, hosts |-> DerivedHosts(inputs),
                      env |-> DerivedEnv(inputs) \cup {"token"}]
     \/ inputs.clone \in CloneRefused /\ stage' = "underivable" /\ UNCHANGED policy
  /\ UNCHANGED <<inputs, hosts>>

\* The lookup has no usable answer: it is not configured, the job or its repository is
\* gone, the middleware is out of reach or too slow, or the body is no policy.  That
\* the echoed id differs cannot be: the route echoes the job it was asked about.
LookupFails ==
  /\ stage \in {"row", "derived"} /\ stage' = "failed"
  /\ UNCHANGED <<inputs, policy, hosts>>

\* assertPolicyImage: a listed repository, and a well-formed digest where one is required.
ImageAdmitted ==
  inputs.image # "unlisted" /\ (inputs.requireDigest => inputs.image = "pinned")

\* assertPolicyEnv and assertPolicyEgress: one bad key or entry refuses all of it.
Admissible ==
  /\ ImageAdmitted
  /\ policy.env \cap OwnedKeys = {} /\ policy.env \subseteq AllowedKeys
  /\ Cardinality(policy.hosts) <= MaxEntries /\ policy.hosts \cap Rejected(DaemonInternal) = {}

\* fetchJobPolicy: what passes goes on canonical, with the daemon's own keys.
Clamp ==
  /\ stage = "derived"
  /\ \/ /\ Admissible /\ stage' = "clamped"
        /\ policy' = [policy EXCEPT !.hosts = AllCanonical(@), !.env = @ \cup OwnedKeys]
     \/ ~Admissible /\ stage' = "refused" /\ UNCHANGED policy
  /\ UNCHANGED <<inputs, hosts>>

\* compileAllowlist: a wildcard is taken by its suffix, any other entry as the daemon
\* takes it; one that is not taken fails the registration, and the create with it.
Wildcards == policy.hosts \cap {"wildcard"}
Compilable ==
  /\ (policy.hosts \ Wildcards) \cap Rejected(DaemonInternal) = {}
  /\ Cardinality(policy.hosts) <= 2 * MaxEntries

Compile ==
  /\ stage = "clamped"
  /\ stage' = IF Compilable THEN "started" ELSE "unregistered"
  /\ hosts' = IF Compilable
              THEN [exact    |-> AllCanonical(policy.hosts \ Wildcards),
                    suffixes |-> {"plain" : w \in Wildcards}]
              ELSE hosts
  /\ UNCHANGED <<inputs, policy>>

\* The row is edited and the deployment reconfigured at any time: the next job has it.
NextJob ==
  /\ stage \in {"started", "unregistered", "refused", "underivable", "failed"} /\ stage' = "row"
  /\ policy' = NoPolicy /\ hosts' = NoHosts
  /\ \/ inputs' = [inputs EXCEPT !.subscription = ~@]
     \/ \E image \in Images : inputs' = [inputs EXCEPT !.image = image]

PolicyNext == Derive \/ LookupFails \/ Clamp \/ Compile \/ NextJob

PolicySpec == PolicyInit /\ [][PolicyNext]_admission

-----------------------------------------------------------------------------
\* The middleware's classifier would take the names it does not look at.
TrustedArePlain == {inputs.middleware, inputs.clone} \cap Rejected(MiddlewareInternal) = {}

TooLong == Cardinality(policy.hosts) > MaxEntries

\* The two sides agree on everything but the look-alikes of internal addresses: a
\* policy the middleware derives from names it may trust and from any allowlist is
\* refused by the daemon only for its image or its length, the proxy never refuses
\* what the daemon admits, and what it then lets through is what was derived, entry
\* for entry, and no suffix.
DerivedIsAdmitted ==
  /\ stage = "refused" /\ ImageAdmitted /\ TrustedArePlain /\ "lookalike" \notin policy.hosts => TooLong
  /\ stage # "unregistered"
  /\ stage = "started" => hosts = [exact |-> AllCanonical(DerivedHosts(inputs)), suffixes |-> {}]
=============================================================================
