---------------------------- MODULE DevJobClaims ----------------------------
(***************************************************************************)
(* What comments and documents of the repository say of the dev-job        *)
(* lifecycle, and what the code does not keep.                             *)
(***************************************************************************)
EXTENDS DevJobProperties

\* "await_human / pr are host-only - never handed to a runner."
HostPhasesStayHome ==
  \A c \in Claims : runners[c].stage = "work" => runners[c].phase \in Runnable

\* "A gated job runs over TWO provisions, each a separate container": a handle is
\* attached to a row for a runner that was started under the row's lease.
ProvisionsAreSeparate ==
  \A j \in Jobs :
    (jobs[j].status = "provisioning" /\ jobs[j].handle # 0) =>
      runners[jobs[j].lease].stage # "none"
=============================================================================
