---------------------------- MODULE MCDeployment ----------------------------
(***************************************************************************)
(* Instances of Deployment for TLC and the properties its runs check.      *)
(***************************************************************************)
EXTENDS Deployment, TLC

CONSTANTS c1, c2, c3

Symmetry == Permutations(Clients)

Release(commit, requester) == [commit |-> commit, requested_by |-> requester]
OneRelease == {Release("a", "api")}
\* The same release ID asked for another commit.
TwoReleases == {Release("a", "api"), Release("b", "api")}

MCRunFacts == [v |-> [status |-> "passed", commit |-> "a"],
               other |-> [status |-> "failed", commit |-> "a"]]
MCTraceFacts == [t |-> [count |-> 1, commit |-> "a"]]

\* The payload of create_deployment: its window, policy and telemetry flags.
Canary(complete, errors, runs, traces) ==
  [window      |-> [minimum_samples |-> 1, deadline_at |-> IF complete THEN 0 ELSE 1],
   observation |-> [validation_passed |-> TRUE, telemetry_available |-> TRUE,
                    telemetry_age_seconds |-> 0, sample_count |-> 1,
                    error_rate |-> errors, latency_ms |-> 0, observed_at |-> 0],
   policy      |-> [max_error_rate |-> 0, max_latency_ms |-> 0, minimum_samples |-> 1,
                    telemetry_max_age_seconds |-> 0],
   runs |-> runs, traces |-> traces]

Healthy == Canary(TRUE, 0, {"v", "other"}, {"t"})
Waiting == Canary(FALSE, 0, {"v"}, {"t"})
Failing == Canary(TRUE, 1, {"v"}, {"t"})
Unlinked == Canary(TRUE, 0, {"other", "unknown"}, {"t"})

AllCanaries == {Healthy, Waiting, Failing, Unlinked}
FewCanaries == {Healthy, Failing}
=============================================================================
