---------------------------- MODULE CanaryPolicy ----------------------------
(***************************************************************************)
(* The deterministic canary policy of lou.deployment.policy: one pure      *)
(* function from the bounded staging evidence of a release to the only     *)
(* transition allowed next.  None stands for an absent measurement.        *)
(***************************************************************************)
EXTENDS Integers

CONSTANT None

Decisions == {"promote", "pause", "rollback"}

-----------------------------------------------------------------------------
\* A deliberately wrong variant, which the property must reject: an absent age read
\* as fresh.
UsableAtAnyAge(window, observation, policy) ==
  /\ observation.telemetry_available
  /\ observation.telemetry_age_seconds \in {None} \union 0..policy.telemetry_max_age_seconds
  /\ observation.sample_count >= policy.minimum_samples
  /\ observation.sample_count >= window.minimum_samples
  /\ observation.error_rate # None
  /\ observation.latency_ms # None

-----------------------------------------------------------------------------
\* Every measurement the SLO rules read is present, fresh and numerous enough.
Usable(window, observation, policy) ==
  /\ observation.telemetry_available
  /\ observation.telemetry_age_seconds # None
  /\ observation.telemetry_age_seconds <= policy.telemetry_max_age_seconds
  /\ observation.sample_count >= policy.minimum_samples
  /\ observation.sample_count >= window.minimum_samples
  /\ observation.error_rate # None
  /\ observation.latency_ms # None

\* A measured SLO breach; only meaningful when the evidence is usable.
Breached(observation, policy) ==
  \/ observation.error_rate > policy.max_error_rate
  \/ observation.latency_ms > policy.max_latency_ms

\* The confirmed verification runs and traces link the claim of health to
\* something the store recorded, and the window has closed.
Promotable(window, observation, runs, traces) ==
  /\ runs # {}
  /\ traces # {}
  /\ observation.observed_at >= window.deadline_at

EvaluateCanary(window, observation, policy, runs, traces) ==
  IF ~observation.validation_passed THEN "rollback"
  ELSE IF ~Usable(window, observation, policy) THEN "pause"
  ELSE IF Breached(observation, policy) THEN "rollback"
  ELSE IF Promotable(window, observation, runs, traces) THEN "promote"
  ELSE "pause"
=============================================================================
