--------------------------- MODULE MCCanaryPolicy ---------------------------
(***************************************************************************)
(* Exhaustive check of CanaryEvaluations over small inputs: every          *)
(* combination of present, missing, stale and thresholding evidence.       *)
(***************************************************************************)
EXTENDS CanaryEvaluations

MCLinks == {"run", "trace"}

\* Two thresholds per measurement are enough: one value on each side.
MCPolicy == [max_error_rate |-> 0, max_latency_ms |-> 1, minimum_samples |-> 1,
             telemetry_max_age_seconds |-> 1]

\* The observation fields the contract leaves optional may be None.
MCObservations ==
  [validation_passed: BOOLEAN, telemetry_available: BOOLEAN,
   telemetry_age_seconds: {None, 1, 2}, sample_count: 0..2,
   error_rate: {None, 0, 1}, latency_ms: {None, 1, 2}, observed_at: 0..1]

MCPayloads ==
  [window: [minimum_samples: 1..2, deadline_at: {1}], observation: MCObservations,
   policy: {MCPolicy}, runs: SUBSET {"run"}, traces: SUBSET {"trace"}]

MCAges == 1..2

MCInstants == 0..1
=============================================================================
