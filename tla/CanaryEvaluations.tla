-------------------------- MODULE CanaryEvaluations --------------------------
(***************************************************************************)
(* evaluate_canary asked again and again about one release: each step      *)
(* evaluates the evidence of the step before after some of it was lost     *)
(* (Lose), or at a later time (Wait).                                      *)
(***************************************************************************)
EXTENDS CanaryPolicy

CONSTANTS
  Payloads,  \* the evidence an evaluation may begin with
  Links,     \* ids of confirmed verification runs and traces
  Ages,      \* the ages telemetry may reach
  Instants   \* the times an evaluation may happen at

\* What CanaryWindow, CanaryObservation and the policy's settings may hold, the rates
\* and latencies in units of the smallest step; the optional fields may be None.
Evidence ==
  [window: [minimum_samples: Nat, deadline_at: Nat],
   observation: [validation_passed: BOOLEAN, telemetry_available: BOOLEAN,
                 telemetry_age_seconds: Nat \union {None}, sample_count: Nat,
                 error_rate: Nat \union {None}, latency_ms: Nat \union {None},
                 observed_at: Nat],
   policy: [max_error_rate: Nat, max_latency_ms: Nat, minimum_samples: Nat,
            telemetry_max_age_seconds: Nat],
   runs: SUBSET Links, traces: SUBSET Links]

ASSUME EvaluationsAssumption ==
  Payloads \subseteq Evidence /\ Ages \subseteq Nat /\ Instants \subseteq Nat

VARIABLES
  evidence,  \* what the latest evaluation was given
  verdict    \* what it decided

evaluationVars == <<evidence, verdict>>

-----------------------------------------------------------------------------
Evaluate(e) == EvaluateCanary(e.window, e.observation, e.policy, e.runs, e.traces)

EvaluationInit == evidence \in Payloads /\ verdict = Evaluate(evidence)

\* The same observation that lacks a measurement, is older or rests on fewer samples.
LessSeen ==
  LET o == evidence.observation
  IN  \/ evidence' = [evidence EXCEPT !.observation.telemetry_available = FALSE]
      \/ evidence' = [evidence EXCEPT !.observation.error_rate = None]
      \/ evidence' = [evidence EXCEPT !.observation.latency_ms = None]
      \/ evidence' = [evidence EXCEPT !.observation.telemetry_age_seconds = None]
      \/ /\ o.telemetry_age_seconds # None
         /\ \E age \in Ages :
              /\ age >= o.telemetry_age_seconds
              /\ evidence' = [evidence EXCEPT !.observation.telemetry_age_seconds = age]
      \/ \E fewer \in 0..o.sample_count :
           evidence' = [evidence EXCEPT !.observation.sample_count = fewer]

\* Some of the evidence is missing, older or smaller at the next evaluation.
Lose ==
  /\ \/ LessSeen
     \/ \E fewer \in SUBSET evidence.runs : evidence' = [evidence EXCEPT !.runs = fewer]
     \/ \E fewer \in SUBSET evidence.traces : evidence' = [evidence EXCEPT !.traces = fewer]
  /\ verdict' = Evaluate(evidence')

\* The same measurements, observed later: the window may have closed.
Wait ==
  /\ \E at \in Instants :
       /\ at >= evidence.observation.observed_at
       /\ evidence' = [evidence EXCEPT !.observation.observed_at = at]
  /\ verdict' = Evaluate(evidence')

EvaluationNext == Lose \/ Wait

EvaluationSpec == EvaluationInit /\ [][EvaluationNext]_evaluationVars

-----------------------------------------------------------------------------
\* "No missing value may be treated as healthy" (M8 specification, policy
\* section): losing any piece of evidence never turns a pause or a rollback
\* into a promotion, and never turns a pause into a rollback that nothing
\* measured.  Waiting for the window to close can only turn a pause into a
\* promotion: it neither excuses a breach nor invents one, and a promotion does
\* not lapse.
OnlyEvidenceHelps ==
  [][/\ Lose => /\ verdict' = "promote" => verdict = "promote"
                /\ verdict' = "rollback" => verdict = "rollback"
     /\ Wait => verdict' = verdict \/ (verdict = "pause" /\ verdict' = "promote")]_evaluationVars
=============================================================================
