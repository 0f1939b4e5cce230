------------------------------ MODULE Verdicts ------------------------------
(***************************************************************************)
(* What the comparison of two phases says (lou/verification/compare.py),   *)
(* what a phase says of itself (live.py) and what the fix phase says       *)
(* (fix.py).  An observation is a record of checks, a function from        *)
(* workloads to [outcome, argv], and load, None or the samples of the k6   *)
(* workload.  Ratios are compared without dividing; the variance           *)
(* coefficient is a percentage.                                            *)
(*                                                                         *)
(* ComparisonLatencyFirst and FixStatusIfBetter are deliberately wrong     *)
(* forms of the definition they precede.                                   *)
(***************************************************************************)
EXTENDS Integers, SequencesExt

CONSTANTS
  None,
  Repetitions,        \* k6_repetitions
  MaxVariance,        \* maximum_variance_cv, in percent
  MinQueryIncrease, MinQueryRatio, MinP95Ratio

ASSUME VerdictAssumption ==
  /\ Repetitions \in Nat \ {0}
  /\ {MaxVariance, MinQueryIncrease, MinQueryRatio, MinP95Ratio} \subseteq Nat

-----------------------------------------------------------------------------
(* Aggregation of the samples.                                             *)

Total(s) == FoldLeft(+, 0, s)
\* The k-th value of the samples in order.
Ranked(s, k) ==
  CHOOSE x \in ToSet(s) :
    /\ Cardinality({i \in DOMAIN s : s[i] < x}) < k
    /\ Cardinality({i \in DOMAIN s : s[i] <= x}) >= k
TwiceMedian(s) ==
  IF s = <<>> THEN 0 ELSE Ranked(s, (Len(s) + 1) \div 2) + Ranked(s, Len(s) \div 2 + 1)

\* pstdev / mean > MaxVariance
Scattered(s) ==
  LET square(x) == x * x
      spread == Len(s) * FoldLeft(LAMBDA n, x : n + square(x), 0, s) - square(Total(s))
  IN  10000 * spread > square(MaxVariance) * square(Total(s))

Queries(o) == TwiceMedian(o.load.queries)
P95(o) == TwiceMedian(o.load.p95)
LoadFailed(o) == o.load # None /\ Len(o.load.p95) # Repetitions

-----------------------------------------------------------------------------
(* The comparison.                                                         *)

AtLeast(candidate, baseline, ratio) ==
  IF baseline = 0 THEN candidate # 0 \/ ratio <= 1 ELSE candidate >= ratio * baseline

Outcome(o, w) == IF w \in DOMAIN o.checks THEN o.checks[w].outcome ELSE "passed"
CandidateOnly(b, c) ==
  {w \in DOMAIN b.checks \union DOMAIN c.checks : Outcome(b, w) = "passed" /\ Outcome(c, w) # "passed"}

CommandFailed(o) == LoadFailed(o) \/ \E w \in DOMAIN o.checks : Outcome(o, w) = "command_failed"
ToolFailure(b, c) == CommandFailed(b) \/ CommandFailed(c)

QueryRegression(b, c) ==
  /\ b.load # None
  /\ Queries(c) - Queries(b) >= 2 * MinQueryIncrease
  /\ AtLeast(Queries(c), Queries(b), MinQueryRatio)
LatencyRegression(b, c) == b.load # None /\ AtLeast(P95(c), P95(b), MinP95Ratio)
Noisy(b, c) == b.load # None /\ (Scattered(b.load.p95) \/ Scattered(c.load.p95))

ComparisonLatencyFirst(b, c) ==
  IF ToolFailure(b, c) THEN "inconclusive"
  ELSE IF CandidateOnly(b, c) # {} \/ QueryRegression(b, c) \/ LatencyRegression(b, c) THEN "failed"
  ELSE IF Noisy(b, c) THEN "inconclusive" ELSE "passed"

Comparison(b, c) ==
  IF ToolFailure(b, c) THEN "inconclusive"
  ELSE IF CandidateOnly(b, c) # {} \/ QueryRegression(b, c) THEN "failed"
  ELSE IF Noisy(b, c) THEN "inconclusive"
  ELSE IF LatencyRegression(b, c) THEN "failed" ELSE "passed"

Finding(b, c) ==
  /\ QueryRegression(b, c) \/ LatencyRegression(b, c)
  /\ Comparison(b, c) = "failed"

-----------------------------------------------------------------------------
PhaseStatus(o) ==
  IF CommandFailed(o) THEN "inconclusive"
  ELSE IF \E w \in DOMAIN o.checks : Outcome(o, w) = "test_failed" THEN "failed" ELSE "passed"

FixStatusIfBetter(b, c, f) ==
  IF Comparison(f, c) = "inconclusive" THEN "inconclusive"
  ELSE IF Comparison(f, c) = "failed" THEN "passed" ELSE "failed"
\* The fix must not be worse than the baseline, and the candidate must be worse than it.
FixStatus(b, c, f) ==
  LET statuses == {Comparison(b, f), Comparison(f, c)}
  IN  IF "inconclusive" \in statuses THEN "inconclusive"
      ELSE IF Comparison(b, f) = "passed" /\ Comparison(f, c) = "failed" THEN "passed"
      ELSE "failed"
=============================================================================
