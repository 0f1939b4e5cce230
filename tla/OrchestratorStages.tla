------------------------- MODULE OrchestratorStages -------------------------
(***************************************************************************)
(* lou.agents.orchestration: the stages of the bounded remediation loop.   *)
(* step() performs one stage on a JSON snapshot: it reads the clock, stops *)
(* at an exhausted budget, and otherwise asks the provider, validates the  *)
(* patch, has one workload verified, or decides.  A stage is the set of    *)
(* snapshots it may return, so that the loop in memory (Orchestrator) and  *)
(* the durable execution service (Remediation) take the same steps.        *)
(* The variants ...AtLimit, ...Forgetful, FinishOnCurrent, ReportAgain and *)
(* ...Always are deliberately wrong and used                               *)
(* by no specification: each is a plausible bug some property must reject. *)
(***************************************************************************)
EXTENDS AutonomyRules, Functions

CONSTANTS
  Valid,        \* the patches validate_patch accepts
  MaxAttempts, MaxWall, MaxTokens, MaxCost,   \* OrchestrationLimits
  Ticks,        \* how far the clock may move while a stage runs
  Usages        \* [tokens, cost] a provider call may report

ASSUME OrchestratorAssumption ==
  /\ Valid \subseteq Patches
  /\ MaxAttempts \in Nat \ {0} /\ MaxWall \in Nat /\ MaxTokens \in Nat /\ MaxCost \in Nat
  /\ Ticks \subseteq Nat /\ Ticks # {}
  /\ Usages \subseteq [tokens : Nat, cost : Nat] /\ Usages # {}

-----------------------------------------------------------------------------
(* Budgets.  A counter beyond its limit stays one beyond it: nothing reads *)
(* how far beyond.                                                         *)

Capped(n, limit) == IF n > limit THEN limit + 1 ELSE n

Elapse(s, tick) == [s EXCEPT !.elapsed = Capped(@ + tick, MaxWall)]

Spend(s, usage) == [s EXCEPT !.tokens = Capped(@ + usage.tokens, MaxTokens),
                             !.cost = Capped(@ + usage.cost, MaxCost)]

BudgetReasonAtLimit(s) ==
  IF s.elapsed >= MaxWall THEN "time_budget_exceeded"
  ELSE IF s.tokens >= MaxTokens THEN "token_budget_exceeded"
  ELSE IF s.cost >= MaxCost THEN "cost_budget_exceeded"
  ELSE "none"

BudgetReason(s) ==
  IF s.elapsed > MaxWall THEN "time_budget_exceeded"
  ELSE IF s.tokens > MaxTokens THEN "token_budget_exceeded"
  ELSE IF s.cost > MaxCost THEN "cost_budget_exceeded"
  ELSE "none"

\* A budget is exhausted: only the decision is left.
Halt(s) ==
  IF BudgetReason(s) = "none" THEN s
  ELSE [s EXCEPT !.pending = BudgetReason(s), !.stage = "decide"]

Fail(s, failure) == [s EXCEPT !.failure = failure, !.stage = "decide"]

\* The stage after one that succeeded, unless its budget check said otherwise.
Advance(s, stage) == IF s.stage = "decide" THEN s ELSE [s EXCEPT !.stage = stage]

-----------------------------------------------------------------------------
(* The stages.                                                             *)

Start ==
  [stage |-> "context", attempts |-> 0, elapsed |-> 0, tokens |-> 0, cost |-> 0,
   patch |-> None, accepted |-> FALSE, seen |-> {}, current |-> <<>>, results |-> <<>>,
   cursor |-> 0, failure |-> "none", outcomes |-> <<>>, pending |-> "none",
   reason |-> "none", decision |-> None]

BuildContext(s) ==
  {[s EXCEPT !.attempts = @ + 1, !.patch = None, !.accepted = FALSE, !.current = <<>>,
             !.cursor = 0, !.failure = "none", !.stage = "diagnose"]}

\* _account() after a provider call, which takes time and tokens.
Accounted(s) == {Halt(Elapse(Spend(s, usage), tick)) : usage \in Usages, tick \in Ticks}

Diagnose(s) ==
  UNION {{Advance(t, "patch"), Fail(t, "diagnose_abandoned")} : t \in Accounted(s)}

\* The response is kept whatever becomes of it; without a diff and an artifact
\* there is no patch.
Propose(s) ==
  {Advance(t, "validate") : t \in UNION {Accounted([s EXCEPT !.patch = p]) : p \in Patches}}
  \union {Fail(t, failure) : t \in Accounted(s),
                             failure \in {"patch_abandoned", "patch_missing"}}

ValidateForgetful(s) ==
  LET v == [s EXCEPT !.accepted = s.patch \in Valid] IN
  IF s.patch \in s.seen THEN {[Fail(v, "duplicate_patch") EXCEPT !.pending = "duplicate_patch"]}
  ELSE IF s.patch \in Foreign THEN {Fail(v, "patch_run_mismatch")}
  ELSE IF s.patch \notin Valid THEN {Fail(v, "patch_rejected")}
  ELSE {[v EXCEPT !.stage = "verify"]}

Validate(s) ==
  LET v == [s EXCEPT !.accepted = s.patch \in Valid]
      w == [v EXCEPT !.seen = @ \union {s.patch}]
  IN IF s.patch \in s.seen THEN {[Fail(v, "duplicate_patch") EXCEPT !.pending = "duplicate_patch"]}
     ELSE IF s.patch \in Foreign THEN {Fail(w, "patch_run_mismatch")}
     ELSE IF s.patch \notin Valid THEN {Fail(w, "patch_rejected")}
     ELSE {[w EXCEPT !.stage = "verify"]}

Requested(s) == Plan[s.cursor + 1]

\* What is wrong with a result: it answers something else, or it did not pass.
\* The first complaint about a verdict is kept, a mismatch always.
Complaint(s, r) ==
  IF ~r.own \/ r.workload # Requested(s) THEN "verifier_result_mismatch"
  ELSE IF r.status = "passed" \/ s.failure # "none" THEN s.failure
  ELSE IF r.status = "failed" THEN "verification_failed" ELSE "verification_inconclusive"

Judged(s, r, tick) ==
  LET t == [s EXCEPT !.current = Append(@, r), !.results = Append(@, r), !.cursor = @ + 1,
                     !.failure = Complaint(s, r)]
      u == Halt(Elapse(t, tick))
  IN IF t.cursor = Len(Plan) THEN [u EXCEPT !.stage = "decide"] ELSE u

\* The verifier raised; the attempt is over.
Unverified(s, tick) == Elapse(Fail(s, "verifier_error"), tick)

\* One workload is verified; returned is what verify() may answer.
Verify(s, returned) ==
  {Judged(s, r, tick) : r \in returned, tick \in Ticks}
  \union {Unverified(s, tick) : tick \in Ticks}

\* A verifier answers for the attempt and the patch it was asked about, unless
\* it mixes up the workload or the request.
Answers(s) ==
  {r \in [workload : Workloads, status : Verdicts, own : BOOLEAN, attempt : {s.attempts},
          patch : {s.patch}, commit : Commits] :
     r.own \/ (r.status = "passed" /\ r.workload = Requested(s))}

-----------------------------------------------------------------------------
(* The decision.                                                           *)

\* The member of a set that has one.
Only(set) == IF Cardinality(set) = 1 THEN CHOOSE x \in set : TRUE ELSE None

\* _decision(): the accepted patch, the only commit this attempt's results
\* name, and this attempt if it has results.
LevelOf(s, results) ==
  DecideAutonomy(IF s.accepted THEN s.patch ELSE None,
                 Range(results),
                 Only({r.commit : r \in Range(s.current)}),
                 IF s.current # <<>> THEN s.attempts ELSE None)

AllPassed(s) ==
  /\ Len(s.current) = Len(Plan)
  /\ \A i \in DOMAIN s.current : s.current[i].status = "passed"
  /\ s.failure = "none"

FinishOnCurrent(s, reason) ==
  [s EXCEPT !.reason = reason, !.stage = "stopped", !.decision = LevelOf(s, s.current)]

\* _finish(): the final decision is taken over the results of all attempts.
Finish(s, reason) ==
  [s EXCEPT !.reason = reason, !.stage = "stopped", !.decision = LevelOf(s, s.results)]

OutcomeOf(s) ==
  [outcome |-> IF s.failure # "none" THEN s.failure
               ELSE IF s.pending # "none" THEN s.pending ELSE "verification_passed",
   patch |-> s.patch]

ReportAgain(s) == [s EXCEPT !.outcomes = Append(@, OutcomeOf(s))]

\* Every attempt is reported once, however often the decision stage is entered.
Report(s) == IF s.attempts > Len(s.outcomes)
             THEN [s EXCEPT !.outcomes = Append(@, OutcomeOf(s))] ELSE s

Decide(s) ==
  LET level == LevelOf(s, s.current)
      t == [Report(s) EXCEPT !.decision = level]
  IN {IF s.pending # "none" THEN Finish(t, s.pending)
      ELSE IF AllPassed(s) /\ level >= 2 THEN Finish(t, "verified")
      ELSE IF level # 2 THEN Finish(t, "decision_declined")
      ELSE IF s.attempts >= MaxAttempts THEN Finish(t, "max_attempts")
      ELSE [t EXCEPT !.stage = "context"]}

\* What a stage does when no budget is exhausted.
AtStage(s, returned) ==
  CASE s.stage = "context"  -> BuildContext(s)
    [] s.stage = "diagnose" -> Diagnose(s)
    [] s.stage = "patch"    -> Propose(s)
    [] s.stage = "validate" -> Validate(s)
    [] s.stage = "verify"   -> Verify(s, returned)
    [] s.stage = "decide"   -> Decide(s)

\* step(): the clock has moved since the snapshot was taken.
BudgetCheckAlways(s) == BudgetReason(s) # "none"
BudgetCheck(s) == s.stage # "decide" /\ BudgetReason(s) # "none"

Steps(s, returned) ==
  UNION {IF BudgetCheck(t) THEN {Halt(t)} ELSE AtStage(t, returned)
           : t \in {Elapse(s, tick) : tick \in Ticks}}

-----------------------------------------------------------------------------
(* The type of a snapshot.                                                 *)

Stages == {"context", "diagnose", "patch", "validate", "verify", "decide", "stopped"}
BudgetReasons == {"time_budget_exceeded", "token_budget_exceeded", "cost_budget_exceeded"}
Pendings == {"none", "duplicate_patch"} \union BudgetReasons
Reasons == Pendings \union {"verified", "max_attempts", "decision_declined"}
Failures ==
  {"none", "diagnose_abandoned", "patch_abandoned", "patch_missing", "duplicate_patch",
   "patch_run_mismatch", "patch_rejected", "verifier_error", "verifier_result_mismatch",
   "verification_failed", "verification_inconclusive"}
Outcomes == [outcome : Failures \union Pendings \union {"verification_passed"},
             patch : Patches \union {None}]
States ==
  [stage : Stages, attempts : Nat, elapsed : 0..(MaxWall + 1), tokens : 0..(MaxTokens + 1),
   cost : 0..(MaxCost + 1), patch : Patches \union {None}, accepted : BOOLEAN,
   seen : SUBSET Patches, current : Seq(Results), results : Seq(Results),
   cursor : 0..Len(Plan), failure : Failures, outcomes : Seq(Outcomes), pending : Pendings,
   reason : Reasons, decision : 0..3 \union {None}]
=============================================================================
