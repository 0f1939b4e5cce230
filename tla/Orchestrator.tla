---------------------------- MODULE Orchestrator ----------------------------
(***************************************************************************)
(* RemediationOrchestrator.run(): the remediation loop on a snapshot held  *)
(* in memory, one stage after the other until a terminal reason.           *)
(***************************************************************************)
EXTENDS OrchestratorStages

VARIABLE state   \* OrchestrationState

Init == state = Start

Step(stage) ==
  /\ state.stage = stage
  /\ state' \in Steps(state, IF stage = "verify" THEN Answers(state) ELSE {})

Next == \/ Step("context") \/ Step("diagnose") \/ Step("patch")
        \/ Step("validate") \/ Step("verify") \/ Step("decide")

Spec == Init /\ [][Next]_state

\* run() calls step() until the stage is "stopped"; provider calls time out and
\* verification commands are killed at their limits.
FairSpec == Spec /\ WF_state(Next)

-----------------------------------------------------------------------------
(* Properties.                                                             *)

TypeOK == state \in States

Stopped == state.stage = "stopped"

\* "verified" is only said of a valid patch of this run which passed every
\* planned workload, in one attempt, on one commit that descends from the
\* candidate, with each verdict naming that patch and that attempt.
VerifiedIsVerified ==
  state.reason = "verified" =>
    /\ state.patch \in Valid \ Foreign
    /\ \E commit \in Descendants : \A w \in Workloads : \E r \in Range(state.current) :
         /\ r.workload = w /\ r.status = "passed"
         /\ Belongs(r, state.patch, commit, state.attempts)
         /\ r.commit = commit

\* Attempts are bounded and each one is reported exactly once, also when a
\* budget runs out between two attempts and the decision stage is entered again.
EveryAttemptReported ==
  /\ state.attempts <= MaxAttempts
  /\ state.stage \in {"context", "stopped"} => Len(state.outcomes) = state.attempts

\* A patch that was verified once is not verified again by a later attempt.
NoPatchVerifiedTwice ==
  \A i, j \in DOMAIN state.results :
    state.results[i].patch = state.results[j].patch
      => state.results[i].attempt = state.results[j].attempt

\* The terminal reason says what happened: an exceeded budget is exceeded, a
\* repeated patch was reported before, and the attempts ran out on an attempt
\* that did not pass.
ReasonHonest ==
  LET last == state.outcomes[Len(state.outcomes)] IN
  /\ state.reason = "time_budget_exceeded" => state.elapsed > MaxWall
  /\ state.reason = "token_budget_exceeded" => state.tokens > MaxTokens
  /\ state.reason = "cost_budget_exceeded" => state.cost > MaxCost
  /\ state.reason = "duplicate_patch" =>
       \E i \in 1..(Len(state.outcomes) - 1) : state.outcomes[i].patch = last.patch
  /\ state.reason = "max_attempts" =>
       state.attempts = MaxAttempts /\ last.outcome # "verification_passed"

\* What the publisher asks for, a verified run whose decision is open_pr, is
\* only reached when no verdict of any attempt was anything but passed:
\* "failed or inconclusive forbids A3" (decide_autonomy).
OpenPRNeverRefuted ==
  state.reason = "verified" /\ state.decision = 3 =>
    \A r \in Range(state.results) : r.status = "passed" /\ r.own /\ r.patch = state.patch

\* The loop reaches a terminal reason.
Terminates == <>Stopped

-----------------------------------------------------------------------------
(* What the repository says and the code does not do.                      *)

\* decide_autonomy is to be given "final fix-attempt results", so the decision
\* of a verified run is at least generate_patch, as that of its last attempt.
VerifiedIsNotDeclined == state.reason = "verified" => state.decision >= 2

\* "invalid patch, failed verification, regression | report": the maximum
\* action after a failed verification.
FailedOnlyReports ==
  Stopped /\ (\E r \in Range(state.current) : r.status = "failed") => state.decision = 0
=============================================================================
