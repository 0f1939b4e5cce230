------------------------ MODULE OrchestratorProofs ------------------------
(***************************************************************************)
(* Proofs about Orchestrator for every plan, set of patches, budget and    *)
(* autonomy assessment.                                                    *)
(***************************************************************************)
EXTENDS Orchestrator, FiniteSetTheorems, TLAPS

\* What has happened in the attempt when a stage is reached: no patch is
\* accepted before it is validated, verdicts exist only for an accepted patch,
\* and an accepted patch is valid.
Ordered(s) ==
  /\ s.accepted => s.patch \in Valid
  /\ s.stage \in {"diagnose", "patch", "validate"} => ~s.accepted /\ s.cursor = 0
  /\ s.stage = "verify" => s.accepted /\ s.cursor < Len(Plan)
  /\ s.stage = "validate" => s.patch \in Patches
  /\ s.current # <<>> => s.accepted

\* The attempts that are reported when a stage is reached.
Counted(s) ==
  /\ s.attempts <= MaxAttempts
  /\ s.stage \in {"context", "stopped"} => Len(s.outcomes) = s.attempts
  /\ s.stage = "context" => s.attempts < MaxAttempts
  /\ s.stage \in {"diagnose", "patch", "validate", "verify"} =>
       s.attempts = Len(s.outcomes) + 1
  /\ s.stage = "decide" => Len(s.outcomes) \in {s.attempts - 1, s.attempts}

\* VerifiedIsVerified and OpenPRNeverRefuted of a snapshot.
Honest(s) ==
  /\ s.stage # "stopped" => s.reason = "none"
  /\ s.reason = "verified" =>
       /\ s.patch \in Valid \ Foreign
       /\ \E commit \in Descendants : \A w \in Workloads : \E r \in Range(s.current) :
            /\ r.workload = w /\ r.status = "passed"
            /\ Belongs(r, s.patch, commit, s.attempts)
            /\ r.commit = commit
  /\ s.reason = "verified" /\ s.decision = 3 =>
       \A r \in Range(s.results) : r.status = "passed" /\ r.own /\ r.patch = s.patch

Sound(s) == s \in States /\ Ordered(s) /\ Counted(s) /\ Honest(s)

\* The inductive invariant.
SoundInv == Sound(state)

-----------------------------------------------------------------------------
(* The decision.                                                           *)

\* However many results there are, no more workloads passed than are planned.
LEMMA PassedCount ==
  ASSUME NEW results
  PROVE  Cardinality(PassedWorkloads(results)) \in 0..Len(Plan)
<1>1. Plan \in Seq(STRING) /\ Len(Plan) \in Nat /\ DOMAIN Plan = 1..Len(Plan)
  BY AutonomyAssumption
<1>2. Plan \in Surjection(1..Len(Plan), Workloads)
  BY <1>1 DEF Workloads, Surjection
<1>3. IsFiniteSet(1..Len(Plan)) /\ Cardinality(1..Len(Plan)) = Len(Plan)
  BY <1>1, FS_Interval
<1>4. IsFiniteSet(Workloads) /\ Cardinality(Workloads) <= Len(Plan)
  BY <1>2, <1>3, FS_Surjection
<1>5. PassedWorkloads(results) \in SUBSET Workloads
  BY DEF PassedWorkloads
<1>6. /\ IsFiniteSet(PassedWorkloads(results))
      /\ Cardinality(PassedWorkloads(results)) <= Cardinality(Workloads)
  BY <1>4, <1>5, FS_Subset
<1>7. Cardinality(PassedWorkloads(results)) \in Nat /\ Cardinality(Workloads) \in Nat
  BY <1>4, <1>6, FS_CardinalityType
<1>8. QED BY <1>1, <1>4, <1>6, <1>7

\* The decision is one of the four actions; above report nothing disagrees,
\* and open_pr is only reached by results that prove the patch.
LEMMA DecisionLevel ==
  ASSUME NEW patch \in Patches \union {None}, NEW results, NEW commit, NEW attempt
  PROVE  LET level == DecideAutonomy(patch, results, commit, attempt) IN
         /\ level \in 0..3
         /\ level # 0 => ~Disagrees(patch, results, commit, attempt)
         /\ level = 3 => Proven(patch, results, commit)
<1> DEFINE n == Cardinality(PassedWorkloads(results))
<1>1. n \in 0..Len(Plan)
  BY PassedCount
<1>2. Assessed[patch][n] \in 0..3 /\ MaxAutonomy \in 0..3
  BY <1>1, AutonomyAssumption
<1>3. QED BY <1>2 DEF DecideAutonomy, Lower

LEMMA LevelFacts ==
  ASSUME NEW s \in States, NEW results
  PROVE  /\ LevelOf(s, results) \in 0..3
         /\ LevelOf(s, results) # 0 /\ s.accepted =>
              \E commit : ~Disagrees(s.patch, Range(results), commit,
                                     IF s.current # <<>> THEN s.attempts ELSE None)
         /\ LevelOf(s, results) = 3 =>
              \A r \in Range(results) : r.status = "passed" /\ r.own /\ r.patch = s.patch
<1> DEFINE patch == IF s.accepted THEN s.patch ELSE None
           commit == Only({r.commit : r \in Range(s.current)})
           attempt == IF s.current # <<>> THEN s.attempts ELSE None
<1>1. LevelOf(s, results) = DecideAutonomy(patch, Range(results), commit, attempt)
  BY DEF LevelOf
<1>2. patch \in Patches \union {None} /\ s.patch \in Patches \union {None}
  BY DEF States
<1> HIDE DEF commit, attempt
<1>3. /\ LevelOf(s, results) \in 0..3
      /\ LevelOf(s, results) # 0 => ~Disagrees(patch, Range(results), commit, attempt)
      /\ LevelOf(s, results) = 3 => Proven(patch, Range(results), commit)
  BY <1>1, <1>2, DecisionLevel
<1>4. ASSUME LevelOf(s, results) # 0, s.accepted
      PROVE  ~Disagrees(s.patch, Range(results), commit, attempt)
  BY <1>3, <1>4
<1>5. ASSUME LevelOf(s, results) = 3
      PROVE  \A r \in Range(results) : r.status = "passed" /\ r.own /\ r.patch = s.patch
  BY <1>3, <1>5 DEF Proven
<1>6. QED BY <1>3, <1>4, <1>5 DEF attempt

\* Results that all passed and disagree with nothing verify the patch: every
\* workload is covered on one commit that descends from the candidate.
LEMMA PassedAgreement ==
  ASSUME NEW s \in States, s.accepted, s.patch \in Valid, AllPassed(s),
         LevelOf(s, s.current) \in 2..3
  PROVE  /\ s.patch \in Valid \ Foreign
         /\ \E commit \in Descendants : \A w \in Workloads : \E r \in Range(s.current) :
              /\ r.workload = w /\ r.status = "passed"
              /\ Belongs(r, s.patch, commit, s.attempts)
              /\ r.commit = commit
<1>1. Len(Plan) \in Nat \ {0}
  BY AutonomyAssumption
<1>2. s.current \in Seq(Results) /\ Len(s.current) = Len(Plan)
  BY DEF States, AllPassed
<1>3. s.current # <<>> /\ s.current[1] \in Range(s.current)
  BY <1>1, <1>2 DEF Range
<1>4. \A r \in Range(s.current) : r \in Results /\ r.status = "passed"
  BY <1>2 DEF Range, AllPassed
<1>5. PICK commit : ~Disagrees(s.patch, Range(s.current), commit, s.attempts)
  BY <1>3, LevelFacts
<1>6. s.patch # None
  BY OrchestratorAssumption, AutonomyAssumption
<1>7. /\ s.patch \notin Foreign
      /\ commit # None => commit \in Descendants
      /\ \A r \in Range(s.current) : Belongs(r, s.patch, commit, s.attempts)
      /\ Workloads \subseteq Covered(Range(s.current))
  BY <1>3, <1>5, <1>6 DEF Disagrees
<1>8. \A r \in Range(s.current) : r.commit = commit
  BY <1>7 DEF Belongs
<1>9. commit \in Descendants
  <2>1. s.current[1].commit \in Commits
    BY <1>3, <1>4 DEF Results
  <2>2. QED BY <2>1, <1>3, <1>7, <1>8, AutonomyAssumption
<1>10. \A w \in Workloads : \E r \in Range(s.current) : r.workload = w
  BY <1>7 DEF Covered
<1>11. QED BY <1>4, <1>7, <1>8, <1>9, <1>10

-----------------------------------------------------------------------------
(* Every stage leads from sound snapshots to sound ones.                   *)

\* A sound snapshot of a loop that goes on.
Running(s) ==
  s \in States /\ Ordered(s) /\ Counted(s) /\ s.stage # "stopped" /\ s.reason = "none"

LEMMA RunningSound ==
  ASSUME NEW s, s.stage # "stopped"
  PROVE  Sound(s) <=> Running(s)
BY DEF Sound, Running, Honest

LEMMA ConstantFacts ==
  /\ MaxAttempts \in Nat \ {0} /\ MaxWall \in Nat /\ MaxTokens \in Nat /\ MaxCost \in Nat
  /\ Valid \subseteq Patches /\ None \notin Patches
  /\ Plan \in Seq(STRING) /\ Len(Plan) \in Nat \ {0}
BY AutonomyAssumption, OrchestratorAssumption

LEMMA CappedType ==
  ASSUME NEW limit \in Nat, NEW n \in 0..(limit + 1), NEW more \in Nat
  PROVE  Capped(n + more, limit) \in 0..(limit + 1)
BY DEF Capped

\* The clock and the counters move: nothing else does.
LEMMA ElapseRunning ==
  ASSUME NEW s, Running(s), NEW tick \in Ticks
  PROVE  /\ Running(Elapse(s, tick))
         /\ Elapse(s, tick).stage = s.stage /\ Elapse(s, tick).patch = s.patch
<1> DEFINE elapsed == Capped(s.elapsed + tick, MaxWall)
<1>1. s.elapsed \in 0..(MaxWall + 1) /\ tick \in Nat /\ MaxWall \in Nat
  BY ConstantFacts, OrchestratorAssumption DEF Running, States
<1>2. elapsed \in 0..(MaxWall + 1)
  BY <1>1, CappedType
<1>3. s \in States /\ Elapse(s, tick) = [s EXCEPT !.elapsed = elapsed]
  BY DEF Running, Elapse, States
<1> HIDE DEF elapsed
<1>4. Elapse(s, tick) \in States
  BY <1>2, <1>3 DEF States
<1>5. QED BY <1>3, <1>4 DEF Running, States, Ordered, Counted

LEMMA SpendRunning ==
  ASSUME NEW s, Running(s), NEW usage \in Usages
  PROVE  /\ Running(Spend(s, usage))
         /\ Spend(s, usage).stage = s.stage /\ Spend(s, usage).patch = s.patch
<1> DEFINE tokens == Capped(s.tokens + usage.tokens, MaxTokens)
           cost == Capped(s.cost + usage.cost, MaxCost)
<1>1. usage.tokens \in Nat /\ usage.cost \in Nat
  BY OrchestratorAssumption
<1>2. s.tokens \in 0..(MaxTokens + 1) /\ s.cost \in 0..(MaxCost + 1)
  BY DEF Running, States
<1>3. tokens \in 0..(MaxTokens + 1)
  BY <1>1, <1>2, CappedType, ConstantFacts
<1>4. cost \in 0..(MaxCost + 1)
  BY <1>1, <1>2, CappedType, ConstantFacts
<1>5. s \in States /\ Spend(s, usage) = [s EXCEPT !.tokens = tokens, !.cost = cost]
  BY DEF Running, Spend, States
<1> HIDE DEF tokens, cost
<1>6. Spend(s, usage) \in States
  BY <1>3, <1>4, <1>5 DEF States
<1>7. QED BY <1>5, <1>6 DEF Running, States, Ordered, Counted

\* The stage that decides may be entered from every other.
LEMMA DecideRunning ==
  ASSUME NEW s, Running(s), NEW t \in States, t.stage = "decide", t.reason = s.reason,
         t.accepted = s.accepted, t.patch = s.patch, t.current = <<>> \/ s.accepted,
         t.attempts = s.attempts, t.outcomes = s.outcomes
  PROVE  Running(t)
<1>1. s.attempts \in Nat /\ Len(s.outcomes) \in Nat /\ s.stage \in Stages
  BY DEF Running, States
<1>2. Len(s.outcomes) \in {s.attempts - 1, s.attempts} /\ s.attempts <= MaxAttempts
  BY <1>1 DEF Running, Counted, Stages
<1>3. Counted(t)
  BY <1>2 DEF Counted
<1>4. Ordered(t)
  BY DEF Running, Ordered
<1>5. QED BY <1>3, <1>4 DEF Running

LEMMA HaltRunning ==
  ASSUME NEW s, Running(s)
  PROVE  /\ Running(Halt(s))
         /\ Halt(s).stage \in {s.stage, "decide"} /\ Halt(s).patch = s.patch
<1>1. CASE BudgetReason(s) = "none"
  BY <1>1 DEF Halt
<1>2. CASE BudgetReason(s) # "none"
  <2>1. BudgetReason(s) \in Pendings
    BY DEF BudgetReason, Pendings, BudgetReasons
  <2>2. s \in States /\ Halt(s) = [s EXCEPT !.pending = BudgetReason(s), !.stage = "decide"]
    BY <1>2 DEF Running, Halt
  <2>3. Halt(s) \in States
    BY <2>1, <2>2 DEF States, Stages
  <2>4. /\ Halt(s).stage = "decide" /\ Halt(s).reason = s.reason
        /\ Halt(s).accepted = s.accepted /\ Halt(s).patch = s.patch
        /\ Halt(s).current = s.current /\ Halt(s).attempts = s.attempts
        /\ Halt(s).outcomes = s.outcomes
    BY <2>2 DEF States
  <2>5. s.current = <<>> \/ s.accepted
    BY DEF Running, Ordered
  <2>6. QED BY <2>3, <2>4, <2>5, DecideRunning
<1>3. QED BY <1>1, <1>2

LEMMA FailRunning ==
  ASSUME NEW s, Running(s), NEW failure \in Failures
  PROVE  Running(Fail(s, failure))
<1>1. s \in States /\ Fail(s, failure) = [s EXCEPT !.failure = failure, !.stage = "decide"]
  BY DEF Running, Fail
<1>2. Fail(s, failure) \in States
  BY <1>1 DEF States, Stages
<1>3. /\ Fail(s, failure).stage = "decide" /\ Fail(s, failure).reason = s.reason
      /\ Fail(s, failure).accepted = s.accepted /\ Fail(s, failure).patch = s.patch
      /\ Fail(s, failure).current = s.current /\ Fail(s, failure).attempts = s.attempts
      /\ Fail(s, failure).outcomes = s.outcomes
  BY <1>1 DEF States
<1>4. s.current = <<>> \/ s.accepted
  BY DEF Running, Ordered
<1>5. QED BY <1>2, <1>3, <1>4, DecideRunning

LEMMA AccountedRunning ==
  ASSUME NEW s, Running(s), NEW t \in Accounted(s)
  PROVE  Running(t) /\ t.stage \in {s.stage, "decide"} /\ t.patch = s.patch
<1>1. PICK usage \in Usages, tick \in Ticks : t = Halt(Elapse(Spend(s, usage), tick))
  BY DEF Accounted
<1>2. QED BY <1>1, SpendRunning, ElapseRunning, HaltRunning

LEMMA ContextRunning ==
  ASSUME NEW s, Running(s), s.stage = "context", NEW t \in BuildContext(s)
  PROVE  Running(t)
<1>1. s \in States
      /\ t = [s EXCEPT !.attempts = s.attempts + 1, !.patch = None, !.accepted = FALSE,
                       !.current = <<>>, !.cursor = 0, !.failure = "none",
                       !.stage = "diagnose"]
  BY DEF Running, BuildContext
<1>2. <<>> \in Seq(Results) /\ 0 \in 0..Len(Plan) /\ s.attempts + 1 \in Nat
  BY <1>1, ConstantFacts DEF States
<1>3. t \in States
  BY <1>1, <1>2 DEF States, Stages, Failures
<1>4. /\ t.stage = "diagnose" /\ t.attempts = s.attempts + 1 /\ t.accepted = FALSE
      /\ t.current = <<>> /\ t.cursor = 0 /\ t.outcomes = s.outcomes /\ t.reason = s.reason
  BY <1>1 DEF States
<1>5. /\ s.attempts \in Nat /\ s.attempts < MaxAttempts /\ Len(s.outcomes) = s.attempts
      /\ s.reason = "none"
  BY <1>1 DEF States, Running, Counted
<1>6. Counted(t)
  BY <1>4, <1>5, ConstantFacts DEF Counted
<1>7. Ordered(t)
  BY <1>4 DEF Ordered
<1>8. QED BY <1>3, <1>4, <1>5, <1>6, <1>7 DEF Running

LEMMA DiagnoseRunning ==
  ASSUME NEW s, Running(s), s.stage = "diagnose", NEW t \in Diagnose(s)
  PROVE  Running(t)
<1>1. PICK u \in Accounted(s) : t = Advance(u, "patch") \/ t = Fail(u, "diagnose_abandoned")
  BY DEF Diagnose
<1>2. Running(u) /\ u.stage \in {"diagnose", "decide"}
  BY <1>1, AccountedRunning
<1>3. Running(Fail(u, "diagnose_abandoned"))
  BY <1>2, FailRunning DEF Failures
<1>4. Running(Advance(u, "patch"))
  <2>1. CASE u.stage = "decide"
    BY <1>2, <2>1 DEF Advance
  <2>2. CASE u.stage = "diagnose"
    <3>1. u \in States /\ Advance(u, "patch") = [u EXCEPT !.stage = "patch"]
      BY <1>2, <2>2 DEF Running, Advance
    <3>2. Advance(u, "patch") \in States
      BY <3>1 DEF States, Stages
    <3>3. QED BY <1>2, <2>2, <3>1, <3>2 DEF Running, States, Ordered, Counted
  <2>3. QED BY <1>2, <2>1, <2>2
<1>5. QED BY <1>1, <1>3, <1>4

LEMMA ProposeRunning ==
  ASSUME NEW s, Running(s), s.stage = "patch", NEW t \in Propose(s)
  PROVE  Running(t)
<1> DEFINE With(p) == [s EXCEPT !.patch = p]
           Proposed == UNION {Accounted(With(p)) : p \in Patches}
<1>1. \/ \E u \in Proposed : t = Advance(u, "validate")
      \/ \E u \in Accounted(s), failure \in {"patch_abandoned", "patch_missing"} :
           t = Fail(u, failure)
  BY DEF Propose
<1>2. CASE \E u \in Proposed : t = Advance(u, "validate")
  <2>1. PICK u \in Proposed : t = Advance(u, "validate")
    BY <1>2
  <2>2. PICK p \in Patches : u \in Accounted(With(p))
    BY <2>1
  <2>3. With(p) \in States /\ With(p).patch = p /\ With(p).stage = "patch"
    BY DEF Running, States
  <2>4. Running(With(p))
    BY <2>3 DEF Running, States, Ordered, Counted
  <2> HIDE DEF With
  <2>5. Running(u) /\ u.stage \in {"patch", "decide"} /\ u.patch = p
    BY <2>2, <2>3, <2>4, AccountedRunning
  <2>6. CASE u.stage = "decide"
    BY <2>1, <2>5, <2>6 DEF Advance
  <2>7. CASE u.stage = "patch"
    <3>1. u \in States /\ t = [u EXCEPT !.stage = "validate"]
      BY <2>1, <2>5, <2>7 DEF Running, Advance
    <3>2. t \in States
      BY <3>1 DEF States, Stages
    <3>3. QED BY <2>5, <2>7, <3>1, <3>2 DEF Running, States, Ordered, Counted
  <2>8. QED BY <2>5, <2>6, <2>7
<1>3. CASE \E u \in Accounted(s), failure \in {"patch_abandoned", "patch_missing"} :
             t = Fail(u, failure)
  BY <1>3, AccountedRunning, FailRunning DEF Failures
<1>4. QED BY <1>1, <1>2, <1>3

LEMMA ValidateRunning ==
  ASSUME NEW s, Running(s), s.stage = "validate", NEW t \in Validate(s)
  PROVE  Running(t)
<1> DEFINE ok == s.patch \in Valid
           v == [s EXCEPT !.accepted = ok]
           w == [v EXCEPT !.seen = v.seen \union {s.patch}]
<1>0. ok \in BOOLEAN /\ (ok <=> s.patch \in Valid)
  OBVIOUS
<1>1. /\ s \in States /\ s.patch \in Patches /\ s.current = <<>> /\ s.cursor = 0
      /\ s.reason = "none"
  BY DEF Running, Ordered
<1> HIDE DEF ok
<1>1a. v \in States
  BY <1>0, <1>1 DEF States
<1>2. /\ v \in States /\ v.accepted = ok /\ v.seen = s.seen
      /\ v.stage = "validate" /\ v.patch = s.patch /\ v.current = <<>> /\ v.cursor = 0
      /\ v.attempts = s.attempts /\ v.outcomes = s.outcomes /\ v.reason = "none"
  BY <1>1a, <1>1 DEF States
<1> HIDE DEF v
<1>3. /\ w \in States /\ w.accepted = ok
      /\ w.stage = "validate" /\ w.patch = s.patch /\ w.current = <<>> /\ w.cursor = 0
      /\ w.attempts = s.attempts /\ w.outcomes = s.outcomes /\ w.reason = "none"
  BY <1>0, <1>1, <1>2 DEF States
<1> HIDE DEF w
\* A rejected patch: the attempt is decided about without it.
<1>4. ASSUME NEW u \in {v, w}, NEW failure \in Failures, NEW pending \in Pendings, NEW z,
             z = Fail(u, failure) \/ z = [Fail(u, failure) EXCEPT !.pending = pending],
             s.patch \in s.seen \/ s.patch \notin Valid \/ s.patch \in Foreign
      PROVE  Running(z)
  <2>1. u \in States /\ u.accepted = ok /\ u.patch = s.patch
        /\ u.current = <<>> /\ u.attempts = s.attempts /\ u.outcomes = s.outcomes
        /\ u.reason = "none"
    BY <1>2, <1>3
  <2>2. /\ Fail(u, failure) \in States /\ Fail(u, failure).stage = "decide"
        /\ Fail(u, failure).accepted = ok /\ Fail(u, failure).patch = s.patch
        /\ Fail(u, failure).current = <<>> /\ Fail(u, failure).attempts = s.attempts
        /\ Fail(u, failure).outcomes = s.outcomes /\ Fail(u, failure).reason = "none"
    BY <2>1 DEF Fail, States, Stages
  <2>3. /\ z \in States /\ z.stage = "decide"
        /\ z.accepted = ok /\ z.patch = s.patch
        /\ z.current = <<>> /\ z.attempts = s.attempts
        /\ z.outcomes = s.outcomes /\ z.reason = "none"
    BY <1>4, <2>2 DEF States
  <2>4. s.attempts \in Nat /\ Len(s.outcomes) \in Nat /\ s.attempts <= MaxAttempts
        /\ s.attempts = Len(s.outcomes) + 1
    BY <1>1 DEF Running, Counted, States
  <2>5. Counted(z)
    BY <2>3, <2>4 DEF Counted
  <2>6. Ordered(z)
    BY <1>0, <2>3 DEF Ordered
  <2>7. QED BY <2>3, <2>5, <2>6 DEF Running
<1>5. ASSUME s.patch \in Valid, t = [w EXCEPT !.stage = "verify"]
      PROVE  Running(t)
  <2>0. t \in States
    <3>1. w \in States /\ t = [w EXCEPT !.stage = "verify"]
      BY <1>3, <1>5
    <3>2. QED BY <3>1 DEF States, Stages
  <2>1. /\ t \in States /\ t.stage = "verify" /\ t.accepted = ok /\ t.patch = s.patch
        /\ t.current = <<>> /\ t.cursor = 0 /\ t.attempts = s.attempts
        /\ t.outcomes = s.outcomes /\ t.reason = "none"
    BY <1>3, <1>5, <2>0 DEF States
  <2>2. s.attempts \in Nat /\ Len(s.outcomes) \in Nat /\ s.attempts <= MaxAttempts
        /\ s.attempts = Len(s.outcomes) + 1
    BY <1>1 DEF Running, Counted, States
  <2>3. Counted(t)
    BY <2>1, <2>2 DEF Counted
  <2>4. Ordered(t)
    BY <1>0, <1>5, <2>1, ConstantFacts DEF Ordered
  <2>5. QED BY <2>1, <2>3, <2>4 DEF Running
<1>6. \/ s.patch \in s.seen
         /\ t = [Fail(v, "duplicate_patch") EXCEPT !.pending = "duplicate_patch"]
      \/ s.patch \in Foreign /\ t = Fail(w, "patch_run_mismatch")
      \/ s.patch \notin Valid /\ t = Fail(w, "patch_rejected")
      \/ s.patch \in Valid /\ t = [w EXCEPT !.stage = "verify"]
  <2>1. /\ v = [s EXCEPT !.accepted = s.patch \in Valid]
        /\ w = [v EXCEPT !.seen = v.seen \union {s.patch}]
    BY DEF ok, v, w
  <2>2. QED BY <2>1 DEF Validate
<1>7. {"duplicate_patch", "patch_run_mismatch", "patch_rejected"} \subseteq Failures
      /\ "duplicate_patch" \in Pendings
  BY DEF Failures, Pendings
<1>8. QED BY <1>4, <1>5, <1>6, <1>7

\* What neither the clock nor a budget changes.
SameAttempt(s, t) ==
  /\ t.patch = s.patch /\ t.accepted = s.accepted /\ t.current = s.current
  /\ t.attempts = s.attempts /\ t.outcomes = s.outcomes /\ t.reason = s.reason

LEMMA ElapseHaltSame ==
  ASSUME NEW s \in States, NEW tick \in Ticks
  PROVE  Halt(Elapse(s, tick)) \in States /\ SameAttempt(s, Halt(Elapse(s, tick)))
<1> DEFINE elapsed == Capped(s.elapsed + tick, MaxWall)
           u == Elapse(s, tick)
<1>1. s.elapsed \in 0..(MaxWall + 1) /\ tick \in Nat /\ MaxWall \in Nat
  BY ConstantFacts, OrchestratorAssumption DEF States
<1>2. elapsed \in 0..(MaxWall + 1)
  BY <1>1, CappedType
<1>3. u = [s EXCEPT !.elapsed = elapsed]
  BY DEF Elapse, States
<1> HIDE DEF elapsed, u
<1>4. u \in States
  BY <1>2, <1>3 DEF States
<1>5. SameAttempt(s, u)
  BY <1>3 DEF States, SameAttempt
<1>6. Halt(u) \in States /\ SameAttempt(u, Halt(u))
  <2>1. CASE BudgetReason(u) = "none"
    BY <1>4, <2>1 DEF Halt, SameAttempt
  <2>2. CASE BudgetReason(u) # "none"
    <3>1. BudgetReason(u) \in Pendings
      BY DEF BudgetReason, Pendings, BudgetReasons
    <3>2. Halt(u) = [u EXCEPT !.pending = BudgetReason(u), !.stage = "decide"]
      BY <2>2 DEF Halt
    <3>3. Halt(u) \in States
      BY <1>4, <3>1, <3>2 DEF States, Stages
    <3>4. SameAttempt(u, Halt(u))
      BY <1>4, <3>2 DEF States, SameAttempt
    <3>5. QED BY <3>3, <3>4
  <2>3. QED BY <2>1, <2>2
<1>7. QED BY <1>5, <1>6 DEF SameAttempt, u

LEMMA JudgedRunning ==
  ASSUME NEW s, Running(s), s.stage = "verify", NEW r \in Results, NEW tick \in Ticks
  PROVE  Running(Judged(s, r, tick))
<1> DEFINE complaint == Complaint(s, r)
           t == [s EXCEPT !.current = Append(s.current, r), !.results = Append(s.results, r),
                          !.cursor = s.cursor + 1, !.failure = complaint]
           u == Halt(Elapse(t, tick))
<1>1. s \in States /\ s.accepted /\ s.cursor < Len(Plan) /\ s.patch \in Valid /\ s.reason = "none"
  BY DEF Running, Ordered
<1>2. complaint \in Failures
  BY <1>1 DEF Complaint, Failures, States
<1>3. /\ Append(s.current, r) \in Seq(Results) /\ Append(s.results, r) \in Seq(Results)
      /\ s.cursor + 1 \in 0..Len(Plan)
  BY <1>1, ConstantFacts DEF States
<1> HIDE DEF complaint
<1>4. t \in States
  BY <1>1, <1>2, <1>3 DEF States
<1>5. /\ t.stage = "verify" /\ t.accepted = s.accepted /\ t.patch = s.patch
      /\ t.cursor = s.cursor + 1 /\ t.attempts = s.attempts /\ t.outcomes = s.outcomes
      /\ t.reason = s.reason
  BY <1>1 DEF States
<1>6. Judged(s, r, tick) = IF t.cursor = Len(Plan) THEN [u EXCEPT !.stage = "decide"] ELSE u
  BY <1>1 DEF Judged, complaint, States
<1> HIDE DEF t
<1>7. u \in States /\ SameAttempt(t, u)
  BY <1>4, ElapseHaltSame
<1>8. CASE t.cursor = Len(Plan)
  <2> DEFINE z == [u EXCEPT !.stage = "decide"]
  <2> HIDE DEF u
  <2>1. z \in States
    BY <1>7 DEF States, Stages
  <2>2. z.stage = "decide" /\ SameAttempt(u, z)
    BY <1>7 DEF States, SameAttempt
  <2> HIDE DEF z
  <2>3. SameAttempt(t, z)
    BY <1>7, <2>2 DEF SameAttempt
  <2>4. Running(z)
    BY <1>1, <1>5, <2>1, <2>2, <2>3, DecideRunning DEF SameAttempt
  <2>5. QED BY <1>6, <1>8, <2>4 DEF z
<1>9. CASE t.cursor # Len(Plan)
  <2>1. Ordered(t)
    <3>1. s.cursor + 1 < Len(Plan)
      BY <1>3, <1>5, <1>9, ConstantFacts
    <3>2. QED BY <1>1, <1>5, <3>1 DEF Ordered
  <2>2. Counted(t)
    BY <1>5 DEF Running, Counted
  <2>3. Running(t)
    BY <1>1, <1>4, <1>5, <2>1, <2>2 DEF Running
  <2>4. Running(u)
    BY <2>3, ElapseRunning, HaltRunning
  <2>5. QED BY <1>6, <1>9, <2>4
<1>10. QED BY <1>8, <1>9

LEMMA VerifyRunning ==
  ASSUME NEW s, Running(s), s.stage = "verify", NEW returned \in SUBSET Results,
         NEW t \in Verify(s, returned)
  PROVE  Running(t)
<1>1. CASE \E r \in returned, tick \in Ticks : t = Judged(s, r, tick)
  BY <1>1, JudgedRunning
<1>2. CASE \E tick \in Ticks : t = Unverified(s, tick)
  BY <1>2, FailRunning, ElapseRunning DEF Unverified, Failures
<1>3. QED BY <1>1, <1>2 DEF Verify

\* A verifier answers with a result about a patch that exists.
LEMMA AnswersType ==
  ASSUME NEW s, Running(s), s.stage = "verify"
  PROVE  Answers(s) \subseteq Results
<1>1. s.patch \in Patches /\ s.attempts \in Nat
  BY ConstantFacts DEF Running, Ordered, States
<1>2. QED BY <1>1 DEF Answers, Results

-----------------------------------------------------------------------------
(* Deciding.                                                               *)

LEMMA ReportFacts ==
  ASSUME NEW s, Running(s), s.stage = "decide"
  PROVE  LET t == Report(s) IN
         /\ t \in States /\ Len(t.outcomes) = s.attempts
         /\ t.patch = s.patch /\ t.accepted = s.accepted /\ t.current = s.current
         /\ t.attempts = s.attempts /\ t.reason = s.reason
<1>1. s \in States /\ s.attempts \in Nat /\ s.outcomes \in Seq(Outcomes)
  BY DEF Running, States
<1>2. Len(s.outcomes) \in {s.attempts - 1, s.attempts}
  BY DEF Running, Counted
<1>3. CASE s.attempts > Len(s.outcomes)
  <2> DEFINE outcomes == Append(s.outcomes, OutcomeOf(s))
  <2>1. OutcomeOf(s) \in Outcomes
    BY <1>1 DEF OutcomeOf, Outcomes, States
  <2>2. outcomes \in Seq(Outcomes) /\ Len(outcomes) = Len(s.outcomes) + 1
    BY <1>1, <2>1
  <2>3. Report(s) = [s EXCEPT !.outcomes = outcomes]
    BY <1>3 DEF Report
  <2> HIDE DEF outcomes
  <2>4. Report(s) \in States
    BY <1>1, <2>2, <2>3 DEF States
  <2>5. Report(s).outcomes = outcomes
    BY <1>1, <2>3 DEF States
  <2>6. Len(Report(s).outcomes) = s.attempts
    BY <1>1, <1>2, <1>3, <2>2, <2>5
  <2>7. QED BY <1>1, <2>3, <2>4, <2>6 DEF States
<1>4. CASE ~(s.attempts > Len(s.outcomes))
  <2>1. Report(s) = s
    BY <1>4 DEF Report
  <2>2. QED BY <1>1, <1>2, <1>4, <2>1
<1>5. QED BY <1>3, <1>4

LEMMA FinishSound ==
  ASSUME NEW s \in States, NEW reason \in Reasons,
         s.accepted => s.patch \in Valid, s.current # <<>> => s.accepted,
         Len(s.outcomes) = s.attempts, s.attempts <= MaxAttempts,
         reason = "verified" =>
           /\ s.patch \in Valid \ Foreign
           /\ \E commit \in Descendants : \A w \in Workloads : \E r \in Range(s.current) :
                /\ r.workload = w /\ r.status = "passed"
                /\ Belongs(r, s.patch, commit, s.attempts)
                /\ r.commit = commit
  PROVE  Sound(Finish(s, reason))
<1> DEFINE level == LevelOf(s, s.results)
           t == Finish(s, reason)
<1>1. level \in 0..3
      /\ (level = 3 => \A r \in Range(s.results) : r.status = "passed" /\ r.own /\ r.patch = s.patch)
  BY LevelFacts
<1> HIDE DEF level
<1>2. t = [s EXCEPT !.reason = reason, !.stage = "stopped", !.decision = level]
  BY DEF Finish, level
<1> HIDE DEF t
<1>3. t \in States
  BY <1>1, <1>2 DEF States, Stages
<1>4. /\ t.reason = reason /\ t.stage = "stopped" /\ t.decision = level /\ t.patch = s.patch
      /\ t.accepted = s.accepted /\ t.current = s.current /\ t.results = s.results
      /\ t.attempts = s.attempts /\ t.outcomes = s.outcomes
  BY <1>2 DEF States
<1>5. Ordered(t)
  BY <1>4 DEF Ordered
<1>6. Counted(t)
  BY <1>4 DEF Counted
<1>7. Honest(t)
  BY <1>1, <1>4 DEF Honest
<1>8. QED BY <1>3, <1>5, <1>6, <1>7 DEF Sound, t

LEMMA DecideSound ==
  ASSUME NEW s, Running(s), s.stage = "decide", NEW t \in Decide(s)
  PROVE  Sound(t)
<1> DEFINE level == LevelOf(s, s.current)
           u == Report(s)
           v == [u EXCEPT !.decision = level]
<1>1. /\ s \in States /\ s.attempts \in Nat /\ s.attempts <= MaxAttempts
      /\ s.pending \in Pendings /\ s.reason = "none"
      /\ s.accepted => s.patch \in Valid
      /\ s.current # <<>> => s.accepted
  BY DEF Running, Ordered, Counted, States
<1>2. level \in 0..3
  BY <1>1, LevelFacts
<1>3. /\ u \in States /\ Len(u.outcomes) = s.attempts
      /\ u.patch = s.patch /\ u.accepted = s.accepted /\ u.current = s.current
      /\ u.attempts = s.attempts /\ u.reason = "none"
  BY <1>1, ReportFacts
<1>4. t = IF s.pending # "none" THEN Finish(v, s.pending)
          ELSE IF AllPassed(s) /\ level >= 2 THEN Finish(v, "verified")
          ELSE IF level # 2 THEN Finish(v, "decision_declined")
          ELSE IF s.attempts >= MaxAttempts THEN Finish(v, "max_attempts")
          ELSE [v EXCEPT !.stage = "context"]
  BY DEF Decide
<1> HIDE DEF level, u
<1>5. v \in States
  BY <1>2, <1>3 DEF States
<1>6. /\ Len(v.outcomes) = s.attempts /\ v.patch = s.patch /\ v.accepted = s.accepted
      /\ v.current = s.current /\ v.attempts = s.attempts /\ v.reason = "none"
  BY <1>3 DEF States
<1> HIDE DEF v
<1>7. {"max_attempts", "decision_declined", "verified"} \subseteq Reasons /\ Pendings \subseteq Reasons
      /\ "verified" \notin Pendings
  BY DEF Reasons, Pendings, BudgetReasons
<1>8. ASSUME NEW reason \in Reasons \ {"verified"} PROVE Sound(Finish(v, reason))
  BY <1>1, <1>5, <1>6, FinishSound
<1>9. ASSUME AllPassed(s), level >= 2 PROVE Sound(Finish(v, "verified"))
  <2>1. s.current # <<>>
    BY <1>9, ConstantFacts DEF AllPassed
  <2>2. s.accepted /\ s.patch \in Valid /\ level \in 2..3
    BY <1>1, <1>2, <1>9, <2>1
  <2>3. /\ s.patch \in Valid \ Foreign
        /\ \E commit \in Descendants : \A w \in Workloads : \E r \in Range(s.current) :
             /\ r.workload = w /\ r.status = "passed"
             /\ Belongs(r, s.patch, commit, s.attempts)
             /\ r.commit = commit
    BY <1>1, <1>9, <2>2, PassedAgreement DEF level
  <2>4. QED BY <1>1, <1>5, <1>6, <1>7, <2>3, FinishSound
<1>10. ASSUME ~(s.attempts >= MaxAttempts), t = [v EXCEPT !.stage = "context"]
       PROVE  Sound(t)
  <2>1. t \in States
    <3>1. v \in States /\ t = [v EXCEPT !.stage = "context"]
      BY <1>5, <1>10
    <3>2. QED BY <3>1 DEF States, Stages
  <2>2. /\ t.stage = "context" /\ t.outcomes = v.outcomes /\ t.patch = v.patch
        /\ t.accepted = v.accepted /\ t.current = v.current /\ t.attempts = v.attempts
        /\ t.reason = v.reason
    BY <1>5, <1>10 DEF States
  <2>3. s.attempts < MaxAttempts
    BY <1>1, <1>10, ConstantFacts
  <2>4. Ordered(t)
    BY <1>1, <1>6, <2>2 DEF Ordered
  <2>5. Counted(t)
    BY <1>1, <1>6, <2>2, <2>3 DEF Counted
  <2>6. Honest(t)
    BY <1>6, <2>2 DEF Honest
  <2>7. QED BY <2>1, <2>4, <2>5, <2>6 DEF Sound
<1>11. QED BY <1>1, <1>4, <1>7, <1>8, <1>9, <1>10


-----------------------------------------------------------------------------
(***************************************************************************)
(* What the fields of a snapshot say about each other: the rest of what    *)
(* NoPatchVerifiedTwice and ReasonHonest rest on.                          *)
(***************************************************************************)
\* What is recorded of an exceeded budget is true.
Budgeted(s) ==
  /\ s.pending = "time_budget_exceeded" => s.elapsed > MaxWall
  /\ s.pending = "token_budget_exceeded" => s.tokens > MaxTokens
  /\ s.pending = "cost_budget_exceeded" => s.cost > MaxCost

\* A result names a patch that is seen and an attempt that has begun; the patch
\* that is being verified has no results of an earlier attempt.
Resulted(s) ==
  /\ \A i \in DOMAIN s.results : s.results[i].patch \in s.seen /\ s.results[i].attempt <= s.attempts
  /\ \A i, j \in DOMAIN s.results :
       s.results[i].patch = s.results[j].patch => s.results[i].attempt = s.results[j].attempt
  /\ s.stage = "verify" =>
       /\ s.patch \in s.seen
       /\ \A i \in DOMAIN s.results :
            s.results[i].patch = s.patch => s.results[i].attempt = s.attempts

\* A patch that is seen was reported, but for the one of an attempt under way.
WasReported(s, patch) == \E i \in DOMAIN s.outcomes : s.outcomes[i].patch = patch
Reported(s) ==
  /\ \A patch \in s.seen :
       \/ WasReported(s, patch)
       \/ /\ patch = s.patch /\ s.stage \in {"verify", "decide"} /\ Len(s.outcomes) < s.attempts
  /\ s.pending = "duplicate_patch" =>
       /\ s.stage \in {"decide", "stopped"}
       /\ s.stage = "decide" => Len(s.outcomes) < s.attempts /\ WasReported(s, s.patch)

\* An attempt without a complaint has passed what it verified so far, and is
\* decided about when that is the whole plan.
AllPass(s) == \A i \in DOMAIN s.current : s.current[i].status = "passed"
Concluded(s) ==
  /\ s.stage \in {"diagnose", "patch", "validate"} => s.current = <<>>
  /\ s.stage = "verify" => Len(s.current) = s.cursor /\ (s.failure = "none" => AllPass(s))
  /\ s.stage = "decide" /\ s.pending = "none" =>
       /\ Len(s.outcomes) < s.attempts
       /\ s.failure = "none" => Len(s.current) = Len(Plan) /\ AllPass(s)

\* A reason that is given is the case.
Explained(s) ==
  LET last == s.outcomes[Len(s.outcomes)] IN
  /\ s.reason = "time_budget_exceeded" => s.elapsed > MaxWall
  /\ s.reason = "token_budget_exceeded" => s.tokens > MaxTokens
  /\ s.reason = "cost_budget_exceeded" => s.cost > MaxCost
  /\ s.reason = "duplicate_patch" =>
       \E i \in 1..(Len(s.outcomes) - 1) : s.outcomes[i].patch = last.patch
  /\ s.reason = "max_attempts" =>
       s.attempts = MaxAttempts /\ last.outcome # "verification_passed"

Told(s) == Budgeted(s) /\ Resulted(s) /\ Reported(s) /\ Concluded(s)

\* What neither a budget, the clock nor a change of the stage touches.
SameRecords(s, t) ==
  /\ t.patch = s.patch /\ t.seen = s.seen /\ t.current = s.current /\ t.results = s.results
  /\ t.cursor = s.cursor /\ t.failure = s.failure /\ t.attempts = s.attempts
  /\ t.outcomes = s.outcomes

\* An exceeded budget stays exceeded.
NoRefund(s, t) ==
  /\ s.elapsed > MaxWall => t.elapsed > MaxWall
  /\ s.tokens > MaxTokens => t.tokens > MaxTokens
  /\ s.cost > MaxCost => t.cost > MaxCost

LEMMA CappedStays ==
  ASSUME NEW limit \in Nat, NEW n \in 0..(limit + 1), NEW more \in Nat, n > limit
  PROVE  Capped(n + more, limit) > limit
BY DEF Capped

LEMMA ElapseFields ==
  ASSUME NEW s \in States, NEW tick \in Ticks
  PROVE  LET t == Elapse(s, tick) IN
         /\ t \in States /\ SameRecords(s, t) /\ NoRefund(s, t)
         /\ t.stage = s.stage /\ t.pending = s.pending
<1> DEFINE elapsed == Capped(s.elapsed + tick, MaxWall)
<1>1. s.elapsed \in 0..(MaxWall + 1) /\ tick \in Nat /\ MaxWall \in Nat
  BY ConstantFacts, OrchestratorAssumption DEF States
<1>2. elapsed \in 0..(MaxWall + 1) /\ (s.elapsed > MaxWall => elapsed > MaxWall)
  BY <1>1, CappedType, CappedStays
<1>3. Elapse(s, tick) = [s EXCEPT !.elapsed = elapsed]
  BY DEF Elapse, States
<1> HIDE DEF elapsed
<1>4. QED BY <1>2, <1>3 DEF States, SameRecords, NoRefund

LEMMA SpendFields ==
  ASSUME NEW s \in States, NEW usage \in Usages
  PROVE  LET t == Spend(s, usage) IN
         /\ t \in States /\ SameRecords(s, t) /\ NoRefund(s, t)
         /\ t.stage = s.stage /\ t.pending = s.pending
<1> DEFINE tokens == Capped(s.tokens + usage.tokens, MaxTokens)
           cost == Capped(s.cost + usage.cost, MaxCost)
<1>1. usage.tokens \in Nat /\ usage.cost \in Nat /\ MaxTokens \in Nat /\ MaxCost \in Nat
  BY ConstantFacts, OrchestratorAssumption
<1>2. s.tokens \in 0..(MaxTokens + 1) /\ s.cost \in 0..(MaxCost + 1)
  BY DEF States
<1>3. tokens \in 0..(MaxTokens + 1) /\ (s.tokens > MaxTokens => tokens > MaxTokens)
  BY <1>1, <1>2, CappedType, CappedStays
<1>4. cost \in 0..(MaxCost + 1) /\ (s.cost > MaxCost => cost > MaxCost)
  BY <1>1, <1>2, CappedType, CappedStays
<1>5. Spend(s, usage) = [s EXCEPT !.tokens = tokens, !.cost = cost]
  BY DEF Spend, States
<1> HIDE DEF tokens, cost
<1>6. QED BY <1>3, <1>4, <1>5 DEF States, SameRecords, NoRefund

LEMMA HaltFields ==
  ASSUME NEW s \in States
  PROVE  LET t == Halt(s) IN
         /\ t \in States /\ SameRecords(s, t)
         /\ t = s \/ (t.stage = "decide" /\ t.pending \in BudgetReasons /\ Budgeted(t))
<1>1. CASE BudgetReason(s) = "none"
  BY <1>1 DEF Halt, SameRecords
<1>2. CASE BudgetReason(s) # "none"
  <2> DEFINE t == Halt(s)
  <2>1. BudgetReason(s) \in BudgetReasons /\ BudgetReason(s) \in Pendings
    BY <1>2 DEF BudgetReason, Pendings, BudgetReasons
  <2>2. t = [s EXCEPT !.pending = BudgetReason(s), !.stage = "decide"]
    BY <1>2 DEF Halt
  <2> HIDE DEF t
  <2>3. t \in States
    BY <2>1, <2>2 DEF States, Stages
  <2>4. /\ SameRecords(s, t) /\ t.stage = "decide" /\ t.pending = BudgetReason(s)
        /\ t.elapsed = s.elapsed /\ t.tokens = s.tokens /\ t.cost = s.cost
    BY <2>2 DEF States, SameRecords
  <2>5. Budgeted(t)
    BY <2>4 DEF Budgeted, BudgetReason
  <2>6. QED BY <2>1, <2>3, <2>4, <2>5 DEF t
<1>3. QED BY <1>1, <1>2

LEMMA ClockTold ==
  ASSUME NEW s, NEW t, Told(s), SameRecords(s, t), NoRefund(s, t),
         t.stage = s.stage, t.pending = s.pending
  PROVE  Told(t)
<1>1. Budgeted(t) /\ Resulted(t)
  BY DEF Told, Budgeted, Resulted, SameRecords, NoRefund
<1>2. Reported(t)
  BY DEF Told, Reported, WasReported, SameRecords
<1>3. Concluded(t)
  BY DEF Told, Concluded, AllPass, SameRecords
<1>4. QED BY <1>1, <1>2, <1>3 DEF Told

\* The decision stage may be entered from every other, with a reason to stop or
\* a complaint about the attempt.
LEMMA DecideTold ==
  ASSUME NEW s, Running(s), Told(s), NEW t \in States, t.stage = "decide", Budgeted(t),
         t.patch = s.patch, t.seen = s.seen, t.results = s.results, t.attempts = s.attempts,
         t.outcomes = s.outcomes,
         t.pending = "duplicate_patch" => Len(s.outcomes) < s.attempts /\ WasReported(s, s.patch),
         t.pending = "none" =>
           Len(s.outcomes) < s.attempts
             /\ (t.failure # "none" \/ (Len(t.current) = Len(Plan) /\ AllPass(t)))
  PROVE  Told(t)
<1>1. Resulted(t)
  BY DEF Told, Resulted
<1>2. s.stage = "verify" => Len(s.outcomes) < s.attempts
  BY DEF Running, Counted, States
<1>3. Reported(t)
  BY <1>2 DEF Told, Reported, WasReported
<1>4. Concluded(t)
  BY DEF Concluded
<1>5. QED BY <1>1, <1>3, <1>4 DEF Told

LEMMA HaltTold ==
  ASSUME NEW s, Running(s), Told(s)
  PROVE  Told(Halt(s))
<1>1. s \in States
  BY DEF Running
<1>2. CASE Halt(s) = s
  BY <1>2
<1>3. CASE Halt(s).stage = "decide" /\ Halt(s).pending \in BudgetReasons /\ Budgeted(Halt(s))
  <2>1. Halt(s) \in States /\ SameRecords(s, Halt(s))
    BY <1>1, HaltFields
  <2>2. Halt(s).pending # "none" /\ Halt(s).pending # "duplicate_patch"
    BY <1>3 DEF BudgetReasons
  <2>3. QED BY <1>3, <2>1, <2>2, DecideTold DEF SameRecords
<1>4. QED BY <1>1, <1>2, <1>3, HaltFields

LEMMA AccountedTold ==
  ASSUME NEW s, Running(s), Told(s), NEW t \in Accounted(s)
  PROVE  Told(t) /\ Running(t) /\ SameRecords(s, t) /\ t.stage \in {s.stage, "decide"}
<1>1. PICK usage \in Usages, tick \in Ticks : t = Halt(Elapse(Spend(s, usage), tick))
  BY DEF Accounted
<1> DEFINE u == Spend(s, usage)
           v == Elapse(u, tick)
<1>2. Running(u) /\ Told(u) /\ SameRecords(s, u) /\ u.stage = s.stage
  BY SpendRunning, SpendFields, ClockTold DEF Running
<1> HIDE DEF u
<1>3. Running(v) /\ Told(v) /\ SameRecords(u, v) /\ v.stage = u.stage
  BY <1>2, ElapseRunning, ElapseFields, ClockTold DEF Running
<1> HIDE DEF v
<1>4. t = Halt(v)
  BY <1>1 DEF u, v
<1>5. Running(t) /\ Told(t) /\ t.stage \in {v.stage, "decide"} /\ SameRecords(v, t)
  BY <1>3, <1>4, HaltRunning, HaltTold, HaltFields DEF Running
<1>6. SameRecords(s, t)
  BY <1>2, <1>3, <1>5 DEF SameRecords
<1>7. QED BY <1>2, <1>3, <1>5, <1>6

\* A complaint ends the attempt.
LEMMA FailTold ==
  ASSUME NEW s, Running(s), Told(s), s.stage # "context", NEW failure \in Failures \ {"none"}
  PROVE  Told(Fail(s, failure))
<1> DEFINE t == Fail(s, failure)
<1>1. s \in States /\ t = [s EXCEPT !.failure = failure, !.stage = "decide"]
  BY DEF Running, Fail
<1> HIDE DEF t
<1>2. t \in States
  BY <1>1 DEF States, Stages
<1>3. /\ t.stage = "decide" /\ t.failure = failure /\ t.pending = s.pending /\ t.patch = s.patch
      /\ t.seen = s.seen /\ t.results = s.results /\ t.attempts = s.attempts
      /\ t.outcomes = s.outcomes /\ t.elapsed = s.elapsed /\ t.tokens = s.tokens
      /\ t.cost = s.cost
  BY <1>1 DEF States
<1>4. Budgeted(t)
  BY <1>3 DEF Told, Budgeted
<1>5. s.attempts \in Nat /\ Len(s.outcomes) \in Nat /\ s.stage \in Stages
  BY <1>1 DEF States
<1>6. t.pending = "none" => Len(s.outcomes) < s.attempts
  BY <1>3, <1>5 DEF Told, Concluded, Running, Counted, Stages
<1>7. t.pending = "duplicate_patch" => Len(s.outcomes) < s.attempts /\ WasReported(s, s.patch)
  BY <1>3 DEF Told, Reported, Running
<1>8. Told(t)
  BY <1>2, <1>3, <1>4, <1>6, <1>7, DecideTold
<1>9. QED BY <1>8 DEF t

LEMMA ContextTold ==
  ASSUME NEW s, Running(s), Told(s), s.stage = "context", NEW t \in BuildContext(s)
  PROVE  Told(t)
<1>1. s \in States
      /\ t = [s EXCEPT !.attempts = s.attempts + 1, !.patch = None, !.accepted = FALSE,
                       !.current = <<>>, !.cursor = 0, !.failure = "none",
                       !.stage = "diagnose"]
  BY DEF Running, BuildContext
<1>2. /\ t.stage = "diagnose" /\ t.attempts = s.attempts + 1 /\ t.current = <<>>
      /\ t.outcomes = s.outcomes /\ t.pending = s.pending /\ t.seen = s.seen
      /\ t.results = s.results /\ t.elapsed = s.elapsed /\ t.tokens = s.tokens
      /\ t.cost = s.cost
  BY <1>1 DEF States
<1>a. s.attempts \in Nat /\ s.results \in Seq(Results)
  BY <1>1 DEF States
<1>b. \A i \in DOMAIN s.results : s.results[i] \in Results
  BY <1>a
<1>3. s.attempts \in Nat /\ \A i \in DOMAIN s.results : s.results[i].attempt \in Nat
  BY <1>a, <1>b DEF Results
<1>4. Budgeted(t) /\ Resulted(t)
  BY <1>2, <1>3 DEF Told, Budgeted, Resulted
<1>5. Reported(t) /\ Concluded(t)
  BY <1>2 DEF Told, Reported, WasReported, Concluded
<1>6. QED BY <1>4, <1>5 DEF Told

\* From asking for a diagnosis to asking for a patch and to validating it.
LEMMA AdvanceTold ==
  ASSUME NEW s, Running(s), Told(s), NEW stage \in {"patch", "validate"},
         s.stage \in {"diagnose", "patch", "decide"}
  PROVE  Told(Advance(s, stage))
<1>1. CASE s.stage = "decide"
  BY <1>1 DEF Advance
<1>2. CASE s.stage # "decide"
  <2> DEFINE t == Advance(s, stage)
  <2>1. s \in States /\ t = [s EXCEPT !.stage = stage]
    BY <1>2 DEF Running, Advance
  <2> HIDE DEF t
  <2>2. /\ SameRecords(s, t) /\ t.stage = stage /\ t.pending = s.pending
        /\ t.elapsed = s.elapsed /\ t.tokens = s.tokens /\ t.cost = s.cost
    BY <2>1 DEF States, SameRecords
  <2>3. Budgeted(t) /\ Resulted(t)
    BY <2>2 DEF Told, Budgeted, Resulted, SameRecords
  <2>4. Reported(t) /\ Concluded(t)
    BY <1>2, <2>2 DEF Told, Reported, WasReported, Concluded, SameRecords
  <2>5. QED BY <2>3, <2>4 DEF Told, t
<1>3. QED BY <1>1, <1>2

LEMMA DiagnoseTold ==
  ASSUME NEW s, Running(s), Told(s), s.stage = "diagnose", NEW t \in Diagnose(s)
  PROVE  Told(t)
<1>1. PICK u \in Accounted(s) : t = Advance(u, "patch") \/ t = Fail(u, "diagnose_abandoned")
  BY DEF Diagnose
<1>2. Running(u) /\ Told(u) /\ u.stage \in {"diagnose", "decide"}
  BY <1>1, AccountedTold
<1>3. QED BY <1>1, <1>2, AdvanceTold, FailTold DEF Failures

LEMMA ProposeTold ==
  ASSUME NEW s, Running(s), Told(s), s.stage = "patch", NEW t \in Propose(s)
  PROVE  Told(t)
<1> DEFINE With(p) == [s EXCEPT !.patch = p]
<1>1. \/ \E p \in Patches : \E u \in Accounted(With(p)) : t = Advance(u, "validate")
      \/ \E u \in Accounted(s), failure \in {"patch_abandoned", "patch_missing"} :
           t = Fail(u, failure)
  BY SMTT(30) DEF Propose
<1>2. CASE \E p \in Patches : \E u \in Accounted(With(p)) : t = Advance(u, "validate")
  <2>1. PICK p \in Patches : \E u \in Accounted(With(p)) : t = Advance(u, "validate")
    BY <1>2
  <2>2. PICK u \in Accounted(With(p)) : t = Advance(u, "validate")
    BY <2>1
  <2>3. With(p) \in States /\ With(p).patch = p /\ With(p).stage = "patch"
    BY DEF Running, States
  <2>4. Running(With(p))
    BY <2>3 DEF Running, States, Ordered, Counted
  <2>5. Told(With(p))
    <3>1. /\ With(p).seen = s.seen /\ With(p).current = s.current /\ With(p).results = s.results
          /\ With(p).attempts = s.attempts /\ With(p).outcomes = s.outcomes
          /\ With(p).pending = s.pending /\ With(p).elapsed = s.elapsed
          /\ With(p).tokens = s.tokens /\ With(p).cost = s.cost
      BY DEF Running, States
    <3> HIDE DEF With
    <3>2. Budgeted(With(p)) /\ Resulted(With(p))
      BY <2>3, <3>1 DEF Told, Budgeted, Resulted
    <3>3. Reported(With(p)) /\ Concluded(With(p))
      BY <2>3, <3>1 DEF Told, Reported, WasReported, Concluded
    <3>4. QED BY <3>2, <3>3 DEF Told
  <2> HIDE DEF With
  <2>6. Running(u) /\ Told(u) /\ u.stage \in {"patch", "decide"}
    BY <2>2, <2>3, <2>4, <2>5, AccountedTold
  <2>7. QED BY <2>2, <2>6, AdvanceTold
<1>3. CASE \E u \in Accounted(s), failure \in {"patch_abandoned", "patch_missing"} :
             t = Fail(u, failure)
  BY <1>3, AccountedTold, FailTold DEF Failures
<1>4. QED BY <1>1, <1>2, <1>3

LEMMA ValidateTold ==
  ASSUME NEW s, Running(s), Told(s), s.stage = "validate", NEW t \in Validate(s)
  PROVE  Told(t)
<1>1. /\ s \in States /\ s.current = <<>> /\ s.cursor = 0
      /\ s.attempts \in Nat /\ Len(s.outcomes) \in Nat /\ s.attempts = Len(s.outcomes) + 1
      /\ s.pending # "duplicate_patch"
  BY DEF Running, Ordered, Counted, States, Told, Concluded, Reported
\* The patch was seen, and so reported, before.
<1>2. CASE s.patch \in s.seen
  <2>1. WasReported(s, s.patch) /\ Len(s.outcomes) < s.attempts
    BY <1>1, <1>2 DEF Told, Reported
  <2>2. t = [Fail([s EXCEPT !.accepted = s.patch \in Valid], "duplicate_patch")
               EXCEPT !.pending = "duplicate_patch"]
    BY <1>2 DEF Validate
  <2>3. /\ t.stage = "decide" /\ t.pending = "duplicate_patch" /\ t.patch = s.patch
        /\ t.seen = s.seen /\ t.results = s.results /\ t.attempts = s.attempts
        /\ t.outcomes = s.outcomes
    BY <1>1, <2>2 DEF Fail, States
  <2>4. Budgeted(t)
    BY <2>3 DEF Budgeted
  <2>5. Resulted(t)
    BY <2>3 DEF Told, Resulted
  <2>6. Reported(t) /\ Concluded(t)
    BY <2>1, <2>3 DEF Told, Reported, WasReported, Concluded
  <2>7. QED BY <2>4, <2>5, <2>6 DEF Told
\* It is seen from now on, whatever becomes of it.
<1>3. CASE s.patch \notin s.seen
  <2> DEFINE ok == s.patch \in Valid
             w == [[s EXCEPT !.accepted = ok] EXCEPT !.seen = s.seen \union {s.patch}]
  <2> HIDE DEF ok
  <2>1. /\ w.patch = s.patch /\ w.seen = s.seen \union {s.patch} /\ w.current = s.current
        /\ w.results = s.results /\ w.cursor = s.cursor /\ w.attempts = s.attempts
        /\ w.outcomes = s.outcomes /\ w.pending = s.pending /\ w.elapsed = s.elapsed
        /\ w.tokens = s.tokens /\ w.cost = s.cost
    BY <1>1 DEF States
  <2>2. \/ t = Fail(w, "patch_run_mismatch") \/ t = Fail(w, "patch_rejected")
        \/ t = [w EXCEPT !.stage = "verify"]
    <3>1. w = [[s EXCEPT !.accepted = s.patch \in Valid]
                 EXCEPT !.seen = [s EXCEPT !.accepted = s.patch \in Valid].seen \union {s.patch}]
      BY <1>1 DEF ok, States
    <3>2. QED BY <1>3, <3>1 DEF Validate
  <2>3. w \in States
    <3>1. ok \in BOOLEAN
      BY DEF ok
    <3>2. PICK seen \in SUBSET Patches : seen = s.seen \union {s.patch}
      BY <1>1 DEF States, Running, Ordered
    <3>3. PICK v \in States : v = [s EXCEPT !.accepted = ok]
      BY <1>1, <3>1 DEF States
    <3>4. [v EXCEPT !.seen = seen] \in States
      BY DEF States
    <3>5. QED BY <3>2, <3>3, <3>4
  <2> HIDE DEF w
  <2>4. /\ t.patch = s.patch /\ t.seen = s.seen \union {s.patch} /\ t.current = s.current
        /\ t.results = s.results /\ t.cursor = s.cursor /\ t.attempts = s.attempts
        /\ t.outcomes = s.outcomes /\ t.pending = s.pending /\ t.elapsed = s.elapsed
        /\ t.tokens = s.tokens /\ t.cost = s.cost
        /\ t.stage = "verify" \/ (t.stage = "decide" /\ t.failure # "none")
    BY <2>1, <2>2, <2>3 DEF Fail, States
  <2>5. Budgeted(t)
    BY <2>4 DEF Told, Budgeted
  <2>6. Resulted(t)
    BY <1>3, <2>4 DEF Told, Resulted
  <2>7. Reported(t)
    BY <1>1, <2>4 DEF Told, Reported, WasReported
  <2>8. Concluded(t)
    BY <1>1, <2>4 DEF Concluded, AllPass
  <2>9. QED BY <2>5, <2>6, <2>7, <2>8 DEF Told
<1>4. QED BY <1>2, <1>3

LEMMA JudgedTold ==
  ASSUME NEW s, Running(s), Told(s), s.stage = "verify", NEW r \in Results,
         r.patch = s.patch, r.attempt = s.attempts, NEW tick \in Ticks
  PROVE  Told(Judged(s, r, tick))
<1> DEFINE complaint == Complaint(s, r)
           current == Append(s.current, r)
           results == Append(s.results, r)
           t == [s EXCEPT !.current = current, !.results = results,
                          !.cursor = s.cursor + 1, !.failure = complaint]
           u == Halt(Elapse(t, tick))
<1>1. /\ s \in States /\ s.cursor < Len(Plan) /\ s.cursor \in Nat /\ Len(s.current) = s.cursor
      /\ s.current \in Seq(Results) /\ s.results \in Seq(Results) /\ s.failure \in Failures
      /\ s.failure = "none" => AllPass(s)
  BY ConstantFacts DEF Running, Ordered, States, Told, Concluded
<1>2. complaint \in Failures /\ (complaint = "none" => s.failure = "none" /\ r.status = "passed")
  BY <1>1 DEF Complaint, Failures
<1>3. /\ current \in Seq(Results) /\ results \in Seq(Results) /\ s.cursor + 1 \in 0..Len(Plan)
      /\ Len(current) = s.cursor + 1 /\ DOMAIN current = 1..(s.cursor + 1)
      /\ DOMAIN results = 1..(Len(s.results) + 1) /\ DOMAIN s.results = 1..Len(s.results)
      /\ \A i \in DOMAIN current : current[i] = IF i <= s.cursor THEN s.current[i] ELSE r
      /\ \A i \in DOMAIN results : results[i] = IF i <= Len(s.results) THEN s.results[i] ELSE r
      /\ Len(s.results) \in Nat /\ DOMAIN s.current = 1..s.cursor
  BY <1>1, ConstantFacts
<1> HIDE DEF complaint, current, results
<1>4. t \in States
  BY <1>1, <1>2, <1>3 DEF States
<1>5. /\ t.stage = "verify" /\ t.patch = s.patch /\ t.seen = s.seen /\ t.current = current
      /\ t.results = results /\ t.cursor = s.cursor + 1 /\ t.failure = complaint
      /\ t.attempts = s.attempts /\ t.outcomes = s.outcomes /\ t.pending = s.pending
      /\ t.elapsed = s.elapsed /\ t.tokens = s.tokens /\ t.cost = s.cost
  BY <1>1 DEF States
<1>6. Judged(s, r, tick) = IF t.cursor = Len(Plan) THEN [u EXCEPT !.stage = "decide"] ELSE u
  BY <1>1 DEF Judged, complaint, current, results, States
<1> HIDE DEF t
<1>7. Resulted(t)
  <2>1. ASSUME NEW i \in DOMAIN results
        PROVE  /\ results[i].patch \in s.seen /\ results[i].attempt <= s.attempts
               /\ results[i].patch = s.patch => results[i].attempt = s.attempts
    <3>1. s.attempts \in Nat
      BY <1>1 DEF States
    <3>2. CASE i <= Len(s.results)
      <4>1. results[i] = s.results[i] /\ i \in DOMAIN s.results
        BY <1>3, <2>1, <3>2
      <4>2. QED BY <4>1 DEF Told, Resulted
    <3>3. CASE ~(i <= Len(s.results))
      <4>1. results[i] = r
        BY <1>3, <2>1, <3>3
      <4>2. QED BY <3>1, <4>1 DEF Told, Resulted
    <3>4. QED BY <3>2, <3>3
  <2>2. ASSUME NEW i \in DOMAIN results, NEW j \in DOMAIN results,
               results[i].patch = results[j].patch
        PROVE  results[i].attempt = results[j].attempt
    <3>1. CASE i <= Len(s.results) /\ j <= Len(s.results)
      <4>1. /\ results[i] = s.results[i] /\ i \in DOMAIN s.results
            /\ results[j] = s.results[j] /\ j \in DOMAIN s.results
        BY <1>3, <2>2, <3>1
      <4>2. QED BY <2>2, <4>1 DEF Told, Resulted
    <3>2. CASE ~(i <= Len(s.results)) \/ ~(j <= Len(s.results))
      <4>1. results[i].patch = s.patch
        BY <1>3, <2>2, <3>2
      <4>2. QED BY <2>1, <2>2, <4>1
    <3>3. QED BY <3>1, <3>2
  <2>3. s.patch \in s.seen
    BY DEF Told, Resulted
  <2>4. QED BY <1>5, <2>1, <2>2, <2>3 DEF Resulted
<1>8. Budgeted(t) /\ Reported(t)
  BY <1>5 DEF Told, Budgeted, Reported, WasReported
<1>9. complaint = "none" => AllPass(t)
  BY <1>1, <1>2, <1>3, <1>5 DEF AllPass
<1>10. Concluded(t)
  BY <1>3, <1>5, <1>9 DEF Concluded
<1>11. Told(t)
  BY <1>7, <1>8, <1>10 DEF Told
\* The last workload, or the next one.
<1>12. CASE t.cursor = Len(Plan)
  <2> DEFINE z == [u EXCEPT !.stage = "decide"]
             v == Elapse(t, tick)
  <2>1. v \in States /\ SameRecords(t, v) /\ v.stage = "verify" /\ v.pending = t.pending /\ Told(v)
    BY <1>4, <1>5, <1>11, ElapseFields, ClockTold
  <2> HIDE DEF v
  <2>2. u \in States /\ SameRecords(v, u) /\ (u = v \/ (u.pending \in BudgetReasons /\ Budgeted(u)))
    BY <2>1, HaltFields DEF v
  <2> HIDE DEF u
  <2>3. u.pending # "duplicate_patch" /\ Budgeted(u)
    BY <2>1, <2>2 DEF Told, Reported, BudgetReasons
  <2>4. /\ z.stage = "decide" /\ SameRecords(u, z) /\ z.pending = u.pending /\ z.elapsed = u.elapsed
        /\ z.tokens = u.tokens /\ z.cost = u.cost
    BY <2>2 DEF States, SameRecords
  <2> HIDE DEF z
  <2>5. SameRecords(t, z)
    BY <2>1, <2>2, <2>4 DEF SameRecords
  <2>6. Budgeted(z)
    BY <2>3, <2>4 DEF Budgeted
  <2>7. Resulted(z)
    BY <1>7, <2>4, <2>5 DEF Resulted, SameRecords
  <2>8. Len(s.outcomes) < s.attempts
    BY <1>1 DEF Running, Counted, States
  <2>9. Reported(z)
    BY <1>5, <1>8, <2>3, <2>4, <2>5, <2>8 DEF Reported, WasReported, SameRecords
  <2>10. Concluded(z)
    BY <1>3, <1>5, <1>9, <1>12, <2>4, <2>5, <2>8 DEF Concluded, AllPass, SameRecords
  <2>11. QED BY <1>6, <1>12, <2>6, <2>7, <2>9, <2>10 DEF Told, z
<1>13. CASE t.cursor # Len(Plan)
  <2>1. Running(t)
    <3>1. s.cursor + 1 < Len(Plan)
      BY <1>3, <1>5, <1>13, ConstantFacts
    <3>2. t.accepted = s.accepted /\ t.reason = s.reason
      BY <1>1 DEF States, t
    <3>3. QED BY <1>4, <1>5, <3>1, <3>2 DEF Running, Ordered, Counted
  <2>2. Running(Elapse(t, tick)) /\ Told(Elapse(t, tick))
    BY <1>4, <1>11, <2>1, ElapseRunning, ElapseFields, ClockTold
  <2>3. QED BY <1>6, <1>13, <2>2, HaltTold
<1>14. QED BY <1>12, <1>13

LEMMA UnverifiedTold ==
  ASSUME NEW s, Running(s), Told(s), s.stage = "verify", NEW tick \in Ticks
  PROVE  Told(Unverified(s, tick))
<1>1. Told(Fail(s, "verifier_error")) /\ Running(Fail(s, "verifier_error"))
  BY FailTold, FailRunning DEF Failures
<1>2. QED BY <1>1, ElapseFields, ClockTold DEF Unverified, Running

-----------------------------------------------------------------------------
(* Deciding, told of.                                                      *)

\* Once an attempt is reported, its last report names its patch and outcome.
LEMMA ReportTold ==
  ASSUME NEW s, Running(s), Told(s), s.stage = "decide"
  PROVE  LET t == Report(s) n == Len(Report(s).outcomes) IN
         /\ t \in States /\ t.seen = s.seen /\ t.results = s.results /\ t.attempts = s.attempts
         /\ t.elapsed = s.elapsed /\ t.tokens = s.tokens /\ t.cost = s.cost
         /\ t.pending = s.pending
         /\ \A patch \in s.seen : WasReported(t, patch)
         /\ s.pending = "duplicate_patch" =>
              \E i \in 1..(n - 1) : t.outcomes[i].patch = t.outcomes[n].patch
         /\ s.pending = "none" => t.outcomes[n] = OutcomeOf(s)
<1>1. /\ s \in States /\ s.attempts \in Nat /\ s.outcomes \in Seq(Outcomes)
      /\ Len(s.outcomes) \in Nat /\ DOMAIN s.outcomes = 1..Len(s.outcomes)
  BY DEF Running, States
<1>2. CASE s.attempts > Len(s.outcomes)
  <2> DEFINE outcomes == Append(s.outcomes, OutcomeOf(s))
             n == Len(s.outcomes) + 1
  <2>1. OutcomeOf(s) \in Outcomes /\ OutcomeOf(s).patch = s.patch
    BY <1>1 DEF OutcomeOf, Outcomes, States
  <2>2. /\ Len(outcomes) = n /\ DOMAIN outcomes = 1..n /\ outcomes[n] = OutcomeOf(s)
        /\ \A i \in DOMAIN s.outcomes : outcomes[i] = s.outcomes[i] /\ i \in 1..(n - 1)
        /\ outcomes \in Seq(Outcomes) /\ n \in DOMAIN outcomes
    BY <1>1, <2>1
  <2>3. Report(s) = [s EXCEPT !.outcomes = outcomes]
    BY <1>2 DEF Report
  <2> HIDE DEF outcomes
  <2>4. /\ Report(s) \in States /\ Report(s).outcomes = outcomes
        /\ Report(s).seen = s.seen /\ Report(s).results = s.results
        /\ Report(s).attempts = s.attempts /\ Report(s).elapsed = s.elapsed
        /\ Report(s).tokens = s.tokens /\ Report(s).cost = s.cost /\ Report(s).pending = s.pending
    BY <1>1, <2>2, <2>3 DEF States
  <2>5. \A patch : WasReported(s, patch) =>
          \E i \in 1..(n - 1) : outcomes[i].patch = patch /\ i \in DOMAIN outcomes
    BY <1>1, <2>2 DEF WasReported
  <2>6. ASSUME NEW patch \in s.seen PROVE WasReported(Report(s), patch)
    <3>1. WasReported(s, patch) \/ patch = s.patch
      BY DEF Told, Reported
    <3>2. WasReported(s, patch) => WasReported(Report(s), patch)
      BY <2>4, <2>5 DEF WasReported
    <3>3. WasReported(Report(s), s.patch)
      BY <2>1, <2>2, <2>4 DEF WasReported
    <3>4. QED BY <3>1, <3>2, <3>3
  <2>7. s.pending = "duplicate_patch" => WasReported(s, s.patch)
    BY DEF Told, Reported
  <2>8. s.pending = "duplicate_patch" =>
          \E i \in 1..(n - 1) : outcomes[i].patch = outcomes[n].patch
    BY <2>1, <2>2, <2>5, <2>7
  <2>9. QED BY <2>2, <2>4, <2>6, <2>8
<1>3. CASE ~(s.attempts > Len(s.outcomes))
  <2>1. Report(s) = s
    BY <1>3 DEF Report
  <2>2. s.pending # "duplicate_patch" /\ s.pending # "none"
    BY <1>1, <1>3 DEF Told, Reported, Concluded
  <2>3. \A patch \in s.seen : WasReported(s, patch)
    BY <1>1, <1>3 DEF Told, Reported
  <2>4. QED BY <1>1, <2>1, <2>2, <2>3
<1>4. QED BY <1>2, <1>3

LEMMA FinishExplained ==
  ASSUME NEW s \in States, NEW reason,
         Explained([s EXCEPT !.reason = reason]), Resulted(s)
  PROVE  Explained(Finish(s, reason)) /\ Resulted(Finish(s, reason)) /\ Finish(s, reason).stage = "stopped"
<1> DEFINE level == LevelOf(s, s.results)
           t == Finish(s, reason)
           e == [s EXCEPT !.reason = reason]
<1> HIDE DEF level
<1>1. t = [s EXCEPT !.reason = reason, !.stage = "stopped", !.decision = level]
  BY DEF Finish, level
<1> HIDE DEF t
<1>2. /\ t.reason = reason /\ t.stage = "stopped" /\ t.outcomes = s.outcomes /\ t.results = s.results
      /\ t.seen = s.seen /\ t.attempts = s.attempts /\ t.patch = s.patch
      /\ t.elapsed = s.elapsed /\ t.tokens = s.tokens /\ t.cost = s.cost
  BY <1>1 DEF States
<1>3. /\ e.reason = reason /\ e.outcomes = s.outcomes /\ e.attempts = s.attempts
      /\ e.elapsed = s.elapsed /\ e.tokens = s.tokens /\ e.cost = s.cost
  BY DEF States
<1> HIDE DEF e
<1>4. Explained(e)
  BY DEF e
<1>5. Explained(t)
  BY <1>2, <1>3, <1>4 DEF Explained
<1>6. Resulted(t)
  BY <1>2 DEF Resulted
<1>7. QED BY <1>2, <1>5, <1>6 DEF t

LEMMA DecisionTold ==
  ASSUME NEW s, Running(s), Told(s), s.stage = "decide", NEW t \in Decide(s)
  PROVE  /\ Resulted(t) /\ Explained(t)
         /\ t.stage # "stopped" => Told(t)
<1> DEFINE level == LevelOf(s, s.current)
           u == Report(s)
           v == [u EXCEPT !.decision = level]
           n == Len(v.outcomes)
<1>1. /\ s \in States /\ s.attempts \in Nat /\ s.attempts <= MaxAttempts
      /\ s.pending \in Pendings /\ s.reason = "none" /\ Budgeted(s) /\ Resulted(s)
      /\ s.failure \in Failures
  BY DEF Running, Counted, States, Told
<1>2. level \in 0..3
  BY <1>1, LevelFacts
<1>3. t = IF s.pending # "none" THEN Finish(v, s.pending)
          ELSE IF AllPassed(s) /\ level >= 2 THEN Finish(v, "verified")
          ELSE IF level # 2 THEN Finish(v, "decision_declined")
          ELSE IF s.attempts >= MaxAttempts THEN Finish(v, "max_attempts")
          ELSE [v EXCEPT !.stage = "context"]
  BY DEF Decide
<1>4. /\ u \in States /\ u.seen = s.seen /\ u.results = s.results /\ u.attempts = s.attempts
      /\ u.elapsed = s.elapsed /\ u.tokens = s.tokens /\ u.cost = s.cost
      /\ u.pending = s.pending /\ u.reason = "none"
      /\ \A patch \in s.seen : WasReported(u, patch)
      /\ s.pending = "duplicate_patch" =>
           \E i \in 1..(Len(u.outcomes) - 1) : u.outcomes[i].patch = u.outcomes[Len(u.outcomes)].patch
      /\ s.pending = "none" => u.outcomes[Len(u.outcomes)] = OutcomeOf(s)
  BY <1>1, ReportTold, ReportFacts
<1> HIDE DEF level, u
<1>5. v \in States
  BY <1>2, <1>4 DEF States
<1>6. /\ v.seen = s.seen /\ v.results = s.results /\ v.attempts = s.attempts
      /\ v.elapsed = s.elapsed /\ v.tokens = s.tokens /\ v.cost = s.cost
      /\ v.pending = s.pending /\ v.outcomes = u.outcomes /\ v.reason = "none"
  BY <1>4 DEF States
<1> HIDE DEF v
<1>7. Resulted(v) \/ v.stage = "verify"
  BY <1>1, <1>6 DEF Resulted
<1>8. v.stage = "decide"
  <2>1. u.stage = "decide"
    BY <1>1 DEF u, Report, States
  <2>2. QED BY <1>4, <2>1 DEF v, States
<1>9. ASSUME NEW reason \in Reasons, t = Finish(v, reason), Explained([v EXCEPT !.reason = reason])
      PROVE  Resulted(t) /\ Explained(t) /\ t.stage = "stopped"
  BY <1>5, <1>7, <1>8, <1>9, FinishExplained
<1>10. Pendings \subseteq Reasons /\ {"verified", "decision_declined", "max_attempts"} \subseteq Reasons
  BY DEF Reasons, Pendings
<1>11. ASSUME NEW reason
       PROVE  LET e == [v EXCEPT !.reason = reason] IN
              /\ e.reason = reason /\ e.outcomes = u.outcomes /\ e.attempts = s.attempts
              /\ e.elapsed = s.elapsed /\ e.tokens = s.tokens /\ e.cost = s.cost
  BY <1>5, <1>6 DEF States
<1>12. CASE s.pending # "none"
  <2>1. Explained([v EXCEPT !.reason = s.pending])
    BY <1>1, <1>4, <1>11, <1>12 DEF Explained, Budgeted, Pendings, BudgetReasons
  <2>2. QED BY <1>1, <1>3, <1>9, <1>10, <1>12, <2>1
<1>13. ASSUME NEW reason \in {"verified", "decision_declined"}, t = Finish(v, reason)
       PROVE  Resulted(t) /\ Explained(t) /\ t.stage = "stopped"
  <2>1. Explained([v EXCEPT !.reason = reason])
    BY <1>11 DEF Explained
  <2>2. QED BY <1>9, <1>10, <1>13, <2>1
\* An attempt that passed everything is verified, or its level is not 2.
<1>14. ASSUME s.pending = "none", ~(AllPassed(s) /\ level >= 2), ~(level # 2),
              s.attempts >= MaxAttempts
       PROVE  Resulted(t) /\ Explained(t) /\ t.stage = "stopped"
  <2>1. ~AllPassed(s)
    BY <1>14
  <2>2. s.failure # "none"
    BY <1>14, <2>1 DEF Told, Concluded, AllPassed, AllPass
  <2>3. u.outcomes[Len(u.outcomes)].outcome = s.failure
    BY <1>4, <1>14, <2>2 DEF OutcomeOf
  <2>4. s.failure # "verification_passed" /\ s.attempts = MaxAttempts
    BY <1>1, <1>14, ConstantFacts DEF Failures
  <2>5. Explained([v EXCEPT !.reason = "max_attempts"])
    BY <1>11, <2>3, <2>4 DEF Explained
  <2>6. QED BY <1>3, <1>9, <1>10, <1>14, <2>5
<1>15. ASSUME s.pending = "none", t = [v EXCEPT !.stage = "context"]
       PROVE  Resulted(t) /\ Explained(t) /\ Told(t)
  <2>1. /\ t.stage = "context" /\ t.seen = s.seen /\ t.results = s.results
        /\ t.attempts = s.attempts /\ t.outcomes = u.outcomes /\ t.pending = "none"
        /\ t.reason = "none"
    BY <1>5, <1>6, <1>15 DEF States
  <2>2. Budgeted(t) /\ Resulted(t) /\ Explained(t) /\ Concluded(t)
    BY <1>1, <2>1 DEF Budgeted, Resulted, Explained, Concluded
  <2>3. Reported(t)
    BY <1>4, <2>1 DEF Reported, WasReported
  <2>4. QED BY <2>2, <2>3 DEF Told
<1>16. QED BY <1>3, <1>12, <1>13, <1>14, <1>15

-----------------------------------------------------------------------------
(* The loop.                                                               *)

LEMMA StepsSound ==
  ASSUME NEW s, Running(s), NEW returned,
         s.stage = "verify" => returned \subseteq Results,
         NEW t \in Steps(s, returned)
  PROVE  Sound(t)
<1>1. PICK tick \in Ticks :
        t \in IF BudgetCheck(Elapse(s, tick)) THEN {Halt(Elapse(s, tick))}
              ELSE AtStage(Elapse(s, tick), returned)
  BY DEF Steps
<1> DEFINE u == Elapse(s, tick)
<1>2. Running(u) /\ u.stage = s.stage
  BY ElapseRunning
<1> HIDE DEF u
<1>3. u.stage \in Stages \ {"stopped"}
  BY <1>2 DEF Running, States
<1>4. CASE BudgetCheck(u)
  <2>1. t = Halt(u)
    BY <1>1, <1>4 DEF u
  <2>2. QED BY <1>2, <2>1, HaltRunning, RunningSound DEF Running
<1>5. CASE ~BudgetCheck(u)
  <2>1. t \in AtStage(u, returned)
    BY <1>1, <1>5 DEF u
  <2>2. CASE u.stage = "context"
    <3>1. t \in BuildContext(u)
      BY <2>1, <2>2 DEF AtStage
    <3>2. QED BY <1>2, <2>2, <3>1, ContextRunning, RunningSound DEF Running
  <2>3. CASE u.stage = "diagnose"
    <3>1. t \in Diagnose(u)
      BY <2>1, <2>3 DEF AtStage
    <3>2. QED BY <1>2, <2>3, <3>1, DiagnoseRunning, RunningSound DEF Running
  <2>4. CASE u.stage = "patch"
    <3>1. t \in Propose(u)
      BY <2>1, <2>4 DEF AtStage
    <3>2. QED BY <1>2, <2>4, <3>1, ProposeRunning, RunningSound DEF Running
  <2>5. CASE u.stage = "validate"
    <3>1. t \in Validate(u)
      BY <2>1, <2>5 DEF AtStage
    <3>2. QED BY <1>2, <2>5, <3>1, ValidateRunning, RunningSound DEF Running
  <2>6. CASE u.stage = "verify"
    <3>1. t \in Verify(u, returned)
      BY <2>1, <2>6 DEF AtStage
    <3>2. QED BY <1>2, <2>6, <3>1, VerifyRunning, RunningSound DEF Running
  <2>7. CASE u.stage = "decide"
    <3>1. t \in Decide(u)
      BY <2>1, <2>7 DEF AtStage
    <3>2. QED BY <1>2, <2>7, <3>1, DecideSound
  <2>8. QED BY <1>3, <2>2, <2>3, <2>4, <2>5, <2>6, <2>7 DEF Stages
<1>6. QED BY <1>4, <1>5

\* What is said of every snapshot: its results, its reason and, while the loop
\* goes on, the rest.
Complete(s) == Resulted(s) /\ Explained(s) /\ (s.stage # "stopped" => Told(s))

LEMMA RunningComplete ==
  ASSUME NEW s, s.reason = "none", Told(s)
  PROVE  Complete(s)
BY DEF Complete, Told, Explained

LEMMA StepsTold ==
  ASSUME NEW s, Running(s), Told(s), NEW returned,
         s.stage = "verify" =>
           \A r \in returned : r \in Results /\ r.patch = s.patch /\ r.attempt = s.attempts,
         NEW t \in Steps(s, returned)
  PROVE  Complete(t)
<1>1. PICK tick \in Ticks :
        t \in IF BudgetCheck(Elapse(s, tick)) THEN {Halt(Elapse(s, tick))}
              ELSE AtStage(Elapse(s, tick), returned)
  BY DEF Steps
<1> DEFINE u == Elapse(s, tick)
<1>2. /\ Running(u) /\ Told(u) /\ u.stage = s.stage /\ u.patch = s.patch
      /\ u.attempts = s.attempts
  BY ElapseRunning, ElapseFields, ClockTold DEF Running, SameRecords
<1> HIDE DEF u
<1>3. u.stage \in Stages \ {"stopped"}
  BY <1>2 DEF Running, States
<1>4. CASE BudgetCheck(u)
  <2>1. t = Halt(u)
    BY <1>1, <1>4 DEF u
  <2>2. QED BY <1>2, <2>1, HaltRunning, HaltTold, RunningComplete DEF Running
<1>5. CASE ~BudgetCheck(u)
  <2>1. t \in AtStage(u, returned)
    BY <1>1, <1>5 DEF u
  <2>2. CASE u.stage = "context"
    <3>1. t \in BuildContext(u)
      BY <2>1, <2>2 DEF AtStage
    <3>2. QED BY <1>2, <2>2, <3>1, ContextRunning, ContextTold, RunningComplete DEF Running
  <2>3. CASE u.stage = "diagnose"
    <3>1. t \in Diagnose(u)
      BY <2>1, <2>3 DEF AtStage
    <3>2. QED BY <1>2, <2>3, <3>1, DiagnoseRunning, DiagnoseTold, RunningComplete DEF Running
  <2>4. CASE u.stage = "patch"
    <3>1. t \in Propose(u)
      BY <2>1, <2>4 DEF AtStage
    <3>2. QED BY <1>2, <2>4, <3>1, ProposeRunning, ProposeTold, RunningComplete DEF Running
  <2>5. CASE u.stage = "validate"
    <3>1. t \in Validate(u)
      BY <2>1, <2>5 DEF AtStage
    <3>2. QED BY <1>2, <2>5, <3>1, ValidateRunning, ValidateTold, RunningComplete DEF Running
  <2>6. CASE u.stage = "verify"
    <3>1. t \in Verify(u, returned)
      BY <2>1, <2>6 DEF AtStage
    <3>2. CASE \E r \in returned, more \in Ticks : t = Judged(u, r, more)
      <4>1. PICK r \in returned, more \in Ticks : t = Judged(u, r, more)
        BY <3>2
      <4>2. r \in Results /\ r.patch = u.patch /\ r.attempt = u.attempts
        BY <1>2, <2>6
      <4>3. Running(t) /\ Told(t)
        BY <1>2, <2>6, <4>1, <4>2, JudgedRunning, JudgedTold
      <4>4. QED BY <4>3, RunningComplete DEF Running
    <3>3. CASE \E more \in Ticks : t = Unverified(u, more)
      <4>1. Told(t)
        BY <1>2, <2>6, <3>3, UnverifiedTold
      <4>2. Running(t)
        BY <1>2, <3>3, FailRunning, ElapseRunning DEF Unverified, Failures
      <4>3. QED BY <4>1, <4>2, RunningComplete DEF Running
    <3>4. QED BY <3>1, <3>2, <3>3 DEF Verify
  <2>7. CASE u.stage = "decide"
    <3>1. t \in Decide(u)
      BY <2>1, <2>7 DEF AtStage
    <3>2. QED BY <1>2, <2>7, <3>1, DecisionTold DEF Complete
  <2>8. QED BY <1>3, <2>2, <2>3, <2>4, <2>5, <2>6, <2>7 DEF Stages
<1>6. QED BY <1>4, <1>5

-----------------------------------------------------------------------------
(***************************************************************************)
(* Where results come from: only a verdict adds one, and a new attempt     *)
(* forgets the current ones.                                               *)
(***************************************************************************)
Unjudged(s, t) == t.results = s.results /\ t.current \in {s.current, <<>>}
Joined(s, t, r) == t.results = Append(s.results, r) /\ t.current = Append(s.current, r)

LEMMA AccountedFields ==
  ASSUME NEW s \in States, NEW t \in Accounted(s)
  PROVE  t \in States /\ SameRecords(s, t)
<1>1. PICK usage \in Usages, tick \in Ticks : t = Halt(Elapse(Spend(s, usage), tick))
  BY DEF Accounted
<1>2. QED BY <1>1, SpendFields, ElapseFields, HaltFields DEF SameRecords

LEMMA MoveFields ==
  ASSUME NEW s \in States
  PROVE  /\ \A failure : Fail(s, failure).results = s.results /\ Fail(s, failure).current = s.current
         /\ \A stage : Advance(s, stage).results = s.results /\ Advance(s, stage).current = s.current
BY DEF Fail, Advance, States

\* The same of snapshots whose type does not matter.
HasResults(s) == {"results", "current"} \subseteq DOMAIN s
LEMMA ResultsKept ==
  ASSUME NEW s, HasResults(s), NEW t,
         \/ \E tick : t = Elapse(s, tick)
         \/ t = Halt(s)
         \/ \E reason : t = Finish(s, reason)
         \/ \E stage : t = [s EXCEPT !.stage = stage]
  PROVE  HasResults(t) /\ t.results = s.results /\ t.current = s.current
BY DEF HasResults, Elapse, Halt, Finish

LEMMA CallResults ==
  ASSUME NEW s \in States, NEW t \in Diagnose(s) \union Propose(s)
  PROVE  Unjudged(s, t)
<1>1. ASSUME NEW p \in Patches
      PROVE  LET w == [s EXCEPT !.patch = p] IN
             w \in States /\ w.results = s.results /\ w.current = s.current
  BY DEF States
<1>2. ASSUME NEW u \in Accounted(s)
      PROVE  u \in States /\ u.results = s.results /\ u.current = s.current
  BY AccountedFields DEF SameRecords
<1>3. ASSUME NEW p \in Patches, NEW u \in Accounted([s EXCEPT !.patch = p])
      PROVE  u \in States /\ u.results = s.results /\ u.current = s.current
  BY <1>1, <1>3, AccountedFields DEF SameRecords
<1>4. CASE t \in Diagnose(s)
  <2>1. PICK u \in Accounted(s) : t = Advance(u, "patch") \/ t = Fail(u, "diagnose_abandoned")
    BY <1>4 DEF Diagnose
  <2>2. QED BY <1>2, <2>1, MoveFields DEF Unjudged
<1>5. CASE t \in Propose(s)
  <2> DEFINE proposed == UNION {Accounted([s EXCEPT !.patch = p]) : p \in Patches}
  <2>1. \/ \E u \in proposed : t = Advance(u, "validate")
        \/ \E u \in Accounted(s), failure \in {"patch_abandoned", "patch_missing"} : t = Fail(u, failure)
    BY <1>5 DEF Propose
  <2>2. ASSUME NEW u \in proposed
        PROVE  u \in States /\ u.results = s.results /\ u.current = s.current
    BY <1>3
  <2> HIDE DEF proposed
  <2>3. QED BY <1>2, <2>1, <2>2, MoveFields DEF Unjudged
<1>6. QED BY <1>4, <1>5

LEMMA ValidateResults ==
  ASSUME NEW s \in States, NEW t \in Validate(s)
  PROVE  Unjudged(s, t)
<1>2. PICK v : v = [s EXCEPT !.accepted = s.patch \in Valid]
  OBVIOUS
<1>3. PICK w : w = [v EXCEPT !.seen = @ \union {s.patch}]
  OBVIOUS
<1>4. \/ t = [Fail(v, "duplicate_patch") EXCEPT !.pending = "duplicate_patch"]
      \/ \E failure : t = Fail(w, failure)
      \/ t = [w EXCEPT !.stage = "verify"]
  BY <1>2, <1>3 DEF Validate
<1>5. QED BY <1>2, <1>3, <1>4 DEF Fail, States, Unjudged

LEMMA VerifyResults ==
  ASSUME NEW s, Running(s), s.stage = "verify", NEW returned \in SUBSET Results,
         NEW t \in Verify(s, returned)
  PROVE  Unjudged(s, t) \/ \E r \in returned : Joined(s, t, r)
<1>1. s \in States
  BY DEF Running
<1>2. CASE \E tick \in Ticks : t = Unverified(s, tick)
  <2>1. PICK tick \in Ticks : t = Elapse(Fail(s, "verifier_error"), tick)
    BY <1>2 DEF Unverified
  <2>2. PICK u \in States : u = Fail(s, "verifier_error")
    BY FailRunning DEF Failures, Running
  <2>3. QED BY <1>1, <2>1, <2>2, MoveFields, ElapseFields DEF SameRecords, Unjudged
<1>3. CASE \E r \in returned, tick \in Ticks : t = Judged(s, r, tick)
  <2>1. PICK r \in returned, tick \in Ticks : t = Judged(s, r, tick)
    BY <1>3
  <2> DEFINE u == [s EXCEPT !.current = Append(@, r), !.results = Append(@, r),
                            !.cursor = @ + 1, !.failure = Complaint(s, r)]
  <2>2. u.results = Append(s.results, r) /\ u.current = Append(s.current, r)
    BY <1>1 DEF States
  <2>3. HasResults(u)
    BY <1>1 DEF HasResults, States
  <2>4. PICK w : w = Halt(Elapse(u, tick))
    OBVIOUS
  <2>5. t = w \/ t = [w EXCEPT !.stage = "decide"]
    BY <2>1, <2>4 DEF Judged
  <2> HIDE DEF u
  <2>6. HasResults(w) /\ w.results = u.results /\ w.current = u.current
    <3>1. PICK v : v = Elapse(u, tick)
      OBVIOUS
    <3>2. HasResults(v) /\ v.results = u.results /\ v.current = u.current
      BY <2>3, <3>1, ResultsKept
    <3>3. QED BY <2>4, <3>1, <3>2, ResultsKept
  <2>7. t.results = w.results /\ t.current = w.current
    BY <2>5, <2>6, ResultsKept
  <2>8. QED BY <2>2, <2>6, <2>7 DEF Joined
<1>4. QED BY <1>2, <1>3 DEF Verify

LEMMA DecideResults ==
  ASSUME NEW s \in States, NEW t \in Decide(s)
  PROVE  Unjudged(s, t)
<1>1. PICK level : level = LevelOf(s, s.current)
  OBVIOUS
<1>2. PICK u : u = [Report(s) EXCEPT !.decision = level]
  OBVIOUS
<1>3. u.results = s.results /\ u.current = s.current /\ HasResults(u)
  BY <1>2 DEF Report, HasResults, States
<1>4. (\E reason : t = Finish(u, reason)) \/ t = [u EXCEPT !.stage = "context"]
  BY <1>1, <1>2 DEF Decide
<1>5. t.results = u.results /\ t.current = u.current
  BY <1>3, <1>4, ResultsKept
<1>6. QED BY <1>3, <1>5 DEF Unjudged

LEMMA StepsResults ==
  ASSUME NEW s, Running(s), NEW returned,
         s.stage = "verify" => returned \subseteq Results,
         NEW t \in Steps(s, returned)
  PROVE  Unjudged(s, t) \/ (s.stage = "verify" /\ \E r \in returned : Joined(s, t, r))
<1>1. PICK tick \in Ticks :
        t \in IF BudgetCheck(Elapse(s, tick)) THEN {Halt(Elapse(s, tick))}
              ELSE AtStage(Elapse(s, tick), returned)
  BY DEF Steps
<1> DEFINE u == Elapse(s, tick)
<1>2. Running(u) /\ u.stage = s.stage /\ u.results = s.results /\ u.current = s.current
  BY ElapseRunning, ElapseFields DEF Running, SameRecords
<1> HIDE DEF u
<1>3. u \in States /\ u.stage \in Stages \ {"stopped"}
  BY <1>2 DEF Running, States
<1>4. Unjudged(u, t) \/ (u.stage = "verify" /\ \E r \in returned : Joined(u, t, r))
  <2>1. CASE BudgetCheck(u)
    BY <1>1, <1>3, <2>1, HaltFields DEF u, SameRecords, Unjudged
  <2>2. CASE ~BudgetCheck(u)
    <3>1. t \in AtStage(u, returned)
      BY <1>1, <2>2 DEF u
    <3>2. CASE u.stage = "context"
      <4>1. t \in BuildContext(u)
        BY <3>1, <3>2 DEF AtStage
      <4>2. QED BY <1>3, <4>1 DEF BuildContext, Unjudged, States
    <3>3. CASE u.stage \in {"diagnose", "patch"}
      <4>1. t \in Diagnose(u) \union Propose(u)
        BY <3>1, <3>3 DEF AtStage
      <4>2. QED BY <1>3, <4>1, CallResults
    <3>4. CASE u.stage = "validate"
      <4>1. t \in Validate(u)
        BY <3>1, <3>4 DEF AtStage
      <4>2. QED BY <1>3, <4>1, ValidateResults
    <3>5. CASE u.stage = "verify"
      <4>1. t \in Verify(u, returned)
        BY <3>1, <3>5 DEF AtStage
      <4>2. QED BY <1>2, <3>5, <4>1, VerifyResults
    <3>6. CASE u.stage = "decide"
      <4>1. t \in Decide(u)
        BY <3>1, <3>6 DEF AtStage
      <4>2. QED BY <1>3, <4>1, DecideResults
    <3>7. QED BY <1>3, <3>2, <3>3, <3>4, <3>5, <3>6 DEF Stages
  <2>3. QED BY <2>1, <2>2
<1>5. QED BY <1>2, <1>4 DEF Unjudged, Joined

LEMMA StartTold == Told(Start) /\ Start.reason = "none" /\ Start.stage # "stopped"
BY DEF Start, Told, Budgeted, Resulted, Reported, WasReported, Concluded

LEMMA StartSound == Sound(Start)
<1>1. Start \in States
  BY ConstantFacts DEF Start, States, Stages, Failures, Pendings, Reasons
<1>2. Ordered(Start) /\ Counted(Start) /\ Honest(Start)
  BY ConstantFacts DEF Start, Ordered, Counted, Honest
<1>3. QED BY <1>1, <1>2 DEF Sound

LEMMA SoundInit == Init => SoundInv
BY StartSound DEF Init, SoundInv

LEMMA SoundStep == SoundInv /\ [Next]_state => SoundInv'
<1> SUFFICES ASSUME Sound(state), [Next]_state
             PROVE  Sound(state')
  BY DEF SoundInv
<1>1. CASE UNCHANGED state
  BY <1>1
<1>2. ASSUME NEW stage \in Stages \ {"stopped"}, Step(stage)
      PROVE  Sound(state')
  <2>1. Running(state) /\ state.stage = stage
    BY <1>2, RunningSound DEF Step
  <2>2. CASE stage = "verify"
    BY <1>2, <2>1, <2>2, AnswersType, StepsSound DEF Step
  <2>3. CASE stage # "verify"
    BY <1>2, <2>1, <2>3, StepsSound DEF Step
  <2>4. QED BY <2>2, <2>3
<1>3. QED BY <1>1, <1>2 DEF Next, Stages


\* The rest of the invariant holds as well.
CompleteInv == SoundInv /\ Complete(state)

LEMMA CompleteStep == CompleteInv /\ [Next]_state => CompleteInv'
<1> SUFFICES ASSUME SoundInv, Complete(state), [Next]_state
             PROVE  CompleteInv'
  BY DEF CompleteInv
<1>1. SoundInv'
  BY SoundStep
<1>2. CASE UNCHANGED state
  BY <1>1, <1>2 DEF CompleteInv
<1>3. ASSUME NEW stage \in Stages \ {"stopped"}, Step(stage)
      PROVE  Complete(state')
  <2>1. Running(state) /\ state.stage = stage /\ Told(state)
    BY <1>3, RunningSound DEF Step, SoundInv, Complete
  <2>2. CASE stage = "verify"
    <3>1. state' \in Steps(state, Answers(state))
      BY <1>3, <2>2 DEF Step
    <3>2. \A r \in Answers(state) :
            r \in Results /\ r.patch = state.patch /\ r.attempt = state.attempts
      BY <2>1, <2>2, AnswersType DEF Answers
    <3>3. QED BY <2>1, <3>1, <3>2, StepsTold
  <2>3. CASE stage # "verify"
    <3>1. state' \in Steps(state, {})
      BY <1>3, <2>3 DEF Step
    <3>2. QED BY <2>1, <3>1, StepsTold
  <2>4. QED BY <2>2, <2>3
<1>4. QED BY <1>1, <1>2, <1>3 DEF Next, Stages, CompleteInv

LEMMA CompleteInvariant == Spec => []CompleteInv
<1>1. Init => CompleteInv
  BY SoundInit, StartTold, RunningComplete DEF Init, CompleteInv
<1>2. QED BY <1>1, CompleteStep, PTL DEF Spec

\* Every snapshot of the loop is well formed, whatever the budgets, the plan,
\* and the answers of the provider and the verifier.
THEOREM SnapshotCorrect == Spec => []TypeOK
<1>1. SoundInv => TypeOK
  BY DEF SoundInv, Sound, TypeOK
<1>2. QED BY SoundInit, SoundStep, <1>1, PTL DEF Spec

\* Only a valid patch of this run which every planned workload passed, on one
\* commit and in one attempt, is ever called verified.
THEOREM VerifiedCorrect == Spec => []VerifiedIsVerified
<1>1. SoundInv => VerifiedIsVerified
  BY DEF SoundInv, Sound, Honest, VerifiedIsVerified
<1>2. QED BY SoundInit, SoundStep, <1>1, PTL DEF Spec

\* The loop never begins more attempts than it may, and reports each once.
THEOREM AttemptsCorrect == Spec => []EveryAttemptReported
<1>1. SoundInv => EveryAttemptReported
  BY DEF SoundInv, Sound, Counted, EveryAttemptReported
<1>2. QED BY SoundInit, SoundStep, <1>1, PTL DEF Spec

\* No verdict of any attempt speaks against what a pull request is opened for.
THEOREM OpenPRCorrect == Spec => []OpenPRNeverRefuted
<1>1. SoundInv => OpenPRNeverRefuted
  BY DEF SoundInv, Sound, Honest, OpenPRNeverRefuted
<1>2. QED BY SoundInit, SoundStep, <1>1, PTL DEF Spec

\* No patch is verified by two attempts: one that was seen is refused before it
\* reaches the verifier.
THEOREM OnceCorrect == Spec => []NoPatchVerifiedTwice
<1>1. CompleteInv => NoPatchVerifiedTwice
  BY DEF CompleteInv, Complete, Resulted, NoPatchVerifiedTwice
<1>2. QED BY <1>1, CompleteInvariant, PTL

\* The reason the loop gives for stopping is the case: budgets that are called
\* exceeded are, a repeated patch was reported before, and the last attempt did
\* not pass.
THEOREM ReasonCorrect == Spec => []ReasonHonest
<1>1. CompleteInv => ReasonHonest
  BY DEF CompleteInv, Complete, Explained, ReasonHonest
<1>2. QED BY <1>1, CompleteInvariant, PTL
=============================================================================
