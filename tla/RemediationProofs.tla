-------------------------- MODULE RemediationProofs --------------------------
(***************************************************************************)
(* Proofs about Remediation for any number of executors and requests,      *)
(* every plan, set of patches, budget and autonomy assessment, under all   *)
(* faults.                                                                 *)
(***************************************************************************)
EXTENDS Remediation, TLAPS

\* The lemmas about the stages are those of the loop in memory.
Loop == INSTANCE OrchestratorProofs WITH state <- run.snapshot

\* A snapshot of the loop whose verdicts are stored.
Backed(s, rows) ==
  Loop!Sound(s) /\ Range(s.results) \subseteq rows /\ Range(s.current) \subseteq Range(s.results)

\* The audit row of a terminal status says why.
Explains(status, key) ==
  /\ status = "succeeded" => Len(key) = 7 /\ key[6] = "verified"
  /\ status = "failed" => Len(key) = 3
  /\ status = "abandoned" => Len(key) = 7 /\ key[3] = "stopped" /\ key[6] # "verified"

\* What an executor is about to store.
Storable(row, rows) ==
  /\ Backed(row.snapshot, rows) /\ Explains(row.status, row.key)
  /\ row.status = "succeeded" => row.snapshot.reason = "verified"

Serving(e) ==
  /\ pc[e] \in {"snapshot", "step", "load", "store", "artifact"} => Backed(held[e], evidence)
  /\ pc[e] \in {"snapshot", "step"} => held[e].stage # "stopped"
  /\ pc[e] \in {"load", "store"} => Storable(made[e], evidence)
  /\ cache[e] # None => cache[e].status \in Verdicts

\* A verdict names its attempt, the first of which is 1.
Given(r) == r \in Results /\ r.attempt >= 1

\* TerminalBacked: the evidence of a success, and the audit row of each end.
Proof(rows) ==
  \E patch \in Patches, commit \in Commits, attempt \in 1..MaxAttempts : \A w \in Workloads :
    [workload |-> w, status |-> "passed", own |-> TRUE, attempt |-> attempt,
     patch |-> patch, commit |-> commit] \in rows

Shape == /\ pc = [e \in Executors |-> pc[e]] /\ held = [e \in Executors |-> held[e]]
         /\ made = [e \in Executors |-> made[e]] /\ cache = [e \in Executors |-> cache[e]]

StoreInv ==
  /\ \A r \in evidence : Given(r)
  /\ run.snapshot # None => Backed(run.snapshot, evidence)
  /\ run.status \in Terminal => \E row \in audit : Explains(run.status, row.key)
  /\ run.status = "succeeded" => Proof(evidence)

RemediationInv == Shape /\ StoreInv /\ \A e \in Executors : Serving(e)

\* A step of e touches nothing of another executor and deletes no evidence.
Apart(e) ==
  /\ evidence \subseteq evidence'
  /\ \A d \in Executors \ {e} : /\ pc'[d] = pc[d] /\ held'[d] = held[d]
                                 /\ made'[d] = made[d] /\ cache'[d] = cache[d]

-----------------------------------------------------------------------------
(***************************************************************************)
(* The stages are the same as the loop's.                                  *)
(***************************************************************************)
LEMMA SameData ==
  /\ Loop!Start = Start /\ Loop!Results = Results /\ Loop!Workloads = Workloads
  /\ Loop!States = States
  /\ \A s, tick : Loop!Elapse(s, tick) = Elapse(s, tick)
<1>1. Loop!Start = Start /\ \A s, tick : Loop!Elapse(s, tick) = Elapse(s, tick)
  BY DEF Loop!Start, Start, Loop!Elapse, Elapse, Loop!Capped, Capped
<1>2. Loop!Results = Results /\ Loop!Workloads = Workloads
  BY DEF Loop!Results, Results, Loop!Workloads, Workloads, Loop!Verdicts, Verdicts
<1>3. Loop!Outcomes = Outcomes
  BY DEF Loop!Outcomes, Outcomes, Loop!Failures, Failures, Loop!Pendings, Pendings,
         Loop!BudgetReasons, BudgetReasons
<1>4. Loop!States = States
  BY <1>2, <1>3 DEF Loop!States, States, Loop!Stages, Stages, Loop!Failures, Failures,
         Loop!Reasons, Reasons, Loop!Pendings, Pendings, Loop!BudgetReasons, BudgetReasons
<1>5. QED BY <1>1, <1>2, <1>4

LEMMA SameSteps ==
  \A s, returned : Loop!Steps(s, returned) = Steps(s, returned)
<1>1. /\ \A s, tick : Loop!Elapse(s, tick) = Elapse(s, tick)
      /\ \A s : Loop!Halt(s) = Halt(s) /\ (Loop!BudgetCheck(s) <=> BudgetCheck(s))
  BY DEF Loop!Elapse, Elapse, Loop!Capped, Capped, Loop!Halt, Halt, Loop!BudgetCheck, BudgetCheck,
         Loop!BudgetReason, BudgetReason
<1>2. \A s : Loop!BuildContext(s) = BuildContext(s)
  BY DEF Loop!BuildContext, BuildContext
<1>3. \A s : Loop!Diagnose(s) = Diagnose(s) /\ Loop!Propose(s) = Propose(s)
  BY DEF Loop!Diagnose, Diagnose, Loop!Propose, Propose, Loop!Accounted, Accounted, Loop!Halt, Halt,
         Loop!Fail, Fail, Loop!Advance, Advance, Loop!Spend, Spend, Loop!Elapse, Elapse, Loop!Capped, Capped,
         Loop!BudgetReason, BudgetReason
<1>4. \A s : Loop!Validate(s) = Validate(s)
  BY DEF Loop!Validate, Validate, Loop!Fail, Fail
<1>5. \A s, returned : Loop!Verify(s, returned) = Verify(s, returned)
  BY DEF Loop!Verify, Verify, Loop!Judged, Judged, Loop!Unverified, Unverified, Loop!Complaint, Complaint,
         Loop!Requested, Requested, Loop!Halt, Halt, Loop!Fail, Fail, Loop!Elapse, Elapse, Loop!Capped, Capped,
         Loop!BudgetReason, BudgetReason
<1>6. \A s, results : Loop!LevelOf(s, results) = LevelOf(s, results)
  BY DEF Loop!LevelOf, LevelOf, Loop!DecideAutonomy, DecideAutonomy, Loop!Disagrees, Disagrees,
         Loop!Belongs, Belongs, Loop!Covered, Covered, Loop!Workloads, Workloads,
         Loop!PassedWorkloads, PassedWorkloads, Loop!Proven, Proven, Loop!Lower, Lower, Loop!Only, Only,
         Loop!Range, Range, Loop!Cardinality, Cardinality
<1>7. \A s : Loop!Decide(s) = Decide(s)
  <2>1. \A s : (Loop!AllPassed(s) <=> AllPassed(s)) /\ Loop!Report(s) = Report(s)
    BY DEF Loop!AllPassed, AllPassed, Loop!Report, Report, Loop!OutcomeOf, OutcomeOf
  <2>2. \A s, reason : Loop!Finish(s, reason) = Finish(s, reason)
    BY <1>6 DEF Loop!Finish, Finish
  <2>3. QED BY <1>6, <2>1, <2>2 DEF Loop!Decide, Decide
<1>8. \A s, returned : Loop!AtStage(s, returned) = AtStage(s, returned)
  BY <1>2, <1>3, <1>4, <1>5, <1>7 DEF Loop!AtStage, AtStage
<1>9. QED BY <1>1, <1>8 DEF Loop!Steps, Steps

-----------------------------------------------------------------------------
(***************************************************************************)
(* Snapshots.                                                              *)
(***************************************************************************)
LEMMA RangeOfAppend ==
  ASSUME NEW S, NEW q \in Seq(S), NEW x \in S
  PROVE  Range(Append(q, x)) = Range(q) \union {x}
<1>1. Len(q) \in Nat /\ DOMAIN q = 1..Len(q) /\ DOMAIN Append(q, x) = 1..(Len(q) + 1)
  OBVIOUS
<1>2. Append(q, x)[Len(q) + 1] = x /\ \A i \in 1..Len(q) : Append(q, x)[i] = q[i]
  BY <1>1
<1>3. QED BY <1>1, <1>2 DEF Range

LEMMA BackedGrows ==
  ASSUME NEW s, NEW old, NEW new, old \subseteq new, Backed(s, old)
  PROVE  Backed(s, new)
BY DEF Backed

LEMMA StartBacked ==
  ASSUME NEW rows
  PROVE  Backed(Start, rows) /\ Start.stage # "stopped"
<1>1. Loop!Sound(Start)
  BY SameData, Loop!StartSound, OrchestratorAssumption, AutonomyAssumption
<1>2. Start.results = <<>> /\ Start.current = <<>> /\ Start.stage = "context"
  BY DEF Start
<1>3. Range(Start.results) = {} /\ Range(Start.current) = {}
  BY <1>2 DEF Range
<1>4. QED BY <1>1, <1>2, <1>3 DEF Backed

\* What is known of a snapshot the loop goes on from.
LEMMA GoesOn ==
  ASSUME NEW s, NEW rows, Backed(s, rows), s.stage # "stopped"
  PROVE  /\ Loop!Running(s) /\ s.results \in Seq(Results) /\ s.current \in Seq(Results)
         /\ s.attempts \in Nat
         /\ s.stage = "verify" => /\ Requested(s) \in Workloads /\ s.patch \in Patches
                                  /\ s.attempts >= 1
<1>1. Loop!Running(s) /\ s \in Loop!States
  BY Loop!RunningSound, OrchestratorAssumption, AutonomyAssumption DEF Backed, Loop!Running
<1>2. /\ s.results \in Seq(Results) /\ s.current \in Seq(Results) /\ s.attempts \in Nat
      /\ s.cursor \in 0..Len(Plan) /\ s.outcomes \in Seq(Loop!Outcomes)
  BY <1>1, SameData DEF Loop!States
<1>3. ASSUME s.stage = "verify"
      PROVE  Requested(s) \in Workloads /\ s.patch \in Patches /\ s.attempts >= 1
  <2>1. s.cursor < Len(Plan) /\ s.patch \in Valid /\ s.attempts = Len(s.outcomes) + 1
    BY <1>1, <1>3 DEF Loop!Running, Loop!Ordered, Loop!Counted
  <2>2. s.cursor + 1 \in DOMAIN Plan
    BY <1>2, <2>1, AutonomyAssumption
  <2>3. Len(s.outcomes) \in Nat
    BY <1>2
  <2>4. QED BY <2>1, <2>2, <2>3, OrchestratorAssumption DEF Requested, Workloads
<1>4. QED BY <1>1, <1>2, <1>3

\* A stage adds no result but the verdict it was given.
LEMMA StepBacked ==
  ASSUME NEW s, NEW rows, Backed(s, rows), s.stage # "stopped", NEW returned,
         s.stage = "verify" => returned \subseteq Results, NEW t \in Steps(s, returned)
  PROVE  Backed(t, IF s.stage = "verify" THEN rows \union returned ELSE rows)
<1>1. Loop!Running(s) /\ s.results \in Seq(Results) /\ s.current \in Seq(Results)
  BY GoesOn
<1>2. t \in Loop!Steps(s, returned) /\ (s.stage = "verify" => returned \subseteq Loop!Results)
  BY SameSteps, SameData
<1>3. Loop!Sound(t)
  BY <1>1, <1>2, Loop!StepsSound, OrchestratorAssumption, AutonomyAssumption
<1>4. Loop!Unjudged(s, t) \/ (s.stage = "verify" /\ \E r \in returned : Loop!Joined(s, t, r))
  BY <1>1, <1>2, Loop!StepsResults, OrchestratorAssumption, AutonomyAssumption
<1>5. CASE Loop!Unjudged(s, t)
  <2>1. Range(t.results) = Range(s.results) /\ Range(t.current) \subseteq Range(s.current)
    BY <1>5 DEF Loop!Unjudged, Range
  <2>2. QED BY <1>3, <2>1 DEF Backed
<1>6. CASE s.stage = "verify" /\ \E r \in returned : Loop!Joined(s, t, r)
  <2>1. PICK r \in returned : t.results = Append(s.results, r) /\ t.current = Append(s.current, r)
    BY <1>6 DEF Loop!Joined
  <2>2. /\ Range(t.results) = Range(s.results) \union {r}
        /\ Range(t.current) = Range(s.current) \union {r}
    BY <1>1, <1>6, <2>1, RangeOfAppend
  <2>3. QED BY <1>3, <1>6, <2>1, <2>2 DEF Backed
<1>7. QED BY <1>4, <1>5, <1>6

\* A stage without a verdict needs no other evidence.
LEMMA QuietBacked ==
  ASSUME NEW s, NEW rows, Backed(s, rows), s.stage # "stopped", NEW t \in Steps(s, {})
  PROVE  Backed(t, rows)
<1>1. PICK returned : returned = {}
  OBVIOUS
<1>2. returned \subseteq Results /\ rows \union returned = rows /\ t \in Steps(s, returned)
  BY <1>1
<1>3. QED BY <1>2, StepBacked

\* A verified run has stored evidence of one attempt at one patch on one commit.
LEMMA VerifiedProof ==
  ASSUME NEW s, NEW rows, Backed(s, rows), s.reason = "verified", \A r \in rows : Given(r)
  PROVE  Proof(rows)
<1>1. s \in Loop!States /\ Loop!Counted(s) /\ Loop!Honest(s)
  BY DEF Backed, Loop!Sound
<1>2. s.attempts \in Nat /\ s.attempts <= MaxAttempts
  BY <1>1 DEF Loop!States, Loop!Counted
<1>3. s.patch \in Valid /\
      \E commit \in Descendants : \A w \in Loop!Workloads : \E r \in Loop!Range(s.current) :
        /\ r.workload = w /\ r.status = "passed"
        /\ Loop!Belongs(r, s.patch, commit, s.attempts)
        /\ r.commit = commit
  BY <1>1 DEF Loop!Honest
<1>4. PICK commit \in Descendants : \A w \in Workloads : \E r \in Range(s.current) :
        r.workload = w /\ r.status = "passed" /\ Belongs(r, s.patch, commit, s.attempts)
  BY <1>3, SameData DEF Loop!Belongs, Belongs, Loop!Range, Range
<1>5. ASSUME NEW w \in Workloads
      PROVE  /\ [workload |-> w, status |-> "passed", own |-> TRUE, attempt |-> s.attempts,
                 patch |-> s.patch, commit |-> commit] \in rows
             /\ s.attempts >= 1
  <2>1. PICK r \in Range(s.current) :
          r.workload = w /\ r.status = "passed" /\ Belongs(r, s.patch, commit, s.attempts)
    BY <1>4
  <2>2. r \in rows /\ r \in Results /\ r.attempt >= 1
    BY <2>1 DEF Backed, Given
  <2>3. r = [workload |-> r.workload, status |-> r.status, own |-> r.own, attempt |-> r.attempt,
             patch |-> r.patch, commit |-> r.commit]
    BY <2>2 DEF Results
  <2>4. QED BY <2>1, <2>2, <2>3 DEF Belongs
<1>6. Plan[1] \in Workloads
  BY AutonomyAssumption DEF Workloads
<1>7. s.attempts \in 1..MaxAttempts
  <2>1. s.attempts >= 1 /\ MaxAttempts \in Nat
    BY <1>5, <1>6, OrchestratorAssumption
  <2>2. QED BY <1>2, <2>1
<1>8. s.patch \in Patches /\ commit \in Commits
  BY <1>3, AutonomyAssumption, OrchestratorAssumption
<1>9. QED BY <1>5, <1>7, <1>8 DEF Proof

-----------------------------------------------------------------------------
(***************************************************************************)
(* Executors.                                                              *)
(***************************************************************************)
LEMMA Touched ==
  ASSUME NEW f, f = [x \in Executors |-> f[x]], NEW e \in Executors, NEW v,
         NEW g, g = [f EXCEPT ![e] = v]
  PROVE  g = [x \in Executors |-> g[x]] /\ g[e] = v /\ \A d \in Executors \ {e} : g[d] = f[d]
OBVIOUS

LEMMA StandStill ==
  ASSUME NEW e, Apart(e), NEW d \in Executors \ {e}, Serving(d)
  PROVE  Serving(d)'
<1>1. \A s : Backed(s, evidence) => Backed(s, evidence')
  BY BackedGrows DEF Apart
<1>2. \A row : Storable(row, evidence) => Storable(row, evidence')
  BY <1>1 DEF Storable
<1>3. QED BY <1>1, <1>2 DEF Apart, Serving

LEMMA Served ==
  ASSUME NEW e \in Executors, RemediationInv, Shape', StoreInv', Apart(e), Serving(e)'
  PROVE  RemediationInv'
BY StandStill DEF RemediationInv

LEMMA StoreStands ==
  ASSUME StoreInv, run' = run, audit' = audit, evidence' = evidence
  PROVE  StoreInv'
BY DEF StoreInv

LEMMA AnswerEnds ==
  ASSUME NEW e \in Executors, Shape, NEW answer, Answer(e, answer), evidence' = evidence
  PROVE  Shape' /\ Apart(e) /\ Serving(e)'
<1>1. /\ pc' = [pc EXCEPT ![e] = "idle"] /\ held' = [held EXCEPT ![e] = None]
      /\ made' = [made EXCEPT ![e] = None] /\ cache' = [cache EXCEPT ![e] = None]
  BY DEF Answer, Goto
<1>2. Shape' /\ Apart(e) /\ pc'[e] = "idle" /\ cache'[e] = None
  BY <1>1, Touched DEF Shape, Apart
<1>3. QED BY <1>2 DEF Serving

LEMMA ToStoreApart ==
  ASSUME NEW e \in Executors, Shape, NEW row, ToStore(e, row), evidence \subseteq evidence',
         NEW verdict, cache' \in {cache, [cache EXCEPT ![e] = verdict]}
  PROVE  /\ Shape' /\ Apart(e)
         /\ pc'[e] = "load" /\ held'[e] = held[e] /\ made'[e] = row
         /\ cache'[e] \in {cache[e], verdict}
<1>1. pc' = [pc EXCEPT ![e] = "load"] /\ held' = held /\ made' = [made EXCEPT ![e] = row]
  BY DEF ToStore, Goto
<1>2. /\ cache' = [x \in Executors |-> cache'[x]] /\ cache'[e] \in {cache[e], verdict}
      /\ \A d \in Executors \ {e} : cache'[d] = cache[d]
  BY Touched DEF Shape
<1>3. QED BY <1>1, <1>2, Touched DEF Shape, Apart

LEMMA TransitionStorable ==
  ASSUME NEW e, NEW s, NEW t, NEW rows, Backed(t, rows)
  PROVE  Storable(Transition(e, s, t), rows)
<1>1. PICK row : row = Transition(e, s, t)
  OBVIOUS
<1>2. row.snapshot = t /\ row.status = StatusFor(t)
  BY <1>1 DEF Transition
<1>3. Len(row.key) = 7 /\ row.key[3] = t.stage /\ row.key[6] = t.reason
  BY <1>1 DEF Transition
<1>4. Explains(row.status, row.key) /\ (row.status = "succeeded" => t.reason = "verified")
  BY <1>2, <1>3 DEF Explains, StatusFor
<1>5. QED BY <1>1, <1>2, <1>4 DEF Storable

LEMMA FailureStorable ==
  ASSUME NEW s, NEW rows, Backed(s, rows)
  PROVE  Storable(Failure(s), rows)
<1>1. Failure(s).snapshot = s /\ Failure(s).status = "failed" /\ Len(Failure(s).key) = 3
  BY DEF Failure
<1>2. QED BY <1>1 DEF Storable, Explains

-----------------------------------------------------------------------------
(***************************************************************************)
(* The actions.                                                            *)
(***************************************************************************)
LEMMA BeginServes ==
  ASSUME NEW e \in Executors, RemediationInv, Begin(e)
  PROVE  RemediationInv'
<1>1. StoreInv'
  BY StoreStands DEF RemediationInv, Begin, stored
<1>2. pc' = [pc EXCEPT ![e] = "create"] /\ UNCHANGED <<held, made, cache, evidence>>
  BY DEF Begin, Goto, stored
<1>3. Shape' /\ Apart(e) /\ pc'[e] = "create"
  BY <1>2, Touched DEF RemediationInv, Shape, Apart
<1>4. Serving(e)'
  BY <1>2, <1>3 DEF RemediationInv, Serving
<1>5. QED BY <1>1, <1>3, <1>4, Served

LEMMA CreateOrGetServes ==
  ASSUME NEW e \in Executors, RemediationInv, CreateOrGet(e)
  PROVE  RemediationInv'
<1>1. Shape /\ StoreInv /\ Serving(e)
  BY DEF RemediationInv
<1>2. CASE /\ run' = [status |-> "queued", snapshot |-> None]
           /\ held' = [held EXCEPT ![e] = Start]
           /\ Goto(e, "snapshot")
           /\ UNCHANGED <<audit, evidence, artifacts, fixes, made, loaded, cache, sent, reply>>
  <2>1. StoreInv'
    BY <1>1, <1>2 DEF StoreInv, Terminal
  <2>2. Shape' /\ Apart(e) /\ pc'[e] = "snapshot" /\ held'[e] = Start /\ cache'[e] = cache[e]
    BY <1>1, <1>2, Touched DEF Goto, Shape, Apart
  <2>3. Serving(e)'
    BY <1>1, <2>2, StartBacked DEF Serving
  <2>4. QED BY <2>1, <2>2, <2>3, Served
<1>3. CASE Answer(e, "error") /\ UNCHANGED stored
  BY <1>1, <1>3, AnswerEnds, StoreStands, Served DEF stored
<1>4. CASE /\ run.status # "absent" /\ run.snapshot # None
           /\ held' = [held EXCEPT ![e] = IF run.status \in Terminal THEN run.snapshot
                                          ELSE Restored(run)]
           /\ Goto(e, IF run.status \in Terminal \/ run.snapshot.stage = "stopped"
                      THEN "artifact" ELSE "step")
           /\ UNCHANGED <<stored, made, loaded, cache, sent, reply>>
  <2>1. StoreInv'
    BY <1>1, <1>4, StoreStands DEF stored
  <2>2. PICK label \in {"artifact", "step"} :
          /\ pc' = [pc EXCEPT ![e] = label]
          /\ label = "step" => run.snapshot.stage # "stopped"
    BY <1>4 DEF Goto
  <2>3. held' = [held EXCEPT ![e] = run.snapshot] /\ UNCHANGED <<made, cache, evidence>>
    BY <1>4 DEF Restored, stored
  <2>4. /\ Shape' /\ Apart(e) /\ pc'[e] = label /\ held'[e] = run.snapshot
        /\ cache'[e] = cache[e]
    BY <1>1, <2>2, <2>3, Touched DEF Shape, Apart
  <2>5. Serving(e)'
    BY <1>1, <1>4, <2>2, <2>3, <2>4 DEF Serving, StoreInv
  <2>6. QED BY <2>1, <2>4, <2>5, Served
<1>5. QED BY <1>2, <1>3, <1>4 DEF CreateOrGet

LEMMA SaveSnapshotServes ==
  ASSUME NEW e \in Executors, RemediationInv, SaveSnapshot(e)
  PROVE  RemediationInv'
<1>1. Shape /\ StoreInv /\ Serving(e) /\ pc[e] = "snapshot"
  BY DEF RemediationInv, SaveSnapshot
<1>2. /\ run' = [status |-> "running", snapshot |-> held[e]]
      /\ pc' = [pc EXCEPT ![e] = "step"] /\ UNCHANGED <<audit, evidence, held, made, cache>>
  BY DEF SaveSnapshot, Goto
<1>3. StoreInv'
  BY <1>1, <1>2 DEF StoreInv, Serving, Terminal
<1>4. Shape' /\ Apart(e) /\ pc'[e] = "step"
  BY <1>1, <1>2, Touched DEF Shape, Apart
<1>5. Serving(e)'
  BY <1>1, <1>2, <1>4 DEF Serving
<1>6. QED BY <1>3, <1>4, <1>5, Served

LEMMA StepServes ==
  ASSUME NEW e \in Executors, RemediationInv, Step(e)
  PROVE  RemediationInv'
<1>1. Shape /\ StoreInv /\ Serving(e) /\ pc[e] = "step" /\ held[e].stage # "verify"
  BY DEF RemediationInv, Step
<1>2. PICK t \in Steps(held[e], {}) : ToStore(e, Transition(e, held[e], t))
  BY DEF Step
<1>3. run' = run /\ audit' = audit /\ evidence' = evidence /\ cache' = cache
  BY <1>2 DEF Step, ToStore
<1>4. Backed(held[e], evidence) /\ held[e].stage # "stopped"
  BY <1>1 DEF Serving
<1>5. Backed(t, evidence)
  BY <1>1, <1>4, StepBacked
<1>6. Storable(Transition(e, held[e], t), evidence)
  BY <1>5, TransitionStorable
<1>7. /\ Shape' /\ Apart(e) /\ pc'[e] = "load" /\ held'[e] = held[e] /\ cache'[e] = cache[e]
      /\ made'[e] = Transition(e, held[e], t)
  BY <1>1, <1>2, <1>3, ToStoreApart
<1>8. Serving(e)'
  BY <1>1, <1>3, <1>4, <1>6, <1>7 DEF Serving
<1>9. QED BY <1>1, <1>3, <1>7, <1>8, StoreStands, Served

LEMMA StepRaisesServes ==
  ASSUME NEW e \in Executors, RemediationInv, StepRaises(e)
  PROVE  RemediationInv'
<1>1. Shape /\ StoreInv /\ Serving(e) /\ pc[e] = "step" /\ ToStore(e, Failure(held[e]))
  BY DEF RemediationInv, StepRaises
<1>2. run' = run /\ audit' = audit /\ evidence' = evidence /\ cache' = cache
  BY DEF StepRaises, ToStore
<1>3. Backed(held[e], evidence)
  BY <1>1 DEF Serving
<1>4. Storable(Failure(held[e]), evidence)
  BY <1>3, FailureStorable
<1>5. /\ Shape' /\ Apart(e) /\ pc'[e] = "load" /\ held'[e] = held[e] /\ cache'[e] = cache[e]
      /\ made'[e] = Failure(held[e])
  BY <1>1, <1>2, ToStoreApart
<1>6. Serving(e)'
  BY <1>1, <1>2, <1>3, <1>4, <1>5 DEF Serving
<1>7. QED BY <1>1, <1>2, <1>5, <1>6, StoreStands, Served

LEMMA PersistLoadServes ==
  ASSUME NEW e \in Executors, RemediationInv, PersistLoad(e)
  PROVE  RemediationInv'
<1>1. Shape /\ StoreInv /\ Serving(e) /\ pc[e] = "load" /\ UNCHANGED stored
  BY DEF RemediationInv, PersistLoad
<1>2. StoreInv'
  BY <1>1, StoreStands DEF stored
<1>3. CASE Answer(e, "error")
  BY <1>1, <1>2, <1>3, AnswerEnds, Served DEF stored
<1>4. CASE Goto(e, "store") /\ UNCHANGED <<held, made, cache, sent, reply>>
  <2>1. Shape' /\ Apart(e) /\ pc'[e] = "store"
    BY <1>1, <1>4, Touched DEF Goto, Shape, Apart, stored
  <2>2. Serving(e)'
    BY <1>1, <1>4, <2>1 DEF Serving, stored
  <2>3. QED BY <1>2, <2>1, <2>2, Served
<1>5. QED BY <1>3, <1>4 DEF PersistLoad

LEMMA RetainServes ==
  ASSUME NEW e \in Executors, RemediationInv, Retain(e)
  PROVE  RemediationInv'
BY AnswerEnds, StoreStands, Served DEF RemediationInv, Retain

LEMMA CrashServes ==
  ASSUME NEW e \in Executors, RemediationInv, Crash(e)
  PROVE  RemediationInv'
BY AnswerEnds, StoreStands, Served DEF RemediationInv, Crash, stored

\* The row that is stored may be another executor's in one column and this one's
\* in the other: each column is still explained.
LEMMA PersistStoreServes ==
  ASSUME NEW e \in Executors, RemediationInv, PersistStore(e)
  PROVE  RemediationInv'
<1>1. Shape /\ StoreInv /\ Serving(e) /\ pc[e] = "store" /\ evidence' = evidence
  BY DEF RemediationInv, PersistStore
<1>2. CASE Answer(e, "error") /\ UNCHANGED <<run, audit>>
  BY <1>1, <1>2, AnswerEnds, StoreStands, Served
<1>3. CASE /\ run' = Updated(e)
           /\ audit' = audit \union {[key |-> made[e].key, value |-> made[e].value]}
           /\ held' = [held EXCEPT ![e] = made[e].snapshot]
           /\ Goto(e, IF made[e].status = "failed" \/ made[e].snapshot.stage = "stopped"
                      THEN "artifact" ELSE "step")
           /\ made' = [made EXCEPT ![e] = None]
           /\ loaded' = [loaded EXCEPT ![e] = None]
           /\ UNCHANGED <<cache, sent, reply>>
  <2>1. PICK row : row = made[e]
    OBVIOUS
  <2>2. Storable(row, evidence)
    BY <1>1, <2>1 DEF Serving
  <2>3. PICK label \in {"artifact", "step"} :
          /\ pc' = [pc EXCEPT ![e] = label]
          /\ label = "step" => row.snapshot.stage # "stopped"
    BY <1>3, <2>1 DEF Goto
  <2>4. /\ run'.status \in {row.status, run.status}
        /\ run'.snapshot \in {row.snapshot, run.snapshot}
    BY <1>3, <2>1 DEF Updated
  <2>5. audit \subseteq audit' /\ \E new \in audit' : new.key = row.key
    <3>1. PICK new : new = [key |-> row.key, value |-> row.value]
      OBVIOUS
    <3>2. audit' = audit \union {new}
      BY <1>3, <2>1, <3>1
    <3>3. new.key = row.key
      BY <3>1
    <3>4. QED BY <3>2, <3>3
  <2>6. run'.status \in Terminal => \E new \in audit' : Explains(run'.status, new.key)
    BY <1>1, <2>2, <2>4, <2>5 DEF StoreInv, Storable
  <2>7. run'.status = "succeeded" => Proof(evidence')
    <3>1. row.status = "succeeded" => Proof(evidence)
      BY <1>1, <2>2, VerifiedProof DEF StoreInv, Storable
    <3>2. run.status = "succeeded" => Proof(evidence)
      BY <1>1 DEF StoreInv
    <3>3. QED BY <1>1, <2>4, <3>1, <3>2
  <2>8. run'.snapshot # None => Backed(run'.snapshot, evidence')
    BY <1>1, <2>2, <2>4 DEF StoreInv, Storable
  <2>9. StoreInv'
    BY <1>1, <2>6, <2>7, <2>8 DEF StoreInv
  <2>10. /\ Shape' /\ Apart(e) /\ pc'[e] = label /\ held'[e] = row.snapshot
         /\ cache'[e] = cache[e]
    BY <1>1, <1>3, <2>1, <2>3, Touched DEF Shape, Apart
  <2>11. Serving(e)'
    BY <1>1, <2>2, <2>3, <2>10 DEF Serving, Storable
  <2>12. QED BY <2>9, <2>10, <2>11, Served
<1>4. QED BY <1>2, <1>3 DEF PersistStore

\* The clock, then the budget, then the verdict: a stage of the loop that is
\* returned what was stored.
LEMMA VerifyTakes ==
  ASSUME NEW s, NEW tick \in Ticks, Loop!Running(s), s.stage = "verify", NEW returned, NEW t,
         \/ BudgetCheck(Elapse(s, tick)) /\ t = Halt(Elapse(s, tick))
         \/ ~BudgetCheck(Elapse(s, tick)) /\ t \in Verify(Elapse(s, tick), returned)
  PROVE  t \in Steps(s, returned)
<1>1. PICK u : u = Elapse(s, tick)
  OBVIOUS
<1>2. u.stage = "verify"
  BY <1>1, SameData, Loop!ElapseRunning, OrchestratorAssumption, AutonomyAssumption
<1>3. AtStage(u, returned) = Verify(u, returned)
  BY <1>2 DEF AtStage
<1>4. t \in IF BudgetCheck(u) THEN {Halt(u)} ELSE AtStage(u, returned)
  BY <1>1, <1>3
<1>5. u \in {Elapse(s, moved) : moved \in Ticks}
  BY <1>1
<1>6. QED BY <1>4, <1>5 DEF Steps

LEMMA VerdictGiven ==
  ASSUME NEW e \in Executors, Serving(e), pc[e] = "step", held[e].stage = "verify",
         NEW j \in Judgements(e), j.commit \in Commits
  PROVE  j.status \in Verdicts /\ Given(Verdict(e, j))
<1>1. /\ Requested(held[e]) \in Workloads /\ held[e].patch \in Patches
      /\ held[e].attempts \in Nat /\ held[e].attempts >= 1
  BY GoesOn DEF Serving
<1>2. j.status \in Verdicts /\ j.attempt = held[e].attempts /\ j.patch = held[e].patch
  <2>1. CASE Cached(e)
    BY <2>1 DEF Judgements, Cached, Serving
  <2>2. CASE ~Cached(e)
    BY <2>2 DEF Judgements, Verdicts
  <2>3. QED BY <2>1, <2>2
<1>3. QED BY <1>1, <1>2 DEF Verdict, Given, Results

\* What the verification stage is about to store, and what it has stored.
Witnessed(e) ==
  /\ evidence \subseteq evidence' /\ \A r \in evidence' \ evidence : Given(r)
  /\ \E j : j.status \in Verdicts /\ cache' \in {cache, [cache EXCEPT ![e] = j]}
  /\ \E t : Backed(t, evidence') /\ ToStore(e, Transition(e, held[e], t))

LEMMA StepVerifyWitnessed ==
  ASSUME NEW e \in Executors, Shape, StoreInv, Serving(e), StepVerify(e)
  PROVE  Witnessed(e)
<1>1. /\ pc[e] = "step" /\ held[e].stage = "verify" /\ Backed(held[e], evidence)
      /\ held[e].stage # "stopped"
  BY DEF StepVerify, Serving
<1>2. Loop!Running(held[e])
  BY <1>1, GoesOn
<1>3. PICK tick \in Ticks :
        LET s == Elapse(held[e], tick) IN
        \/ ~BudgetCheck(s) /\ Verified(e, s)
        \/ /\ BudgetCheck(s)
           /\ ToStore(e, Transition(e, held[e], Halt(s)))
           /\ UNCHANGED <<evidence, cache, fixes>>
  BY DEF StepVerify
<1>4. PICK s : s = Elapse(held[e], tick)
  OBVIOUS
<1>5. PICK known : known.status \in Verdicts
  <2>1. [status |-> "passed"].status \in Verdicts
    BY DEF Verdicts
  <2>2. QED BY <2>1
<1>6. ASSUME NEW t \in Steps(held[e], {}), ToStore(e, Transition(e, held[e], t)),
             UNCHANGED <<evidence, cache>>
      PROVE  Witnessed(e)
  <2>1. Backed(t, evidence)
    BY <1>1, <1>6, QuietBacked
  <2>2. QED BY <1>5, <1>6, <2>1 DEF Witnessed
<1>7. CASE BudgetCheck(s)
  BY <1>1, <1>2, <1>3, <1>4, <1>6, <1>7, VerifyTakes
<1>8. CASE ~BudgetCheck(s) /\ Verified(e, s)
  <2>1. ASSUME NEW moved \in Ticks, NEW returned
        PROVE  Unverified(s, moved) \in Steps(held[e], returned)
    <3>1. Unverified(s, moved) \in Verify(s, returned)
      BY DEF Verify
    <3>2. QED BY <1>1, <1>2, <1>4, <1>8, <3>1, VerifyTakes
  <2>2. CASE \E moved \in Ticks : /\ ToStore(e, Transition(e, held[e], Unverified(s, moved)))
                                  /\ UNCHANGED <<evidence, cache>>
    BY <1>6, <2>1, <2>2
  <2>3. ASSUME NEW j \in Judgements(e), j.commit \in Commits,
               Recorded(e, s, Verdict(e, j)), cache' = [cache EXCEPT ![e] = j]
        PROVE  Witnessed(e)
    <3>1. PICK r : r = Verdict(e, j)
      OBVIOUS
    <3>2. j.status \in Verdicts /\ Given(r)
      BY <1>1, <2>3, <3>1, VerdictGiven
    <3>3. PICK moved \in Ticks : ToStore(e, Transition(e, held[e],
            IF Taken(e) THEN Unverified(s, moved) ELSE Judged(s, r, moved)))
      BY <2>3, <3>1 DEF Recorded
    <3>4. PICK t : t = IF Taken(e) THEN Unverified(s, moved) ELSE Judged(s, r, moved)
      OBVIOUS
    <3>5. evidence' = IF Taken(e) THEN evidence ELSE evidence \union {r}
      BY <2>3, <3>1 DEF Recorded
    <3>6. Backed(t, evidence')
      <4>1. CASE Taken(e)
        <5>1. t \in Steps(held[e], {})
          BY <2>1, <3>4, <4>1
        <5>2. QED BY <1>1, <3>5, <4>1, <5>1, QuietBacked
      <4>2. CASE ~Taken(e)
        <5>1. t \in Verify(s, {r})
          BY <3>4, <4>2 DEF Verify
        <5>2. t \in Steps(held[e], {r})
          BY <1>1, <1>2, <1>4, <1>8, <5>1, VerifyTakes
        <5>3. {r} \subseteq Results
          BY <3>2 DEF Given
        <5>4. QED BY <1>1, <3>5, <4>2, <5>2, <5>3, StepBacked
      <4>3. QED BY <4>1, <4>2
    <3>7. ToStore(e, Transition(e, held[e], t))
      BY <3>3, <3>4
    <3>8. evidence \subseteq evidence' /\ \A x \in evidence' \ evidence : Given(x)
      BY <3>2, <3>5
    <3>9. QED BY <2>3, <3>2, <3>6, <3>7, <3>8 DEF Witnessed
  <2>4. QED BY <1>8, <2>2, <2>3 DEF Verified
<1>9. QED BY <1>3, <1>4, <1>7, <1>8

LEMMA StepVerifyServes ==
  ASSUME NEW e \in Executors, RemediationInv, StepVerify(e)
  PROVE  RemediationInv'
<1>1. Shape /\ StoreInv /\ Serving(e) /\ pc[e] = "step"
  BY DEF RemediationInv, StepVerify
<1>2. Witnessed(e)
  BY <1>1, StepVerifyWitnessed
<1>3. PICK t : Backed(t, evidence') /\ ToStore(e, Transition(e, held[e], t))
  BY <1>2 DEF Witnessed
<1>4. PICK j : j.status \in Verdicts /\ cache' \in {cache, [cache EXCEPT ![e] = j]}
  BY <1>2 DEF Witnessed
<1>5. evidence \subseteq evidence' /\ \A r \in evidence' : Given(r)
  BY <1>1, <1>2 DEF Witnessed, StoreInv
<1>6. run' = run /\ audit' = audit
  BY <1>3 DEF ToStore
<1>7. Proof(evidence) => Proof(evidence')
  BY <1>5 DEF Proof
<1>8. StoreInv'
  BY <1>1, <1>5, <1>6, <1>7, BackedGrows DEF StoreInv
<1>9. /\ Shape' /\ Apart(e) /\ pc'[e] = "load" /\ held'[e] = held[e]
      /\ made'[e] = Transition(e, held[e], t) /\ cache'[e] \in {cache[e], j}
  BY <1>1, <1>3, <1>4, <1>5, ToStoreApart
<1>10. Storable(Transition(e, held[e], t), evidence')
  BY <1>3, TransitionStorable
<1>11. Backed(held[e], evidence')
  BY <1>1, <1>5, BackedGrows DEF Serving
<1>12. Serving(e)'
  BY <1>1, <1>4, <1>9, <1>10, <1>11 DEF Serving
<1>13. QED BY <1>8, <1>9, <1>12, Served

-----------------------------------------------------------------------------
(***************************************************************************)
(* The invariant.                                                          *)
(***************************************************************************)
LEMMA RemediationStep == RemediationInv /\ [Next]_vars => RemediationInv'
<1>1. CASE UNCHANGED vars
  <2>1. UNCHANGED <<run, audit, evidence, pc, held, made, cache>>
    BY <1>1 DEF vars, stored, executor
  <2>2. Shape /\ StoreInv /\ (\A e \in Executors : Serving(e)) => RemediationInv'
    BY <2>1 DEF RemediationInv, Shape, StoreInv, Serving
  <2>3. QED BY <2>2 DEF RemediationInv
<1>2. ASSUME RemediationInv, NEW e \in Executors, Begin(e) \/ Serve(e) \/ Crash(e)
      PROVE  RemediationInv'
  BY <1>2, BeginServes, CreateOrGetServes, SaveSnapshotServes, StepServes, StepVerifyServes,
     StepRaisesServes, PersistLoadServes, PersistStoreServes, RetainServes, CrashServes
     DEF Serve
<1>3. QED BY <1>1, <1>2 DEF Next

LEMMA RemediationInvariant == Spec => []RemediationInv
<1>1. Init => RemediationInv
  BY DEF Init, NoRun, RemediationInv, Shape, StoreInv, Serving, Terminal
<1>2. QED BY <1>1, RemediationStep, PTL DEF Spec

-----------------------------------------------------------------------------
\* Every verdict a stored snapshot rests on was stored as evidence first
\* (PersistedFixVerifier), whichever executors race, fail or crash.
THEOREM EvidenceCorrect == Spec => []EvidenceBacked
<1>1. RemediationInv => EvidenceBacked
  BY DEF RemediationInv, StoreInv, Backed, EvidenceBacked
<1>2. QED BY <1>1, RemediationInvariant, PTL

\* A run that is stored as succeeded has passing evidence in the store for every
\* planned workload, of one attempt at one patch on one fix commit; and every
\* terminal run has the audit row that says why it ended (persist_stage).
THEOREM TerminalCorrect == Spec => []TerminalBacked
<1>1. RemediationInv => TerminalBacked
  BY DEF RemediationInv, StoreInv, Terminal, Explains, Proof, TerminalBacked
<1>2. QED BY <1>1, RemediationInvariant, PTL

-----------------------------------------------------------------------------
(***************************************************************************)
(* One executor: the stored snapshots are those of the loop in memory.     *)
(***************************************************************************)
\* What a verifier may be asked for in a stage of the loop.
Asked(s) == IF s.stage = "verify" THEN Answers(s) ELSE {}

\* What the executor goes on from is what is stored, and what it is about to store is
\* one stage further, unless that raised.
Following(e) ==
  /\ pc[e] = "snapshot" => held[e] = Start /\ run.snapshot = None
  /\ pc[e] \in {"step", "load", "store"} =>
       run.snapshot = held[e] /\ held[e].stage # "stopped"
  /\ pc[e] \in {"load", "store"} =>
       /\ made[e].snapshot = held[e] \/ made[e].snapshot \in Steps(held[e], Asked(held[e]))
       /\ made[e].status # "absent"
  /\ pc[e] = "store" => loaded[e] = run

AloneInv(e) ==
  /\ loaded = [x \in Executors |-> loaded[x]]
  /\ run.status = "absent" => run.snapshot = None
  /\ Following(e)

LEMMA BackedIsSnapshot ==
  ASSUME NEW s, NEW rows, Backed(s, rows)
  PROVE  s # None /\ s.stage \in Stages
<1>1. s \in States
  BY SameData DEF Backed, Loop!Sound
<1>2. QED BY <1>1, RemediationAssumption DEF States

LEMMA StatusPresent ==
  ASSUME NEW e, NEW s, NEW t
  PROVE  /\ Transition(e, s, t).snapshot = t /\ Transition(e, s, t).status # "absent"
         /\ Failure(s).snapshot = s /\ Failure(s).status # "absent"
<1>1. Transition(e, s, t).snapshot = t /\ Transition(e, s, t).status = StatusFor(t)
  BY DEF Transition
<1>2. QED BY <1>1 DEF StatusFor, Failure

\* Whatever the durable verifier does, the loop's would have answered so: the verdict
\* names the attempt and the patch it was asked about, or the attempt is over.
LEMMA StepVerifyAsked ==
  ASSUME NEW e \in Executors, Serving(e), StepVerify(e)
  PROVE  \E t \in Steps(held[e], Asked(held[e])) : ToStore(e, Transition(e, held[e], t))
<1>1. /\ pc[e] = "step" /\ held[e].stage = "verify" /\ Backed(held[e], evidence)
      /\ held[e].stage # "stopped"
  BY DEF StepVerify, Serving
<1>2. Loop!Running(held[e]) /\ Asked(held[e]) = Answers(held[e])
  BY <1>1, GoesOn DEF Asked
<1>3. PICK tick \in Ticks :
        LET s == Elapse(held[e], tick) IN
        \/ ~BudgetCheck(s) /\ Verified(e, s)
        \/ /\ BudgetCheck(s)
           /\ ToStore(e, Transition(e, held[e], Halt(s)))
           /\ UNCHANGED <<evidence, cache, fixes>>
  BY DEF StepVerify
<1>4. PICK s : s = Elapse(held[e], tick)
  OBVIOUS
<1>5. CASE BudgetCheck(s)
  BY <1>1, <1>2, <1>3, <1>4, <1>5, VerifyTakes
<1>6. CASE ~BudgetCheck(s) /\ Verified(e, s)
  <2>1. ASSUME NEW t \in Verify(s, Answers(held[e])) PROVE t \in Steps(held[e], Asked(held[e]))
    BY <1>1, <1>2, <1>4, <1>6, <2>1, VerifyTakes
  <2>2. ASSUME NEW moved \in Ticks PROVE Unverified(s, moved) \in Steps(held[e], Asked(held[e]))
    BY <2>1 DEF Verify
  <2>3. CASE \E moved \in Ticks : ToStore(e, Transition(e, held[e], Unverified(s, moved)))
    BY <2>2, <2>3
  <2>4. ASSUME NEW j \in Judgements(e), j.commit \in Commits, Recorded(e, s, Verdict(e, j))
        PROVE  \E t \in Steps(held[e], Asked(held[e])) : ToStore(e, Transition(e, held[e], t))
    <3>1. PICK r : r = Verdict(e, j)
      OBVIOUS
    <3>2. PICK moved \in Ticks : ToStore(e, Transition(e, held[e],
            IF Taken(e) THEN Unverified(s, moved) ELSE Judged(s, r, moved)))
      BY <2>4, <3>1 DEF Recorded
    <3>3. r \in Answers(held[e])
      <4>1. Requested(held[e]) \in Workloads
        BY <1>1, GoesOn
      <4>2. j.status \in Verdicts /\ j.attempt = held[e].attempts /\ j.patch = held[e].patch
        <5>1. CASE Cached(e)
          BY <5>1 DEF Judgements, Cached, Serving
        <5>2. CASE ~Cached(e)
          BY <5>2 DEF Judgements, Verdicts
        <5>3. QED BY <5>1, <5>2
      <4>3. QED BY <2>4, <3>1, <4>1, <4>2 DEF Verdict, Answers
    <3>4. Judged(s, r, moved) \in Steps(held[e], Asked(held[e]))
      BY <2>1, <3>3 DEF Verify
    <3>5. QED BY <2>2, <3>2, <3>4
  <2>5. QED BY <1>6, <2>3, <2>4 DEF Verified
<1>7. QED BY <1>3, <1>4, <1>5, <1>6

\* A request that ends leaves nothing to follow.
LEMMA AnswerFollows ==
  ASSUME NEW e \in Executors, Shape, AloneInv(e), NEW answer, Answer(e, answer), UNCHANGED run
  PROVE  AloneInv(e)'
<1>1. pc' = [pc EXCEPT ![e] = "idle"] /\ loaded' = [loaded EXCEPT ![e] = None]
  BY DEF Answer, Goto
<1>2. pc'[e] = "idle" /\ loaded' = [x \in Executors |-> loaded'[x]]
  BY <1>1, Touched DEF Shape, AloneInv
<1>3. QED BY <1>2 DEF AloneInv, Following

LEMMA ToStoreFollows ==
  ASSUME NEW e \in Executors, Shape, AloneInv(e), pc[e] = "step", NEW row, ToStore(e, row),
         row.snapshot = held[e] \/ row.snapshot \in Steps(held[e], Asked(held[e])),
         row.status # "absent"
  PROVE  AloneInv(e)'
<1>1. /\ pc' = [pc EXCEPT ![e] = "load"] /\ made' = [made EXCEPT ![e] = row]
      /\ UNCHANGED <<run, held, loaded>>
  BY DEF ToStore, Goto
<1>2. pc'[e] = "load" /\ made'[e] = row
  BY <1>1, Touched DEF Shape
<1>3. QED BY <1>1, <1>2 DEF AloneInv, Following

LEMMA CreateFollows ==
  ASSUME NEW e \in Executors, RemediationInv, AloneInv(e), CreateOrGet(e) \/ SaveSnapshot(e)
  PROVE  AloneInv(e)'
<1>1. Shape
  BY DEF RemediationInv
<1>2. CASE /\ CreateOrGet(e) /\ run' = [status |-> "queued", snapshot |-> None]
           /\ held' = [held EXCEPT ![e] = Start] /\ Goto(e, "snapshot") /\ UNCHANGED loaded
  <2>1. pc'[e] = "snapshot" /\ held'[e] = Start
    BY <1>1, <1>2, Touched DEF Shape, Goto
  <2>2. QED BY <1>2, <2>1 DEF AloneInv, Following
<1>3. CASE CreateOrGet(e) /\ Answer(e, "error") /\ UNCHANGED stored
  BY <1>1, <1>3, AnswerFollows DEF stored
<1>4. CASE /\ CreateOrGet(e) /\ held' = [held EXCEPT ![e] = run.snapshot]
           /\ \E label \in {"artifact", "step"} :
                /\ pc' = [pc EXCEPT ![e] = label]
                /\ label = "step" => run.snapshot.stage # "stopped"
           /\ UNCHANGED <<run, loaded>>
  <2>1. PICK label \in {"artifact", "step"} :
          /\ pc' = [pc EXCEPT ![e] = label]
          /\ label = "step" => run.snapshot.stage # "stopped"
    BY <1>4
  <2>2. pc'[e] = label /\ held'[e] = run.snapshot
    BY <1>1, <1>4, <2>1, Touched DEF Shape
  <2>3. QED BY <1>4, <2>1, <2>2 DEF AloneInv, Following
<1>5. CASE SaveSnapshot(e)
  <2>1. /\ pc[e] = "snapshot" /\ run' = [status |-> "running", snapshot |-> held[e]]
        /\ pc' = [pc EXCEPT ![e] = "step"] /\ UNCHANGED <<held, loaded>>
    BY <1>5 DEF SaveSnapshot, Goto
  <2>2. pc'[e] = "step" /\ held[e].stage # "stopped"
    BY <1>1, <2>1, Touched DEF Shape, RemediationInv, Serving
  <2>3. QED BY <2>1, <2>2 DEF AloneInv, Following
<1>6. QED BY <1>2, <1>3, <1>4, <1>5 DEF CreateOrGet, Goto, Restored, stored

\* Nobody stored in between, so that the row is what was made.
LEMMA Unmixed ==
  ASSUME NEW e \in Executors, AloneInv(e), pc[e] = "store"
  PROVE  Updated(e) = [status |-> made[e].status, snapshot |-> made[e].snapshot]
BY DEF AloneInv, Following, Updated

LEMMA PersistFollows ==
  ASSUME NEW e \in Executors, RemediationInv, AloneInv(e), PersistLoad(e) \/ PersistStore(e)
  PROVE  AloneInv(e)'
<1>1. Shape
  BY DEF RemediationInv
<1>2. CASE PersistLoad(e)
  <2>1. CASE Answer(e, "error")
    BY <1>1, <1>2, <2>1, AnswerFollows DEF PersistLoad, stored
  <2>2. CASE /\ loaded' = [loaded EXCEPT ![e] = run] /\ Goto(e, "store")
             /\ UNCHANGED <<held, made, cache, sent, reply>>
    <3>1. pc[e] = "load" /\ UNCHANGED run
      BY <1>2 DEF PersistLoad, stored
    <3>2. pc'[e] = "store" /\ loaded'[e] = run /\ loaded' = [x \in Executors |-> loaded'[x]]
      BY <1>1, <2>2, Touched DEF Shape, Goto, AloneInv
    <3>3. QED BY <2>2, <3>1, <3>2 DEF AloneInv, Following
  <2>3. QED BY <1>2, <2>1, <2>2 DEF PersistLoad
<1>3. CASE PersistStore(e) /\ Answer(e, "error") /\ UNCHANGED <<run, audit>>
  BY <1>1, <1>3, AnswerFollows
<1>4. CASE /\ PersistStore(e) /\ run' = Updated(e)
           /\ held' = [held EXCEPT ![e] = made[e].snapshot]
           /\ Goto(e, IF made[e].status = "failed" \/ made[e].snapshot.stage = "stopped"
                      THEN "artifact" ELSE "step")
           /\ loaded' = [loaded EXCEPT ![e] = None]
  <2>1. pc[e] = "store" /\ made[e].status # "absent"
    BY <1>4 DEF PersistStore, AloneInv, Following
  <2>2. run'.status = made[e].status /\ run'.snapshot = made[e].snapshot
    BY <1>4, <2>1, Unmixed
  <2>3. PICK label \in {"artifact", "step"} :
          /\ pc' = [pc EXCEPT ![e] = label]
          /\ label = "step" => made[e].snapshot.stage # "stopped"
    BY <1>4 DEF Goto
  <2>4. /\ pc'[e] = label /\ held'[e] = made[e].snapshot
        /\ loaded' = [x \in Executors |-> loaded'[x]]
    BY <1>1, <1>4, <2>3, Touched DEF Shape, AloneInv
  <2>5. QED BY <2>1, <2>2, <2>3, <2>4 DEF AloneInv, Following
<1>5. QED BY <1>2, <1>3, <1>4 DEF PersistStore

LEMMA AloneStep ==
  ASSUME NEW e, Executors = {e}, RemediationInv, AloneInv(e), [Next]_vars
  PROVE  AloneInv(e)'
<1>1. e \in Executors /\ Shape /\ Serving(e)
  BY DEF RemediationInv
<1>2. CASE UNCHANGED vars
  BY <1>2 DEF AloneInv, Following, vars, stored, executor
<1>3. CASE Begin(e)
  <2>1. pc' = [pc EXCEPT ![e] = "create"] /\ UNCHANGED <<run, loaded>>
    BY <1>3 DEF Begin, Goto, stored
  <2>2. pc'[e] = "create"
    BY <1>1, <2>1, Touched DEF Shape
  <2>3. QED BY <2>1, <2>2 DEF AloneInv, Following
<1>4. CASE Step(e)
  <2>1. pc[e] = "step" /\ Asked(held[e]) = {}
    BY <1>4 DEF Step, Asked
  <2>2. PICK t \in Steps(held[e], {}) : ToStore(e, Transition(e, held[e], t))
    BY <1>4 DEF Step
  <2>3. PICK row : row = Transition(e, held[e], t)
    OBVIOUS
  <2>4. row.snapshot = t /\ row.status # "absent"
    BY <2>3, StatusPresent
  <2>5. t \in Steps(held[e], Asked(held[e])) /\ ToStore(e, row)
    BY <2>1, <2>2, <2>3
  <2>6. QED BY <1>1, <2>1, <2>4, <2>5, ToStoreFollows
<1>5. CASE StepVerify(e)
  <2>1. PICK t \in Steps(held[e], Asked(held[e])) : ToStore(e, Transition(e, held[e], t))
    BY <1>1, <1>5, StepVerifyAsked
  <2>2. pc[e] = "step"
    BY <1>5 DEF StepVerify
  <2>3. QED BY <1>1, <2>1, <2>2, StatusPresent, ToStoreFollows
<1>6. CASE StepRaises(e)
  BY <1>1, <1>6, StatusPresent, ToStoreFollows DEF StepRaises
<1>7. CASE Retain(e) \/ Crash(e)
  BY <1>1, <1>7, AnswerFollows DEF Retain, Crash, stored
<1>8. QED BY <1>1, <1>2, <1>3, <1>4, <1>5, <1>6, <1>7, CreateFollows, PersistFollows DEF Next, Serve

\* The instance of the refinement has the loop's stages and verifier.
LEMMA OrchSteps ==
  \A s, returned : Orch!Steps(s, returned) = Steps(s, returned)
<1>1. /\ \A s, tick : Orch!Elapse(s, tick) = Elapse(s, tick)
      /\ \A s : Orch!Halt(s) = Halt(s) /\ (Orch!BudgetCheck(s) <=> BudgetCheck(s))
  BY DEF Orch!Elapse, Elapse, Orch!Capped, Capped, Orch!Halt, Halt, Orch!BudgetCheck, BudgetCheck,
         Orch!BudgetReason, BudgetReason
<1>2. \A s : Orch!BuildContext(s) = BuildContext(s)
  BY DEF Orch!BuildContext, BuildContext
<1>3. \A s : Orch!Diagnose(s) = Diagnose(s) /\ Orch!Propose(s) = Propose(s)
  BY DEF Orch!Diagnose, Diagnose, Orch!Propose, Propose, Orch!Accounted, Accounted, Orch!Halt, Halt,
         Orch!Fail, Fail, Orch!Advance, Advance, Orch!Spend, Spend, Orch!Elapse, Elapse, Orch!Capped, Capped,
         Orch!BudgetReason, BudgetReason
<1>4. \A s : Orch!Validate(s) = Validate(s)
  BY DEF Orch!Validate, Validate, Orch!Fail, Fail
<1>5. \A s, returned : Orch!Verify(s, returned) = Verify(s, returned)
  BY DEF Orch!Verify, Verify, Orch!Judged, Judged, Orch!Unverified, Unverified, Orch!Complaint, Complaint,
         Orch!Requested, Requested, Orch!Halt, Halt, Orch!Fail, Fail, Orch!Elapse, Elapse, Orch!Capped, Capped,
         Orch!BudgetReason, BudgetReason
<1>6. \A s, results : Orch!LevelOf(s, results) = LevelOf(s, results)
  BY DEF Orch!LevelOf, LevelOf, Orch!DecideAutonomy, DecideAutonomy, Orch!Disagrees, Disagrees,
         Orch!Belongs, Belongs, Orch!Covered, Covered, Orch!Workloads, Workloads,
         Orch!PassedWorkloads, PassedWorkloads, Orch!Proven, Proven, Orch!Lower, Lower, Orch!Only, Only,
         Orch!Range, Range, Orch!Cardinality, Cardinality
<1>7. \A s : Orch!Decide(s) = Decide(s)
  <2>1. \A s : (Orch!AllPassed(s) <=> AllPassed(s)) /\ Orch!Report(s) = Report(s)
    BY DEF Orch!AllPassed, AllPassed, Orch!Report, Report, Orch!OutcomeOf, OutcomeOf
  <2>2. \A s, reason : Orch!Finish(s, reason) = Finish(s, reason)
    BY <1>6 DEF Orch!Finish, Finish
  <2>3. QED BY <1>6, <2>1, <2>2 DEF Orch!Decide, Decide
<1>8. \A s, returned : Orch!AtStage(s, returned) = AtStage(s, returned)
  BY <1>2, <1>3, <1>4, <1>5, <1>7 DEF Orch!AtStage, AtStage
<1>9. QED BY <1>1, <1>8 DEF Orch!Steps, Steps

LEMMA OrchAnswers == \A s : Orch!Answers(s) = Answers(s)
BY DEF Orch!Answers, Answers, Orch!Workloads, Workloads, Orch!Verdicts, Verdicts,
       Orch!Requested, Requested

\* The snapshot the abstract loop is at.
View == IF run.snapshot = None THEN Start ELSE run.snapshot

\* A row that is stored is a stage of the loop, or what was stored before it.
LEMMA StoredStage ==
  ASSUME NEW e \in Executors, RemediationInv, AloneInv(e), PersistStore(e), UNCHANGED run \/ run' = Updated(e)
  PROVE  [Orch!Next]_View
<1>1. CASE UNCHANGED run
  BY <1>1 DEF View
<1>2. CASE run' = Updated(e)
  <2>1. pc[e] = "store" /\ Serving(e) /\ StoreInv
    BY DEF PersistStore, RemediationInv
  <2>2. /\ run.snapshot = held[e] /\ held[e].stage # "stopped" /\ run'.snapshot = made[e].snapshot
        /\ made[e].snapshot = held[e] \/ made[e].snapshot \in Steps(held[e], Asked(held[e]))
    BY <1>2, <2>1, Unmixed DEF AloneInv, Following
  <2>3. held[e] # None /\ made[e].snapshot # None /\ held[e].stage \in Stages
    BY <2>1, BackedIsSnapshot DEF Serving, Storable
  <2>4. View = held[e] /\ View' = made[e].snapshot
    BY <2>2, <2>3 DEF View
  <2>5. CASE made[e].snapshot \in Steps(held[e], Asked(held[e]))
    <3>1. PICK stage : stage = held[e].stage
      OBVIOUS
    <3>2. stage \in {"context", "diagnose", "patch", "validate", "verify", "decide"}
      BY <2>2, <2>3, <3>1 DEF Stages
    <3>3. View' \in Orch!Steps(View, IF stage = "verify" THEN Orch!Answers(View) ELSE {})
      BY <2>4, <2>5, <3>1, OrchSteps, OrchAnswers DEF Asked
    <3>4. Orch!Start = Start
      BY DEF Orch!Start, Start
    <3>5. Orch!Step(stage)
      BY <2>4, <3>1, <3>3 DEF Orch!Step, View
    <3>6. QED BY <3>2, <3>5 DEF Orch!Next
  <2>6. QED BY <2>2, <2>4, <2>5
<1>3. QED BY <1>1, <1>2

LEMMA RefinesStep ==
  ASSUME NEW e, Executors = {e}, RemediationInv, AloneInv(e), [Next]_vars
  PROVE  [Orch!Next]_View
<1>1. e \in Executors
  OBVIOUS
<1>2. CASE UNCHANGED run
  BY <1>2 DEF View
<1>3. CASE CreateOrGet(e) /\ run' = [status |-> "queued", snapshot |-> None] /\ run.status = "absent"
  BY <1>3 DEF AloneInv, View
<1>4. CASE SaveSnapshot(e)
  <2>1. run.snapshot = None /\ run'.snapshot = Start
    BY <1>4 DEF SaveSnapshot, AloneInv, Following
  <2>2. QED BY <2>1 DEF View
<1>5. CASE PersistStore(e)
  BY <1>1, <1>5, StoredStage DEF PersistStore
<1>6. UNCHANGED vars \/ Begin(e) \/ Step(e) \/ StepVerify(e) \/ StepRaises(e) \/ PersistLoad(e)
        \/ Retain(e) \/ Crash(e) => UNCHANGED run
  BY DEF vars, stored, Begin, Step, StepVerify, Verified, Recorded, StepRaises, ToStore, PersistLoad,
         Retain, Crash
<1>7. CreateOrGet(e) => UNCHANGED run \/ (run' = [status |-> "queued", snapshot |-> None] /\ run.status = "absent")
  BY DEF CreateOrGet, stored
<1>8. QED BY <1>1, <1>2, <1>3, <1>4, <1>5, <1>6, <1>7 DEF Next, Serve

\* The stored snapshot of a request that one executor serves goes through the stages of
\* the loop in memory (RemediationOrchestrator.run), however often that executor
\* crashes and starts over and wherever a stage, the verifier or the store fails.
THEOREM OrchestratorCorrect ==
  ASSUME NEW e, Executors = {e}
  PROVE  Spec => ImplementsOrchestrator
<1>1. Init => AloneInv(e)
  BY DEF Init, NoRun, AloneInv, Following
<1>2. RemediationInv /\ AloneInv(e) /\ [Next]_vars => AloneInv(e)'
  BY AloneStep
<1>3. Init => Orch!Init
  BY DEF Init, NoRun, Orch!Init, Orch!Start, Start
<1>4. RemediationInv /\ AloneInv(e) /\ [Next]_vars
        => [Orch!Next]_(IF run.snapshot = None THEN Start ELSE run.snapshot)
  BY RefinesStep DEF View
<1>5. QED BY <1>1, <1>2, <1>3, <1>4, RemediationInvariant, PTL DEF Spec, ImplementsOrchestrator, Orch!Spec
=============================================================================
