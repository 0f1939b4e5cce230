---------------------------- MODULE AutonomyRules ----------------------------
(***************************************************************************)
(* The autonomy rules of lou.decision.autonomy: which action the evidence  *)
(* of a remediation attempt permits, from 0 (report) over 1 (recommend)    *)
(* and 2 (generate_patch) to 3 (open_pr).  Every gate lowers a ceiling;    *)
(* evidence that belongs to something else declines the action (level 0).  *)
(* The scores of lou.scoring enter as Assessed, the ceiling their gates    *)
(* leave for a patch when so many planned workloads passed.                *)
(***************************************************************************)
EXTENDS Integers, Sequences, FiniteSets

CONSTANTS
  None,
  Plan,          \* the workload IDs of the trusted verification plan, in order
  Patches,       \* proposable patches; a patch stands for its SHA-256
  Foreign,       \* patches whose artifact names another analysis run
  Commits,       \* what a verification result may name as its commit
  Descendants,   \* those that descend from the analysis candidate
  Assessed,      \* patch or None -> number of passed workloads -> ceiling
  MaxAutonomy,   \* the policy ceiling
  CandidateRegression  \* the candidate-phase failure of this run is confirmed

ASSUME AutonomyAssumption ==
  /\ Plan \in Seq(STRING) /\ Plan # <<>>
  /\ \A i, j \in DOMAIN Plan : Plan[i] = Plan[j] => i = j
  /\ Foreign \subseteq Patches /\ Descendants \subseteq Commits
  /\ None \notin Patches /\ None \notin Commits
  /\ Assessed \in [Patches \union {None} -> [0..Len(Plan) -> 0..3]]
  /\ MaxAutonomy \in 0..3
  /\ CandidateRegression \in BOOLEAN

Workloads == {Plan[i] : i \in DOMAIN Plan}
Verdicts  == {"passed", "failed", "inconclusive"}

\* own: the result names the fix phase, this analysis run, and the patch hash
\* and attempt of the request it answers, which the other fields record.
Results == [workload : Workloads, status : Verdicts, own : BOOLEAN,
            attempt : Nat, patch : Patches, commit : Commits]

Lower(a, b) == IF a < b THEN a ELSE b

Covered(results) == {r.workload : r \in results}

PassedWorkloads(results) ==
  {w \in Workloads : \E r \in results : r.workload = w /\ r.status = "passed"}

-----------------------------------------------------------------------------
\* A deliberately wrong variant: the commits of the results are not compared.
BelongsWhateverCommit(r, patch, commit, attempt) ==
  r.own /\ r.patch = patch /\ r.attempt = attempt

\* The result names this patch, this attempt and the expected fix commit; an
\* expectation that is None is met by nothing.
Belongs(r, patch, commit, attempt) ==
  r.own /\ r.patch = patch /\ r.attempt = attempt /\ r.commit = commit

\* compare_identity and its callers: any disagreement declines the action.
Disagrees(patch, results, commit, attempt) ==
  /\ patch # None
  /\ \/ patch \in Foreign
     \/ commit # None /\ commit \notin Descendants
     \/ \E r \in results : ~Belongs(r, patch, commit, attempt)
     \/ results # {} /\ ~(Workloads \subseteq Covered(results))

\* The gates that stand between a generated patch and a pull request.
Proven(patch, results, commit) ==
  /\ patch # None /\ patch \notin Foreign
  /\ results # {}
  /\ \A r \in results : r.status = "passed" /\ r.own /\ r.patch = patch /\ r.commit = commit
  /\ Workloads \subseteq Covered(results)
  /\ CandidateRegression

DecideAutonomy(patch, results, commit, attempt) ==
  IF Disagrees(patch, results, commit, attempt) THEN 0
  ELSE Lower(MaxAutonomy,
             Lower(Assessed[patch][Cardinality(PassedWorkloads(results))],
                   IF Proven(patch, results, commit) THEN 3 ELSE 2))
=============================================================================
