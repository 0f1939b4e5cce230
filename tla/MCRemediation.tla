--------------------------- MODULE MCRemediation ---------------------------
(***************************************************************************)
(* Instances of Remediation for TLC.                                       *)
(***************************************************************************)
EXTENDS Remediation, TLC

CONSTANTS good, other, api, cli

TwoWorkloads == <<"pytest", "k6">>
OneWorkload == <<"pytest">>

\* verification_strength is below 0.8 until every workload passed.
MCAssessed ==
  [p \in Patches \union {None} |-> [n \in 0..Len(Plan) |-> IF n = Len(Plan) THEN 3 ELSE 2]]

NoUsage == {[tokens |-> 0, cost |-> 0]}
\* Neither the executors nor the patches are told apart by the actions.
Symmetry == Permutations({good, other}) \union Permutations({api, cli})
=============================================================================
