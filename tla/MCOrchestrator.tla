--------------------------- MODULE MCOrchestrator ---------------------------
(***************************************************************************)
(* Instances of Orchestrator for TLC.                                      *)
(***************************************************************************)
EXTENDS Orchestrator

CONSTANTS good, other, huge, wrong, stray

TwoWorkloads == <<"pytest", "k6">>
OneWorkload == <<"pytest">>

\* verification_strength is below 0.8 until every workload passed; a huge patch
\* needs human planning; without a patch its size is unknown or supplied.
MCAssessed ==
  [p \in Patches \union {None} |->
     [n \in 0..Len(Plan) |-> IF p = huge THEN 1 ELSE IF n = Len(Plan) THEN 3 ELSE 2]]

NoUsage == {[tokens |-> 0, cost |-> 0]}
SomeUsage == {[tokens |-> 0, cost |-> 0], [tokens |-> 1, cost |-> 0], [tokens |-> 0, cost |-> 1]}
=============================================================================
