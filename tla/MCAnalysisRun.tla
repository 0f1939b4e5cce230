--------------------------- MODULE MCAnalysisRun ---------------------------
(***************************************************************************)
(* Instances of AnalysisRun for TLC.                                       *)
(***************************************************************************)
EXTENDS AnalysisRun, TLC

CONSTANTS api, cli, first, second, pytest

Symmetry == Permutations(Clients) \union Permutations(Keys) \union Permutations(Workloads)
=============================================================================
