--------------------------- MODULE MCPublication ---------------------------
(***************************************************************************)
(* Instances of Publication for TLC.                                       *)
(***************************************************************************)
EXTENDS Publication, TLC

CONSTANTS api, cli

Symmetry == Permutations(Clients)
=============================================================================
