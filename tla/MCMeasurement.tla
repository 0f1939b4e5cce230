--------------------------- MODULE MCMeasurement ---------------------------
(***************************************************************************)
(* Instances of Measurement for TLC: an analysis and a remediation of the  *)
(* same commits, one check, and a load test of two repetitions.            *)
(***************************************************************************)
EXTENDS Measurement

CONSTANTS analysis, remediation

MCKind == [r \in Runs |-> IF r = analysis THEN "analysis" ELSE "remediation"]
MCChecks == <<"pytest">>

Edition(valid, ids) == [valid |-> valid, ids |-> ids]
MCEditions == [fixture |-> Edition(TRUE, {"pytest"}), weaker |-> Edition(TRUE, {"pytest"}),
               emptied |-> Edition(TRUE, {}), broken |-> Edition(FALSE, {})]

\* The weaker command passes whatever the code does.
Does(passes, queries, p95) ==
  [passes |-> {"weaker"} \union (IF passes THEN {"fixture"} ELSE {}), queries |-> queries, p95 |-> p95]
MakeWorld(baseline, candidate, fix, loads, applies) ==
  [truth |-> [baseline |-> baseline, candidate |-> candidate, fix |-> fix],
   loads |-> loads, applies |-> applies]
Good == Does(TRUE, 2, 10)
ManyQueries == Does(TRUE, 40, 10)
SlowCode == Does(TRUE, 2, 30)
Wrong == Does(FALSE, 2, 10)

MCWorlds ==
  [regressed  |-> MakeWorld(Good, ManyQueries, Good, 1, TRUE),
   slower     |-> MakeWorld(Good, SlowCode, Wrong, 1, TRUE),  \* the fix breaks a check
   unchanged  |-> MakeWorld(Good, Good, Good, 0, TRUE),
   failing    |-> MakeWorld(Good, Wrong, SlowCode, 1, TRUE),
   repaired   |-> MakeWorld(Good, Wrong, Good, 0, TRUE),
   failed     |-> MakeWorld(Wrong, Wrong, Good, 0, TRUE),     \* before the change already
   overloaded |-> MakeWorld(Good, Good, Good, 2, TRUE),       \* more load tests than supported
   misfit     |-> MakeWorld(Good, Wrong, Good, 0, FALSE)]     \* a patch that does not apply
=============================================================================
