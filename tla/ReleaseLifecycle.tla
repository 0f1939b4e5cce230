-------------------------- MODULE ReleaseLifecycle --------------------------
(***************************************************************************)
(* What the deployment loop promises of one release, whatever clients,     *)
(* crashes and controller failures do: a status that only moves forward    *)
(* along released, paused, promoted, rolled_back, where a pause or a       *)
(* promotion follows a recorded policy decision and a rollback is final.   *)
(***************************************************************************)

VARIABLES
  status,   \* "absent" until the release is recorded
  intents   \* the decisions recorded for the release so far

lifecycle == <<status, intents>>

Init == status = "absent" /\ intents = {}

Create ==
  /\ status = "absent"
  /\ status' = "released"
  /\ UNCHANGED intents

Decide(decision) ==
  /\ status # "absent"
  /\ intents' = intents \union {decision}
  /\ UNCHANGED status

Pause ==
  /\ status = "released" /\ "pause" \in intents
  /\ status' = "paused"
  /\ UNCHANGED intents

Promote ==
  /\ status \in {"released", "paused"} /\ "promote" \in intents
  /\ status' = "promoted"
  /\ UNCHANGED intents

\* By decision or by an operator, who needs none.
RollBack ==
  /\ status \in {"released", "paused", "promoted"}
  /\ status' = "rolled_back"
  /\ UNCHANGED intents

Next ==
  \/ Create \/ Pause \/ Promote \/ RollBack
  \/ \E decision \in {"promote", "pause", "rollback"} : Decide(decision)

Spec == Init /\ [][Next]_lifecycle
=============================================================================
