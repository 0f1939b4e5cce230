---------------------------- MODULE RunRegistry ----------------------------
(***************************************************************************)
(* The in-memory analysis-run repository of lou.persistence.in_memory, the *)
(* "reference behavior for idempotency and lifecycle tests": what a store  *)
(* of analysis runs promises.  A run is its deduplication key.             *)
(***************************************************************************)
CONSTANT Keys

VARIABLE status   \* status of the run with that key, "absent" before it exists

Terminal == {"succeeded", "failed", "cancelled", "inconclusive"}
RunStatuses == {"queued", "running"} \union Terminal

\* _ALLOWED.
Allowed ==
  [s \in RunStatuses |->
     CASE s = "queued" -> {"running", "cancelled"}
       [] s = "running" -> Terminal
       [] OTHER -> {}]

Init == status = [k \in Keys |-> "absent"]

CreateOrGet(k) == status[k] = "absent" /\ status' = [status EXCEPT ![k] = "queued"]

Transition(k, to) ==
  /\ status[k] # "absent" /\ to \in Allowed[status[k]]
  /\ status' = [status EXCEPT ![k] = to]

Next == \E k \in Keys : CreateOrGet(k) \/ \E to \in RunStatuses : Transition(k, to)

Spec == Init /\ [][Next]_status
=============================================================================
