--------------------------- MODULE EvidenceBundle ---------------------------
(***************************************************************************)
(* build_context_bundle (lou/agents/context.py): which records of an       *)
(* analysis a provider is shown.  A record is its key, the files it names  *)
(* and its size; the evidence of a run is                                  *)
(*                                                                         *)
(*   consistent   whether run, repository and commit ids agree             *)
(*   records      change, finding, verification and graph context, in order*)
(*   workloads    the supplied workloads: an item, its id and its phase    *)
(*   selected     the workload ids the repository graph selected           *)
(*   texts        diffs, files and messages: an item and its kind          *)
(*   gaps         "affected_tests" or "affected_endpoints", when empty     *)
(*   unresolved   how many relationships the graph left unresolved         *)
(*                                                                         *)
(* The definition named AddCountsFirst is a deliberately wrong form of the *)
(* one it precedes; no specification uses it.                              *)
(***************************************************************************)
EXTENDS Naturals, Sequences, FiniteSets

Tokens(bytes) == (bytes + 3) \div 4

Fits(bundle, item, budget) ==
  /\ Cardinality(bundle.files \union item.files) <= budget.max_files
  /\ bundle.bytes + item.bytes <= budget.max_bytes
  /\ bundle.tokens + Tokens(item.bytes) <= budget.max_tokens

AddCountsFirst(bundle, item, budget) ==
  LET counted == [bundle EXCEPT !.bytes = @ + item.bytes, !.tokens = @ + Tokens(item.bytes),
                                !.files = @ \union item.files]
  IN  IF Fits(bundle, item, budget) THEN [counted EXCEPT !.items = Append(@, item.key)]
      ELSE [counted EXCEPT !.omitted = @ \union {item.key}]
\* add(): an item over any budget is left out and named.
Add(bundle, item, budget) ==
  IF Fits(bundle, item, budget)
  THEN [bundle EXCEPT !.items = Append(@, item.key), !.files = @ \union item.files,
                      !.bytes = @ + item.bytes, !.tokens = @ + Tokens(item.bytes)]
  ELSE [bundle EXCEPT !.omitted = @ \union {item.key}]

Rejected(evidence) ==
  \/ ~evidence.consistent
  \/ \E i \in DOMAIN evidence.workloads :
        /\ evidence.workloads[i].id \in evidence.selected
        /\ evidence.workloads[i].phase # "candidate"

EmptyBundle == [items |-> <<>>, omitted |-> {}, files |-> {}, bytes |-> 0, tokens |-> 0,
                unresolved |-> 0]

\* What is gone through, in order; a supplied workload that the graph did not select is
\* not wanted.
Offered(evidence) ==
  LET offer(item, wanted) == [item |-> item, wanted |-> wanted] IN
  [i \in DOMAIN evidence.records |-> offer(evidence.records[i], TRUE)]
    \o [i \in DOMAIN evidence.workloads |->
          offer(evidence.workloads[i].item, evidence.workloads[i].id \in evidence.selected)]
    \o [i \in DOMAIN evidence.texts |-> offer(evidence.texts[i].item, TRUE)]

Consider(bundle, offer, budget) ==
  IF offer.wanted THEN Add(bundle, offer.item, budget)
  ELSE [bundle EXCEPT !.omitted = @ \union {offer.item.key}]

\* The bundle after each offer.
Additions(evidence, budget) ==
  LET offered == Offered(evidence)
      bundle[i \in 0..Len(offered)] ==
        IF i = 0 THEN EmptyBundle ELSE Consider(bundle[i - 1], offered[i], budget)
  IN  bundle

Bundle(evidence, budget) ==
  LET added    == Additions(evidence, budget)[Len(Offered(evidence))]
      missing  == evidence.selected \ {evidence.workloads[i].id : i \in DOMAIN evidence.workloads}
      diffless == \A i \in DOMAIN evidence.texts : evidence.texts[i].kind # "diff"
      cut      == evidence.unresolved > budget.max_unresolved
  IN  [added EXCEPT
         !.omitted = @ \union missing \union evidence.gaps
                       \union (IF diffless THEN {"candidate_diff"} ELSE {})
                       \union (IF cut THEN {"unresolved_relationships"} ELSE {}),
         !.unresolved = IF cut THEN budget.max_unresolved ELSE evidence.unresolved]

Keys(bundle) == {bundle.items[i] : i \in DOMAIN bundle.items}

\* What may be offered: items of finite size, none twice.  The keys of the records are
\* fixed, those of the texts numbered, and a workload is in a plan once.
Offerable(evidence) ==
  LET offered == Offered(evidence) IN
  /\ offered \in Seq({offered[i] : i \in DOMAIN offered})
  /\ \A i \in DOMAIN offered :
       /\ offered[i].wanted \in BOOLEAN
       /\ offered[i].item.bytes \in Nat /\ IsFiniteSet(offered[i].item.files)
  /\ \A i, j \in DOMAIN offered : offered[i].item.key = offered[j].item.key => i = j
=============================================================================
