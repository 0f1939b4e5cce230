---------------------------- MODULE WorkloadPlan ----------------------------
(***************************************************************************)
(* Planning of validation workloads (lou/repository/workloads.py) from the *)
(* context that build_repository_context (traversal.py) makes of a search. *)
(* A registry is a revision and a set of entries; an entry has an id, a    *)
(* type, a priority, an estimated cost, criteria, and whether it may be a  *)
(* fallback.  A criterion is a field of the context and the values of that *)
(* field that match it.                                                    *)
(***************************************************************************)
EXTENDS Naturals, Sequences, FiniteSets

CONSTANTS PytestId, K6Id  \* "checkout-pytest" and "checkout-k6"

TypeOrder == [pytest |-> 0, semgrep |-> 1, custom |-> 2, k6 |-> 3]

\* CriterionSource, but for "selection_reasons", which matches wording.
CriterionSources == {"changed_symbols", "affected_symbols", "affected_tests", "affected_endpoints",
                     "affected_data_dependencies", "selected_workload_ids"}

\* What the JSON of a manifest can be read as, valid or not; a rank is the place of an
\* id among the ids.
Declarable(registry) ==
  /\ IsFiniteSet(registry.entries)
  /\ \A e \in registry.entries :
       /\ e.type \in DOMAIN TypeOrder /\ {e.priority, e.cost, e.rank} \subseteq Nat
       /\ \A c \in e.criteria : c.source \in CriterionSources
  /\ \A e, f \in registry.entries : e.id = f.id <=> e.rank = f.rank

\* WorkloadDefinition and WorkloadRegistry reject these; the caller's run fails.
ValidEntry(entry, limits) ==
  /\ entry.type \in {"pytest", "k6"}  \* a manifest may declare no other
  /\ entry.cost > 0 /\ entry.cost <= limits.max_entry_cost
  /\ entry.criteria # {} /\ Cardinality(entry.criteria) <= limits.max_criteria
ValidRegistry(registry, limits) ==
  /\ Cardinality(registry.entries) <= limits.max_entries
  /\ \A e \in registry.entries : ValidEntry(e, limits)
  /\ \A e, f \in registry.entries : e.id = f.id => e = f

-----------------------------------------------------------------------------
\* build_repository_context: the two workloads of the first demonstration are named
\* directly, the others are found by their criteria.
Context(types, roots, reached, complete) ==
  LET Of(wanted) == {n \in reached : types[n] \in wanted} IN
  [changed_symbols |-> roots,
   affected_symbols |-> Of({"FUNCTION", "CLASS"}),
   affected_tests |-> Of({"TEST"}),
   affected_endpoints |-> Of({"ENDPOINT"}),
   affected_data_dependencies |-> Of({"DATABASE_TABLE"}),
   selected_workload_ids |->
     (IF Of({"TEST"}) \ roots # {} THEN {PytestId} ELSE {}) \union
     (IF Of({"LOAD_SCENARIO"}) # {} THEN {K6Id} ELSE {}),
   complete |-> complete]

-----------------------------------------------------------------------------
\* The key of sorted(): priority, then type, then id.
Before(e, f) ==
  \/ e.priority < f.priority
  \/ e.priority = f.priority /\ TypeOrder[e.type] < TypeOrder[f.type]
  \/ e.priority = f.priority /\ e.type = f.type /\ e.rank < f.rank

\* The i-th entry is the one that i - 1 entries are before.
Ordered(entries) ==
  [i \in 1..Cardinality(entries) |->
     CHOOSE e \in entries : Cardinality({f \in entries : Before(f, e)}) = i - 1]

\* _criterion_evidence and _matches.
Matches(entry, context) ==
  \/ entry.id \in context.selected_workload_ids
  \/ \E c \in entry.criteria : context[c.source] \intersect c.values # {}

\* Complete evidence must match; incomplete evidence admits only eligible fallbacks.
Applicable(entry, context, fallback) ==
  IF context.complete THEN Matches(entry, context)
  ELSE entry.id \in fallback /\ entry.fallback_eligible

Unapplied(context) == IF context.complete THEN "node_evidence" ELSE "incomplete_graph"

\* One round of the loop of plan_validation_workloads.
Consider(plan, entry, context, fallback, limits) ==
  LET Omit(category) == [plan EXCEPT !.omitted = @ \union {[id |-> entry.id, category |-> category]}]
  IN  IF ~Applicable(entry, context, fallback) THEN Omit(Unapplied(context))
      ELSE IF Len(plan.selected) >= limits.max_selected THEN Omit("budget")
      ELSE IF plan.cost + entry.cost > limits.max_cost THEN Omit("budget")
      ELSE [plan EXCEPT !.selected = Append(@, entry.id), !.cost = @ + entry.cost]

PlanState(context, plan) ==
  IF plan.selected = <<>> /\ \E o \in plan.omitted : o.category = "budget"
  THEN "budget_exhausted"
  ELSE IF ~context.complete
  THEN IF plan.selected # <<>> THEN "incomplete_with_fallback" ELSE "incomplete_no_fallback"
  ELSE IF plan.selected # <<>> THEN "planned" ELSE "complete_no_applicable"

\* The plan before the loop: ids that are asked for and not registered are omitted.
Unconsidered(context, registry, fallback) ==
  LET unknown == (context.selected_workload_ids \union fallback)
                   \ {e.id : e \in registry.entries}
  IN  [selected |-> <<>>, cost |-> 0, state |-> "none", revision |-> registry.revision,
       omitted |-> {[id |-> id, category |-> "unregistered"] : id \in unknown}]

\* The plan after each round.
Rounds(context, registry, fallback, limits) ==
  LET entries == Ordered(registry.entries)
      plan[i \in 0..Len(entries)] ==
        IF i = 0 THEN Unconsidered(context, registry, fallback)
        ELSE Consider(plan[i - 1], entries[i], context, fallback, limits)
  IN  plan

Plan(context, registry, fallback, limits) ==
  LET plan == Rounds(context, registry, fallback, limits)[Len(Ordered(registry.entries))]
  IN  [plan EXCEPT !.state = PlanState(context, plan)]

\* FixtureRepositoryIntelligence._fallbacks: what the manifest declares, unless the
\* configuration names others.
Fallbacks(registry, configured) ==
  IF configured # {} THEN configured
  ELSE {e.id : e \in {f \in registry.entries : f.fallback_eligible}}
=============================================================================
