------------------------------- MODULE Impact -------------------------------
(***************************************************************************)
(* From a commit pair to the workloads that are measured:                  *)
(* FixtureRepositoryIntelligence.inspect and FixtureWorkloadSelector.select*)
(* (lou/application/live.py), over the graph (RepositoryGraph), the search *)
(* (ImpactTraversal) and the planner (WorkloadPlan).  The graph comes from *)
(* immutable git objects; the workload manifest is a file of the working   *)
(* tree that inspect and select each read, and that its author may edit in *)
(* between.                                                                *)
(*                                                                         *)
(* The definition named SelectAfresh is a deliberately wrong form of the   *)
(* one it precedes; no specification uses it.                              *)
(***************************************************************************)
EXTENDS ImpactTraversal, RepositoryGraph, WorkloadPlan

CONSTANTS
  Sources,        \* what the two commits may contain
  Types,          \* the type of each node
  Manifests,      \* what .lou/workloads.json may declare
  SearchLimits, PlanningLimits, RegistryLimits,
  Configured,     \* fallback_workload_ids
  MaxEdits        \* bound: edits of the manifest

\* What a parser reads: a definition is a node of the graph of its candidate, it and a
\* statement are in a file that is parsed or would be, and a call of what no file
\* defines names no node.
Readable(s) ==
  /\ DOMAIN s.definitions \subseteq Nodes
  /\ \A d \in DOMAIN s.definitions : s.definitions[d].file \in Eligible(s)
  /\ \A t \in s.statements :
       /\ t.file \in Eligible(s)
       /\ t.kind = "call" /\ t.to \in Nodes => t.to \in DOMAIN s.definitions

ASSUME ImpactAssumption ==
  /\ Types \in [Nodes -> NodeTypes] /\ SearchLimits \subseteq TraversalLimits
  /\ \A s \in Sources : Readable(s)
  /\ \A m \in Manifests : Declarable(m)
  /\ None \notin Nodes /\ MaxEdits \in Nat

VARIABLES
  source,     \* the two commits
  manifest,   \* the manifest in the working tree
  edits,
  budget,     \* the planning limits
  recorded,   \* the context with its validation_plan
  measured    \* the plan of the selector

pipeline == <<source, manifest, edits, budget, recorded, measured>>
impactVars == <<vars, pipeline>>

Nothing == [state |-> "none"]

ImpactInit ==
  /\ source \in Sources /\ manifest \in Manifests /\ budget \in PlanningLimits
  /\ edits = 0 /\ recorded = Nothing /\ measured = Nothing
  /\ pc = "inspect"
  /\ \E l \in SearchLimits : Ready([Snapshot(source, Types) EXCEPT !.changed = {}], l)

\* Changes, symbols and graph: functions of the two commits.
BuildGraph ==
  /\ pc = "inspect"
  /\ graph' = Snapshot(source, Types)
  /\ todo' = graph'.changed /\ pc' = "start"
  /\ UNCHANGED <<limits, current, queue, reached, distance, truncated, pipeline>>

Search == Traverse /\ UNCHANGED pipeline

\* An invalid manifest raises ValueError, which ends the analysis.
Malformed ==
  /\ pc \in {"done", "select"} /\ ~ValidRegistry(manifest, RegistryLimits)
  /\ pc' = "raised"
  /\ UNCHANGED <<search, pipeline>>

\* The context that the search gives.
Found == Context(Types, {n \in reached : distance[n] = 0}, reached, Complete(source))

\* What is stored of a plan over it: the plan's selection replaces the selected ids.
Recording(registry) ==
  LET fallback == IF Found.complete THEN {} ELSE Fallbacks(registry, Configured)
      plan == Plan(Found, registry, fallback, budget)
  IN  [state |-> plan.state, plan |-> plan, fallback |-> fallback, registry |-> registry,
       context |-> [Found EXCEPT !.selected_workload_ids =
                      {plan.selected[i] : i \in DOMAIN plan.selected}]]

\* The rest of inspect().
PlanWorkloads ==
  /\ pc = "done" /\ ValidRegistry(manifest, RegistryLimits)
  /\ recorded' = Recording(manifest)
  /\ pc' = "select"
  /\ UNCHANGED <<search, source, manifest, edits, budget, measured>>

SelectAfresh ==
  /\ pc = "select" /\ ValidRegistry(manifest, RegistryLimits)
  /\ measured' = Plan(recorded.context, manifest, {}, budget)
  /\ pc' = "selected"
  /\ UNCHANGED <<search, source, manifest, edits, budget, recorded>>
\* FixtureWorkloadSelector.plan: plans again, over the stored context and the
\* manifest as it is now.
Select ==
  /\ pc = "select" /\ ValidRegistry(manifest, RegistryLimits)
  /\ measured' = Plan(recorded.context, manifest, recorded.fallback, budget)
  /\ pc' = "selected"
  /\ UNCHANGED <<search, source, manifest, edits, budget, recorded>>

\* The author of the working tree.
Edit ==
  /\ edits < MaxEdits /\ pc = "select"
  /\ edits' = edits + 1
  /\ manifest' \in Manifests \ {manifest}
  /\ UNCHANGED <<vars, source, budget, recorded, measured>>

ImpactNext == BuildGraph \/ Search \/ Malformed \/ PlanWorkloads \/ Select \/ Edit
ImpactSpec == ImpactInit /\ [][ImpactNext]_impactVars

-----------------------------------------------------------------------------
(***************************************************************************)
(* Properties.                                                             *)
(***************************************************************************)
\* What the two commits really say: every scope the diff touches, and of the
\* statements the visitors notice every one with its true target, whether or not it
\* could be read.  One that they pass over or take for another is outside of what
\* completeness can speak for.
Says(s) == Noticed(s) /\ s.form # "misread" /\ s.from # None
TouchedBy(p) ==
  IF Sides(p) = {"old", "new"} /\ p.old = p.new THEN p.touched
  ELSE UNION {p.scopes[side] : side \in Sides(p)}
Touched == LET pairs == FilePairs(source) IN UNION {TouchedBy(pairs[i]) : i \in DOMAIN pairs}
TruthOf(statements) ==
  [types |-> Types, changed |-> Touched \intersect DOMAIN source.definitions,
   edges |-> UNION {EdgesOf(source, s) : s \in statements}]
Truth == TruthOf({s \in source.statements : Says(s)})

\* "planned" and "complete_no_applicable" claim complete evidence.
ClaimsComplete == recorded.state \in {"planned", "complete_no_applicable"}
Accounted(entry) ==
  \/ \E i \in DOMAIN recorded.plan.selected : recorded.plan.selected[i] = entry.id
  \/ [id |-> entry.id, category |-> "budget"] \in recorded.plan.omitted

\* The workloads whose criteria hold of what the change reaches by these ways.
Called(registry, truth) ==
  LET reach == Within(truth, limits.max_depth)
  IN  {e \in registry.entries : Matches(e, Context(Types, truth.changed, reach, TRUE))}

\* A plan that claims complete evidence knows every scope the diff touches, and, of a
\* search that was not cut, contains every declared workload that the change calls for
\* by the statements the visitors notice, unless the budget is given as the reason: an
\* unreadable file, a computed route, a deleted definition or a skipped snapshot shows.
\* (A decorator, router, import or request that they pass over does not: see
\* UnsupportedShows.)
NoFalseCertainty ==
  ClaimsComplete =>
    /\ Touched \subseteq Defined(source)
    /\ ~truncated => \A e \in Called(recorded.registry, Truth) : Accounted(e)

\* A criterion over what is selected, which the first plan replaces in the context.
LooksBack(registry) ==
  \E e \in registry.entries : \E c \in e.criteria : c.source = "selected_workload_ids"

\* Planning again over the stored context selects the recorded workloads in the
\* recorded order, unless the manifest was edited in between or has such a criterion.
SelectionRepeats ==
  pc = "selected" /\ edits = 0 /\ ~LooksBack(recorded.registry) =>
    measured.selected = recorded.plan.selected

(***************************************************************************)
(* Stated by the documents and not so in the code; see the README.         *)
(***************************************************************************)
\* docs/hackathon/team/engineer-1/README.md:126: "Empty results and incomplete
\* results are different states."
EmptyIsNotIncomplete == recorded.state = "complete_no_applicable" => ~truncated
\* docs/hackathon/team/engineer-1/README.md:135: "Broken or unsupported syntax lowers
\* completeness".  A route on an imported router, or one without the prefix of an
\* include_router that was passed over, is missing from a graph that counts as complete.
UnsupportedShows ==
  ClaimsComplete /\ ~truncated =>
    \A e \in Called(recorded.registry, TruthOf({s \in source.statements : s.from # None})) :
      Accounted(e)
\* live.py:141 records the validation plan of the analysis.  The manifest may be edited
\* before live.py:173 reads it again; unedited, a criterion over "selected_workload_ids"
\* (workloads.py:30) may still match what the first plan put in their place (live.py:130).
RecordedIsMeasured == pc = "selected" => measured.selected = recorded.plan.selected
=============================================================================
