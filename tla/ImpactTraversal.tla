--------------------------- MODULE ImpactTraversal ---------------------------
(***************************************************************************)
(* traverse_repository_impact (lou/repository/traversal.py): the bounded   *)
(* breadth-first search from the changed nodes of a repository graph to    *)
(* the tests, endpoints, tables and load scenarios they affect.  A node is *)
(* a number that orders nodes as the code's node identifiers sort.         *)
(*                                                                         *)
(* VisitNewestFirst and PopLeftLate are deliberately wrong forms of the    *)
(* definition they precede; no specification uses them.                    *)
(***************************************************************************)
EXTENDS Naturals, Sequences, FiniteSets

CONSTANTS
  Nodes,  \* the nodes a graph may have
  Graphs  \* the snapshots the search may be given

VARIABLES
  graph,      \* the snapshot: types, edges and changed nodes
  limits,     \* TraversalLimits
  pc,         \* "start", "pop", "visit", "done", or a label of a user of the search
  todo,       \* the starts not yet added, or the steps of current not yet taken
  current,    \* the node whose steps are taken
  queue,      \* pending
  reached,    \* the nodes found
  distance,   \* the distance each of them was found at
  truncated   \* whether the node limit cut the search

search == <<graph, limits, todo, current, queue, reached, distance, truncated>>
vars == <<pc, search>>

NodeTypes == {"FILE", "FUNCTION", "CLASS", "TEST", "ENDPOINT", "DATABASE_TABLE", "LOAD_SCENARIO"}
EdgeTypes == {"DEFINES", "IMPORTS", "CALLS", "TESTED_BY", "READS_FROM", "WRITES_TO",
              "SERVES_ENDPOINT", "VALIDATED_BY"}
Snapshots == [types : [Nodes -> NodeTypes], changed : SUBSET Nodes,
              edges : SUBSET [from : Nodes, type : EdgeTypes, to : Nodes]]
TraversalLimits == [max_depth : Nat, max_nodes : Nat \ {0}]

\* IDs are strings, whose order is total: numbers stand for them.
ASSUME TraversalAssumption == Nodes \subseteq Nat /\ Graphs \subseteq Snapshots

Least(S) == CHOOSE n \in S : \A m \in S : n <= m

Onward == {"CALLS", "TESTED_BY", "READS_FROM", "WRITES_TO", "SERVES_ENDPOINT"}

\* _next_steps: where the impact of a node may go.
Steps(g, n) ==
  {m \in Nodes : \E e \in g.edges :
     \/ /\ g.types[n] \in {"FUNCTION", "CLASS"}
        /\ \/ e.from = n /\ e.to = m /\ e.type \in Onward
           \/ e.to = n /\ e.from = m /\ e.type = "CALLS"
     \/ g.types[n] = "ENDPOINT" /\ e.from = n /\ e.to = m /\ e.type = "VALIDATED_BY"}

Full == Cardinality(reached) >= limits.max_nodes

Find(n, d) ==
  /\ reached' = reached \union {n}
  /\ distance' = [distance EXCEPT ![n] = d]
  /\ queue' = Append(queue, n)

-----------------------------------------------------------------------------
\* A search of snapshot g within limits l begins.
Ready(g, l) ==
  /\ graph = g /\ limits = l
  /\ todo = g.changed
  /\ current = 0 /\ queue = <<>> /\ reached = {} /\ truncated = FALSE
  /\ distance = [n \in Nodes |-> 0]

Init == \E g \in Graphs, l \in TraversalLimits : Ready(g, l) /\ pc = "start"

\* One changed node becomes a start; the limit ends the loop.
AddStart ==
  /\ pc = "start" /\ todo # {}
  /\ \/ /\ ~Full
        /\ Find(Least(todo), 0)
        /\ todo' = todo \ {Least(todo)}
        /\ UNCHANGED truncated
     \/ /\ Full
        /\ truncated' = TRUE /\ todo' = {}
        /\ UNCHANGED <<queue, reached, distance>>
  /\ UNCHANGED <<pc, graph, limits, current>>

PopLeftLate ==
  /\ pc \in {"start", "visit", "pop"} /\ todo = {} /\ queue # <<>>
  /\ current' = Head(queue) /\ queue' = Tail(queue)
  /\ \/ /\ distance[Head(queue)] > limits.max_depth
        /\ pc' = "pop" /\ todo' = {}
     \/ /\ distance[Head(queue)] <= limits.max_depth
        /\ pc' = "visit" /\ todo' = Steps(graph, Head(queue))
  /\ UNCHANGED <<graph, limits, reached, distance, truncated>>
\* pending.popleft(): a node at the depth limit is not expanded.
PopLeft ==
  /\ pc \in {"start", "visit", "pop"} /\ todo = {} /\ queue # <<>>
  /\ current' = Head(queue) /\ queue' = Tail(queue)
  /\ \/ /\ distance[Head(queue)] >= limits.max_depth
        /\ pc' = "pop" /\ todo' = {}
     \/ /\ distance[Head(queue)] < limits.max_depth
        /\ pc' = "visit" /\ todo' = Steps(graph, Head(queue))
  /\ UNCHANGED <<graph, limits, reached, distance, truncated>>

VisitNewestFirst ==
  /\ pc = "visit" /\ todo # {}
  /\ LET n == Least(todo) IN
     /\ todo' = todo \ {n}
     /\ \/ n \notin reached /\ ~Full
           /\ reached' = reached \union {n}
           /\ distance' = [distance EXCEPT ![n] = distance[current] + 1]
           /\ queue' = <<n>> \o queue
           /\ UNCHANGED truncated
        \/ n \notin reached /\ Full /\ truncated' = TRUE /\ UNCHANGED <<queue, reached, distance>>
        \/ n \in reached /\ UNCHANGED <<queue, reached, distance, truncated>>
  /\ UNCHANGED <<pc, graph, limits, current>>
\* One step of the current node; the limit lets the loop go on without adding.
Visit ==
  /\ pc = "visit" /\ todo # {}
  /\ LET n == Least(todo) IN
     /\ todo' = todo \ {n}
     /\ \/ /\ n \notin reached /\ ~Full
           /\ Find(n, distance[current] + 1)
           /\ UNCHANGED truncated
        \/ /\ n \notin reached /\ Full
           /\ truncated' = TRUE
           /\ UNCHANGED <<queue, reached, distance>>
        \/ /\ n \in reached
           /\ UNCHANGED <<queue, reached, distance, truncated>>
  /\ UNCHANGED <<pc, graph, limits, current>>

Searching == pc \in {"start", "pop", "visit"}
\* The queue is empty: the result is the nodes ordered by distance.
Finish ==
  /\ Searching /\ todo = {} /\ queue = <<>>
  /\ pc' = "done"
  /\ UNCHANGED search

Traverse == AddStart \/ PopLeft \/ Visit \/ Finish
Next == Traverse
Spec == Init /\ [][Next]_vars

-----------------------------------------------------------------------------
(***************************************************************************)
(* Properties.                                                             *)
(***************************************************************************)
\* The nodes within d steps of the changed ones: the reference definition.
Within(g, d) ==
  LET ball[k \in Nat] ==
        IF k = 0 THEN g.changed
        ELSE ball[k - 1] \union UNION {Steps(g, n) : n \in ball[k - 1]}
  IN  ball[d]

\* The state of the search keeps its type.
TypeOK ==
  /\ pc \in {"start", "pop", "visit", "done"}
  /\ graph \in Snapshots /\ limits \in TraversalLimits
  /\ todo \subseteq Nodes /\ current \in Nodes \union {0}
  /\ queue \in Seq(Nodes) /\ reached \in SUBSET Nodes
  /\ distance \in [Nodes -> Nat] /\ truncated \in BOOLEAN

\* A search never holds more nodes than its limit.
NodeBudget == Cardinality(reached) <= limits.max_nodes

\* A finished search that was not cut found exactly the nodes within its depth, and none
\* holds more nodes than its limit.
SearchExact ==
  /\ NodeBudget
  /\ pc = "done" /\ ~truncated => reached = Within(graph, limits.max_depth)

\* No step that a finished, uncut search could have taken shortens a distance or
\* leaves the found nodes, and every distance is that of a path from a changed
\* node; edge paths and distances are the evidence given for a selection.
ShortestDistances ==
  /\ \A n \in reached :
       IF n \in graph.changed THEN distance[n] = 0
       ELSE \E m \in reached : n \in Steps(graph, m) /\ distance[n] = distance[m] + 1
  /\ pc = "done" /\ ~truncated =>
       /\ graph.changed \subseteq reached
       /\ \A n \in reached : distance[n] < limits.max_depth =>
            \A m \in Steps(graph, n) : m \in reached /\ distance[m] <= distance[n] + 1
=============================================================================
