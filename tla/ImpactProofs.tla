---------------------------- MODULE ImpactProofs ----------------------------
(***************************************************************************)
(* Proofs about Impact, for every pair of commits, manifest and limits: the*)
(* search finds what lies within its depth, at its shortest distance, and  *)
(* never more than its limit; the plan over it holds every workload that a *)
(* completely read change calls for; and the selector plans the same again.*)
(***************************************************************************)
EXTENDS Impact, FiniteSetTheorems, WellFoundedInduction, TLAPS

-----------------------------------------------------------------------------
(***************************************************************************)
(* The invariant of the search.                                            *)
(***************************************************************************)
SearchShape ==
  /\ source \in Sources
  /\ graph.changed \subseteq Nodes
  /\ limits.max_depth \in Nat /\ limits.max_nodes \in Nat \ {0}
  /\ todo \subseteq Nodes
  /\ queue \in Seq(Nodes)
  /\ reached \subseteq Nodes /\ IsFiniteSet(reached)
  /\ distance \in [Nodes -> Nat]
  /\ truncated \in BOOLEAN

\* Nothing is found before the search, and it ends when nothing is pending.
Bounded ==
  /\ pc = "inspect" => reached = {} /\ queue = <<>> /\ todo = {} /\ ~truncated
  /\ pc = "done" => todo = {} /\ queue = <<>>

\* Only the limit keeps a changed node from being a start; a start is at distance 0.
Starts ==
  /\ truncated => Full
  /\ pc = "start" => todo \subseteq graph.changed /\ \A n \in reached : distance[n] = 0
  /\ pc \notin {"inspect", "start"} => truncated \/ graph.changed \subseteq reached
  /\ pc = "start" => truncated \/ graph.changed \subseteq reached \union todo

\* Every distance is that of a path from a changed node and within the depth.
Backed(n) ==
  IF n \in graph.changed THEN distance[n] = 0
  ELSE \E m \in reached : n \in Steps(graph, m) /\ distance[n] = distance[m] + 1
Founded == \A n \in reached : Backed(n) /\ distance[n] <= limits.max_depth

\* The queue is sorted by distance, and nothing is more than one step beyond it.
Sorted ==
  /\ \A i \in 1..Len(queue) : queue[i] \in reached
  /\ \A i, j \in 1..Len(queue) : i <= j => distance[queue[i]] <= distance[queue[j]]
  /\ \A i \in 1..Len(queue) : \A n \in reached : distance[n] <= distance[queue[i]] + 1

\* The node whose steps are taken is the least distant one still open.
Expanding ==
  pc = "visit" =>
    /\ current \in reached /\ distance[current] < limits.max_depth
    /\ todo \subseteq Steps(graph, current)
    /\ \A n \in reached : distance[n] <= distance[current] + 1
    /\ \A i \in 1..Len(queue) : distance[current] <= distance[queue[i]]
    /\ truncated \/ Steps(graph, current) \subseteq reached \union todo

\* Unless the limit cut the search, a node found is pending, at the depth or closed.
Closed(n) == \A m \in Steps(graph, n) : m \in reached /\ distance[m] <= distance[n] + 1
Pending(n) == (\E i \in 1..Len(queue) : queue[i] = n) \/ (pc = "visit" /\ n = current)
Covered ==
  truncated \/ \A n \in reached : Pending(n) \/ distance[n] >= limits.max_depth \/ Closed(n)

SearchInv ==
  /\ SearchShape /\ Bounded /\ NodeBudget /\ Starts
  /\ Founded /\ Sorted /\ Expanding /\ Covered

-----------------------------------------------------------------------------
\* A set of numbers has a smallest: the order of Nat is well founded.  The proofs
\* below use it in place of induction, on the set of counterexamples.
LEMMA SmallestOf ==
  ASSUME NEW S, S \subseteq Nat, S # {}
  PROVE  \E x \in S : \A y \in S : x <= y
<1>1. PICK x \in S : \A y \in S : ~(<<y, x>> \in OpToRel(<, Nat))
  BY NatLessThanWellFounded, WFMin
<1>2. ASSUME NEW y \in S PROVE x <= y
  <2>1. <<y, x>> \in Nat \X Nat /\ <<y, x>>[1] = y /\ <<y, x>>[2] = x
    OBVIOUS
  <2>2. ~(y < x)
    BY <1>1, <2>1 DEF OpToRel
  <2>3. QED BY <2>2
<1>3. QED BY <1>2

LEMMA LeastIsIn ==
  ASSUME NEW S, S \subseteq Nat, S # {}
  PROVE  Least(S) \in S
BY SmallestOf DEF Least

LEMMA LeastTodo ==
  ASSUME SearchShape, todo # {}
  PROVE  Least(todo) \in todo /\ Least(todo) \in Nodes
BY LeastIsIn, TraversalAssumption DEF SearchShape

\* A search starts with its invariant.
LEMMA SearchInit == ImpactInit => SearchInv
<1> SUFFICES ASSUME ImpactInit PROVE SearchInv
  OBVIOUS
<1>1. PICK l \in SearchLimits : Ready([Snapshot(source, Types) EXCEPT !.changed = {}], l)
  BY DEF ImpactInit
<1>2. /\ graph.changed = {} /\ limits \in TraversalLimits /\ todo = {} /\ queue = <<>>
      /\ reached = {} /\ truncated = FALSE /\ distance = [n \in Nodes |-> 0]
      /\ source \in Sources /\ pc = "inspect"
  BY <1>1, ImpactAssumption DEF ImpactInit, Ready, Snapshot
<1>3. IsFiniteSet({}) /\ Cardinality({}) = 0
  BY FS_EmptySet
<1>4. SearchShape
  <2>1. limits.max_depth \in Nat /\ limits.max_nodes \in Nat \ {0}
    BY <1>2 DEF TraversalLimits
  <2>2. distance \in [Nodes -> Nat] /\ queue \in Seq(Nodes)
    BY <1>2
  <2>3. QED BY <1>2, <1>3, <2>1, <2>2 DEF SearchShape
<1>5. Bounded /\ NodeBudget /\ Starts
  BY <1>2, <1>3, <1>4 DEF Bounded, NodeBudget, Starts, SearchShape
<1>6. Founded /\ Sorted /\ Expanding /\ Covered
  BY <1>2 DEF Founded, Sorted, Expanding, Covered
<1>7. QED BY <1>4, <1>5, <1>6 DEF SearchInv

-----------------------------------------------------------------------------
(***************************************************************************)
(* What finding a node does.                                               *)
(***************************************************************************)
LEMMA FindShape ==
  ASSUME SearchShape, NEW n \in Nodes, NEW d \in Nat, Find(n, d), ~Full,
         UNCHANGED <<graph, limits, truncated, source>>, todo' \subseteq Nodes
  PROVE  SearchShape' /\ NodeBudget'
<1> USE DEF SearchShape
<1>0. Cardinality(reached) \in Nat /\ reached' = reached \union {n}
  BY FS_CardinalityType DEF Find
<1>1. /\ IsFiniteSet(reached')
      /\ Cardinality(reached') = Cardinality(reached) \/ Cardinality(reached') = Cardinality(reached) + 1
  BY <1>0, FS_AddElement
<1>2. Cardinality(reached') \in Nat
  BY <1>0, <1>1
<1>3. NodeBudget'
  BY <1>0, <1>1, <1>2 DEF NodeBudget, Full
<1>4. distance' \in [Nodes -> Nat] /\ queue' \in Seq(Nodes) /\ reached' \subseteq Nodes
  BY DEF SearchShape, Find
<1>5. QED BY <1>1, <1>3, <1>4 DEF SearchShape

LEMMA FindSorted ==
  ASSUME SearchShape, Sorted, NEW n \in Nodes, NEW d \in Nat, Find(n, d),
         \A m \in reached : distance'[m] = distance[m] /\ distance[m] <= d,
         \A i \in 1..Len(queue) : d <= distance[queue[i]] + 1
  PROVE  /\ Sorted'
         /\ Len(queue') = Len(queue) + 1 /\ queue'[Len(queue) + 1] = n
         /\ \A i \in 1..Len(queue) : queue'[i] = queue[i]
         /\ distance'[n] = d
<1>1. /\ Len(queue) \in Nat /\ Len(queue') = Len(queue) + 1 /\ queue'[Len(queue) + 1] = n
      /\ \A i \in 1..Len(queue) : queue'[i] = queue[i]
  BY DEF SearchShape, Find
<1>2. distance'[n] = d /\ reached' = reached \union {n}
  BY DEF SearchShape, Find
<1>3. \A m \in reached : distance[m] \in Nat
  BY DEF SearchShape
<1>4. \A i \in 1..Len(queue') : i \in 1..Len(queue) \/ i = Len(queue')
  BY <1>1
<1>5. \A i \in 1..Len(queue') : queue'[i] \in reached'
  BY <1>1, <1>2, <1>4 DEF Sorted
<1>6. ASSUME NEW i \in 1..Len(queue'), NEW j \in 1..Len(queue'), i <= j
      PROVE  distance'[queue'[i]] <= distance'[queue'[j]]
  <2>1. CASE j \in 1..Len(queue)
    BY <1>1, <1>6, <2>1 DEF Sorted
  <2>2. CASE j = Len(queue') /\ i \in 1..Len(queue)
    BY <1>1, <1>2, <2>2 DEF Sorted
  <2>3. CASE j = Len(queue') /\ i = Len(queue')
    BY <1>1, <1>2, <2>3
  <2>4. QED BY <1>4, <2>1, <2>2, <2>3
<1>7. ASSUME NEW i \in 1..Len(queue'), NEW m \in reached'
      PROVE  distance'[m] <= distance'[queue'[i]] + 1
  <2>1. CASE i \in 1..Len(queue) /\ m \in reached
    BY <1>1, <2>1 DEF Sorted
  <2>2. CASE i \in 1..Len(queue) /\ m = n
    BY <1>1, <1>2, <2>2 DEF Sorted
  <2>3. CASE i = Len(queue')
    BY <1>1, <1>2, <1>3, <2>3
  <2>4. QED BY <1>2, <1>4, <2>1, <2>2, <2>3
<1>8. Sorted'
  BY <1>5, <1>6, <1>7 DEF Sorted
<1>9. QED BY <1>1, <1>2, <1>8

\* What was backed, pending or closed before a node is found stays so.
LEMMA FindKeeps ==
  ASSUME SearchShape, NEW n \in Nodes, NEW d \in Nat, Find(n, d),
         UNCHANGED <<pc, graph, limits, current>>,
         \A m \in reached : distance'[m] = distance[m],
         NEW m \in reached
  PROVE  /\ Backed(m) => Backed(m)'
         /\ Pending(m) => Pending(m)'
         /\ Closed(m) => Closed(m)'
<1>1. reached \subseteq reached' /\ distance'[m] = distance[m]
  BY DEF Find
<1>2. Backed(m) => Backed(m)'
  BY <1>1 DEF Backed
<1>3. Pending(m) => Pending(m)'
  BY DEF Pending, Find, SearchShape
<1>4. Closed(m) => Closed(m)'
  BY <1>1 DEF Closed
<1>5. QED BY <1>2, <1>3, <1>4

-----------------------------------------------------------------------------
(***************************************************************************)
(* One lemma per action of the search.                                     *)
(***************************************************************************)
LEMMA StepAddStart ==
  ASSUME SearchInv, AddStart, UNCHANGED pipeline
  PROVE  SearchInv'
<1> USE DEF SearchInv
<1>0. PICK n \in Nodes : n = Least(todo) /\ n \in todo
  BY LeastTodo DEF AddStart
<1>1. n \in todo /\ pc = "start" /\ pc' = "start"
      /\ UNCHANGED <<graph, limits, current, source>>
  BY <1>0 DEF AddStart, pipeline
<1>2. Bounded' /\ Expanding'
  BY <1>1 DEF Bounded, Expanding
<1>3. CASE ~Full /\ Find(n, 0) /\ todo' = todo \ {n} /\ UNCHANGED truncated
  <2>1. SearchShape' /\ NodeBudget'
    BY <1>1, <1>3, FindShape DEF SearchShape
  <2>2. \A m \in reached : distance'[m] = distance[m] /\ distance[m] <= 0
    BY <1>1, <1>3 DEF Starts, Find, SearchShape
  <2>3. \A i \in 1..Len(queue) : 0 <= distance[queue[i]] + 1
    BY DEF SearchShape, Sorted
  <2>4. /\ Sorted' /\ queue'[Len(queue) + 1] = n /\ Len(queue') = Len(queue) + 1
        /\ distance'[n] = 0
    BY <1>1, <1>3, <2>2, <2>3, FindSorted DEF Find
  <2>5. reached' = reached \union {n}
    BY <1>3 DEF Find
  <2>6. Starts'
    BY <1>1, <1>3, <2>2, <2>4, <2>5 DEF Starts, SearchShape
  <2>7. Founded'
    <3>1. Backed(n)' /\ distance'[n] <= limits'.max_depth
      BY <1>1, <2>4 DEF Backed, Starts, SearchShape
    <3>2. \A m \in reached : Backed(m)' /\ distance'[m] <= limits'.max_depth
      BY <1>1, <1>3, <2>2, FindKeeps DEF Founded
    <3>3. QED BY <2>5, <3>1, <3>2 DEF Founded
  <2>8. Covered'
    <3>1. Pending(n)'
      BY <2>4 DEF Pending, SearchShape
    <3>2. \A m \in reached : Pending(m) \/ distance[m] >= limits.max_depth \/ Closed(m) =>
            Pending(m)' \/ distance'[m] >= limits'.max_depth \/ Closed(m)'
      BY <1>1, <1>3, <2>2, FindKeeps
    <3>3. QED BY <1>3, <2>5, <3>1, <3>2 DEF Covered
  <2>9. QED BY <1>2, <2>1, <2>4, <2>6, <2>7, <2>8
<1>4. CASE Full /\ truncated' = TRUE /\ todo' = {} /\ UNCHANGED <<queue, reached, distance>>
  <2>1. SearchShape' /\ NodeBudget' /\ Sorted'
    BY <1>1, <1>4 DEF SearchShape, NodeBudget, Sorted
  <2>2. Starts' /\ Covered'
    BY <1>1, <1>4 DEF Starts, Covered, Full
  <2>3. Founded'
    BY <1>1, <1>4 DEF Founded, Backed
  <2>4. QED BY <1>2, <2>1, <2>2, <2>3
<1>5. QED BY <1>0, <1>3, <1>4 DEF AddStart

LEMMA StepPopLeft ==
  ASSUME SearchInv, PopLeft, UNCHANGED pipeline
  PROVE  SearchInv'
<1> USE DEF SearchInv
<1>0. PICK n : n = Head(queue)
  OBVIOUS
<1>1. /\ pc \in {"start", "visit", "pop"} /\ todo = {} /\ queue # <<>>
      /\ current' = n /\ queue' = Tail(queue)
      /\ pc' \in {"visit", "pop"}
      /\ UNCHANGED <<graph, limits, reached, distance, truncated, source>>
  BY <1>0 DEF PopLeft, pipeline
<1>2. \/ pc' = "pop" /\ todo' = {} /\ distance[n] >= limits.max_depth
      \/ pc' = "visit" /\ todo' = Steps(graph, n) /\ distance[n] < limits.max_depth
  BY <1>0 DEF PopLeft
<1>3. /\ Len(queue) \in Nat /\ Len(queue) >= 1 /\ n = queue[1] /\ n \in Nodes
      /\ Len(queue') = Len(queue) - 1 /\ queue' \in Seq(Nodes)
      /\ \A i \in 1..Len(queue') : queue'[i] = queue[i + 1] /\ i + 1 \in 1..Len(queue)
  BY <1>0, <1>1 DEF SearchShape
<1>4. Steps(graph, n) \subseteq Nodes
  BY DEF Steps
<1>5. SearchShape' /\ NodeBudget' /\ Bounded'
  BY <1>1, <1>2, <1>3, <1>4 DEF SearchShape, NodeBudget, Bounded
<1>6. Starts'
  BY <1>1 DEF Starts, Full
<1>7. Founded'
  BY <1>1 DEF Founded, Backed
<1>8. n \in reached /\ \A m \in reached : distance[m] <= distance[n] + 1
  BY <1>3 DEF Sorted
<1>9. \A i \in 1..Len(queue) : distance[n] <= distance[queue[i]]
  BY <1>3 DEF Sorted
<1>10. Sorted'
  <2>1. \A i \in 1..Len(queue') : queue'[i] \in reached'
    BY <1>1, <1>3 DEF Sorted
  <2>2. \A i, j \in 1..Len(queue') : i <= j => distance'[queue'[i]] <= distance'[queue'[j]]
    BY <1>1, <1>3 DEF Sorted
  <2>3. \A i \in 1..Len(queue') : \A m \in reached' : distance'[m] <= distance'[queue'[i]] + 1
    BY <1>1, <1>3 DEF Sorted
  <2>4. QED BY <2>1, <2>2, <2>3 DEF Sorted
<1>11. Expanding'
  BY <1>1, <1>2, <1>3, <1>8, <1>9 DEF Expanding
<1>12. Covered'
  <2>1. SUFFICES ASSUME ~truncated, NEW m \in reached
                 PROVE  Pending(m)' \/ distance[m] >= limits.max_depth \/ Closed(m)'
    BY <1>1 DEF Covered
  <2>2. CASE m = n
    BY <1>1, <1>2, <2>2 DEF Pending
  <2>3. CASE \E i \in 1..Len(queue) : queue[i] = m /\ m # n
    <3>1. PICK i \in 1..Len(queue) : queue[i] = m /\ m # n
      BY <2>3
    <3>2. i # 1 /\ i - 1 \in 1..Len(queue') /\ queue'[i - 1] = m
      BY <1>1, <1>3, <3>1 DEF SearchShape
    <3>3. QED BY <3>2 DEF Pending
  <2>4. CASE pc = "visit" /\ m = current
    <3>1. Closed(m)
      BY <1>1, <2>1, <2>4 DEF Expanding, Closed
    <3>2. QED BY <1>1, <3>1 DEF Closed
  <2>5. CASE distance[m] >= limits.max_depth \/ Closed(m)
    BY <1>1, <2>5 DEF Closed
  <2>6. QED BY <2>1, <2>2, <2>3, <2>4, <2>5 DEF Covered, Pending
<1>13. QED BY <1>5, <1>6, <1>7, <1>10, <1>11, <1>12

LEMMA StepVisit ==
  ASSUME SearchInv, Visit, UNCHANGED pipeline
  PROVE  SearchInv'
<1> USE DEF SearchInv
<1>0. PICK n \in Nodes : n = Least(todo) /\ n \in todo
  BY LeastTodo DEF Visit
<1>d. PICK d : d = distance[current] + 1
  OBVIOUS
<1>1. /\ pc = "visit" /\ pc' = "visit" /\ todo' = todo \ {n}
      /\ UNCHANGED <<graph, limits, current, source>>
  BY <1>0 DEF Visit, pipeline
<1>2. n \in todo /\ n \in Nodes /\ n \in Steps(graph, current)
  BY <1>0, <1>1 DEF Expanding
<1>3. current \in reached /\ current \in Nodes /\ d \in Nat /\ d <= limits.max_depth
      /\ \A m \in reached : distance[m] <= d
  BY <1>1, <1>d DEF Expanding, SearchShape
<1>4. Bounded'
  BY <1>1 DEF Bounded
<1>5. CASE n \notin reached /\ ~Full /\ Find(n, d) /\ UNCHANGED truncated
  <2>1. SearchShape' /\ NodeBudget'
    BY <1>1, <1>2, <1>3, <1>5, FindShape DEF SearchShape
  <2>2. \A m \in reached : distance'[m] = distance[m] /\ distance[m] <= d
    BY <1>3, <1>5 DEF Find, SearchShape
  <2>3. \A i \in 1..Len(queue) : d <= distance[queue[i]] + 1
    BY <1>1, <1>d, <1>3 DEF Expanding, SearchShape, Sorted
  <2>4. /\ Sorted' /\ queue'[Len(queue) + 1] = n /\ Len(queue') = Len(queue) + 1
        /\ \A i \in 1..Len(queue) : queue'[i] = queue[i]
        /\ distance'[n] = d
    BY <1>2, <1>3, <1>5, <2>2, <2>3, FindSorted
  <2>5. reached' = reached \union {n}
    BY <1>5 DEF Find
  <2>6. ~truncated /\ graph.changed \subseteq reached
    BY <1>1, <1>5 DEF Starts
  <2>7. Starts'
    BY <1>1, <1>5, <2>5, <2>6 DEF Starts
  <2>8. Founded'
    <3>1. Backed(n)' /\ distance'[n] <= limits'.max_depth
      BY <1>1, <1>2, <1>3, <1>d, <1>5, <2>2, <2>4, <2>5, <2>6 DEF Backed
    <3>2. \A m \in reached : Backed(m)' /\ distance'[m] <= limits'.max_depth
      BY <1>1, <1>2, <1>3, <1>5, <2>2, FindKeeps DEF Founded
    <3>3. QED BY <2>5, <3>1, <3>2 DEF Founded
  <2>9. Expanding'
    <3>1. distance'[current'] = distance[current] /\ current' \in reached'
      BY <1>1, <1>3, <2>2, <2>5
    <3>2. \A m \in reached' : distance'[m] <= distance'[current'] + 1
      BY <1>3, <1>d, <2>2, <2>4, <2>5, <3>1
    <3>3. \A i \in 1..Len(queue') : distance'[current'] <= distance'[queue'[i]]
      <4>1. \A i \in 1..Len(queue) : distance'[queue'[i]] = distance[queue[i]]
        BY <2>2, <2>4 DEF Sorted
      <4>2. distance'[queue'[Len(queue) + 1]] = d
        BY <2>4
      <4>3. \A i \in 1..Len(queue') : i \in 1..Len(queue) \/ i = Len(queue) + 1
        BY <2>4 DEF SearchShape
      <4>4. distance[current] \in Nat
        BY <1>3 DEF SearchShape
      <4>5. QED BY <1>1, <1>d, <3>1, <4>1, <4>2, <4>3, <4>4 DEF Expanding
    <3>4. QED BY <1>1, <2>5, <3>1, <3>2, <3>3, <1>5 DEF Expanding
  <2>10. Covered'
    <3>1. Pending(n)'
      BY <2>4 DEF Pending, SearchShape
    <3>2. \A m \in reached : Pending(m) \/ distance[m] >= limits.max_depth \/ Closed(m) =>
            Pending(m)' \/ distance'[m] >= limits'.max_depth \/ Closed(m)'
      BY <1>1, <1>2, <1>3, <1>5, <2>2, FindKeeps
    <3>3. QED BY <1>5, <2>5, <3>1, <3>2 DEF Covered
  <2>11. QED BY <1>4, <2>1, <2>4, <2>7, <2>8, <2>9, <2>10
<1>6. CASE \/ n \in reached /\ UNCHANGED <<queue, reached, distance, truncated>>
           \/ Full /\ truncated' = TRUE /\ UNCHANGED <<queue, reached, distance>>
  <2>1. SearchShape' /\ NodeBudget' /\ Sorted'
    BY <1>1, <1>6 DEF SearchShape, NodeBudget, Sorted
  <2>2. Starts'
    BY <1>1, <1>6 DEF Starts, Full
  <2>3. Founded'
    BY <1>1, <1>6 DEF Founded, Backed
  <2>4. Expanding'
    BY <1>1, <1>6 DEF Expanding
  <2>5. Covered'
    BY <1>1, <1>6 DEF Covered, Pending, Closed
  <2>6. QED BY <1>4, <2>1, <2>2, <2>3, <2>4, <2>5
<1>7. QED BY <1>0, <1>d, <1>5, <1>6 DEF Visit

LEMMA StepFinish ==
  ASSUME SearchInv, Finish, UNCHANGED pipeline
  PROVE  SearchInv'
<1> USE DEF SearchInv
<1>1. /\ pc \in {"start", "pop", "visit"} /\ pc' = "done" /\ todo = {} /\ queue = <<>>
      /\ UNCHANGED <<graph, limits, todo, current, queue, reached, distance, truncated,
                   source>>
  BY DEF Finish, Searching, search, pipeline
<1>2. SearchShape' /\ Bounded' /\ NodeBudget' /\ Sorted' /\ Expanding'
  BY <1>1 DEF SearchShape, Bounded, NodeBudget, Sorted, Expanding
<1>3. Starts' /\ Founded'
  BY <1>1 DEF Starts, Founded, Backed, Full
<1>4. Covered'
  <2>1. SUFFICES ASSUME ~truncated, NEW m \in reached
                 PROVE  distance[m] >= limits.max_depth \/ Closed(m)
    BY <1>1 DEF Covered, Closed
  <2>2. CASE Pending(m)
    BY <1>1, <2>1, <2>2 DEF Pending, Expanding, Closed
  <2>3. QED BY <2>1, <2>2 DEF Covered
<1>5. QED BY <1>2, <1>3, <1>4

\* The graph is built before anything is found: its changed nodes are the starts.
LEMMA StepBuildGraph ==
  ASSUME SearchInv, BuildGraph
  PROVE  SearchInv'
<1> USE DEF SearchInv
<1>1. /\ pc = "inspect" /\ pc' = "start" /\ todo' = graph'.changed
      /\ graph'.changed \subseteq Nodes
      /\ UNCHANGED <<limits, current, queue, reached, distance, truncated, source>>
  BY ImpactAssumption DEF BuildGraph, pipeline, Snapshot, Defined, Readable, SearchShape
<1>2. reached = {} /\ queue = <<>> /\ ~truncated
  BY <1>1 DEF Bounded
<1>3. SearchShape' /\ Bounded' /\ NodeBudget' /\ Starts'
  BY <1>1, <1>2 DEF SearchShape, Bounded, NodeBudget, Starts
<1>4. Founded' /\ Sorted' /\ Expanding' /\ Covered'
  BY <1>1, <1>2 DEF Founded, Sorted, Expanding, Covered
<1>5. QED BY <1>3, <1>4

\* Around the search, the pipeline and the author of the manifest leave it alone.
LEMMA StepAround ==
  ASSUME SearchInv, UNCHANGED <<search, source>>,
         pc' = pc \/ (pc \in {"done", "select"} /\ pc' \in {"select", "selected", "raised"})
  PROVE  SearchInv'
<1> USE DEF SearchInv
<1>1. UNCHANGED <<graph, limits, todo, current, queue, reached, distance, truncated,
                  source>>
  BY DEF search
<1>2. SearchShape' /\ Bounded' /\ NodeBudget' /\ Sorted' /\ Expanding'
  BY <1>1 DEF SearchShape, Bounded, NodeBudget, Sorted, Expanding
<1>3. Starts' /\ Founded'
  BY <1>1 DEF Starts, Founded, Backed, Full
<1>4. Covered'
  BY <1>1 DEF Covered, Pending, Closed
<1>5. QED BY <1>2, <1>3, <1>4

LEMMA SearchStep == SearchInv /\ [ImpactNext]_impactVars => SearchInv'
<1> SUFFICES ASSUME SearchInv, [ImpactNext]_impactVars PROVE SearchInv'
  OBVIOUS
<1>1. CASE BuildGraph
  BY <1>1, StepBuildGraph
<1>2. CASE Search
  BY <1>2, StepAddStart, StepPopLeft, StepVisit, StepFinish DEF Search, Traverse
<1>3. CASE Malformed \/ PlanWorkloads \/ Select
  BY <1>3, StepAround DEF Malformed, PlanWorkloads, Select, pipeline
<1>4. CASE Edit \/ UNCHANGED impactVars
  BY <1>4, StepAround DEF Edit, impactVars, vars, pipeline
<1>5. QED BY <1>1, <1>2, <1>3, <1>4 DEF ImpactNext

\* The search of any change of any repository keeps its invariant.
THEOREM SearchCorrect == ImpactSpec => []SearchInv
BY SearchInit, SearchStep, PTL DEF ImpactSpec

-----------------------------------------------------------------------------
(***************************************************************************)
(* The reference definition: Within is a recursive function on Nat, so its *)
(* equations hold once some function satisfies them.                       *)
(***************************************************************************)
Grow(g, B) == B \union UNION {Steps(g, n) : n \in B}

LEMMA WithinEquations ==
  ASSUME NEW g, NEW k \in Nat
  PROVE  /\ Within(g, 0) = g.changed
         /\ Within(g, k + 1) = Grow(g, Within(g, k))
<1> DEFINE Body(f, i) == IF i = 0 THEN g.changed ELSE Grow(g, f[i - 1])
           UpTo(f, n) == f = [i \in 0..n |-> Body(f, i)]
           Missing == {n \in Nat : ~\E f : UpTo(f, n)}
<1>1. \A n \in Nat : \E f : UpTo(f, n)
  <2>1. SUFFICES ASSUME Missing # {} PROVE FALSE
    OBVIOUS
  <2>2. PICK n \in Missing : \A m \in Missing : n <= m
    BY <2>1, SmallestOf
  <2>3. CASE n = 0
    <3> DEFINE h == [i \in 0..0 |-> g.changed]
    <3>1. h = [i \in 0..0 |-> Body(h, i)]
      OBVIOUS
    <3>2. QED BY <2>2, <2>3, <3>1
  <2>4. CASE n # 0
    <3>1. n - 1 \in Nat /\ n - 1 \notin Missing
      BY <2>2, <2>4
    <3>2. PICK f : UpTo(f, n - 1)
      BY <3>1
    <3> DEFINE h == [i \in 0..n |-> Body(f, i)]
    <3>3. \A i \in 0..(n - 1) : h[i] = f[i]
      <4>1. \A i \in 0..(n - 1) : f[i] = Body(f, i)
        BY <3>2
      <4>2. \A i \in 0..(n - 1) : i \in 0..n
        BY <3>1
      <4>3. QED BY <4>1, <4>2
    <3>4. ASSUME NEW i \in 0..n PROVE Body(f, i) = Body(h, i)
      <4>1. i # 0 => i - 1 \in 0..(n - 1)
        BY <3>1
      <4> HIDE DEF h
      <4>2. QED BY <3>3, <4>1
    <3>5. h = [i \in 0..n |-> Body(h, i)]
      BY <3>4
    <3>6. QED BY <2>2, <3>5
  <2>5. QED BY <2>3, <2>4
<1>2. ASSUME NEW n \in Nat, NEW m \in Nat, NEW f, NEW h, UpTo(f, n), UpTo(h, m), n <= m
      PROVE  \A i \in 0..n : f[i] = h[i]
  <2> DEFINE Differ == {i \in 0..n : f[i] # h[i]}
  <2>1. SUFFICES ASSUME Differ # {} PROVE FALSE
    OBVIOUS
  <2>2. Differ \subseteq Nat
    BY <1>2
  <2>3. PICK i \in Differ : \A j \in Differ : i <= j
    BY <2>1, <2>2, SmallestOf
  <2>4. i \in 0..n /\ i \in 0..m /\ f[i] # h[i]
    BY <1>2, <2>3
  <2>5. f[i] = Body(f, i) /\ h[i] = Body(h, i)
    BY <1>2, <2>4
  <2>6. ASSUME i # 0 PROVE f[i - 1] = h[i - 1]
    <3>1. i - 1 \in 0..n /\ ~(i <= i - 1)
      BY <2>4, <2>6
    <3>2. i - 1 \notin Differ
      BY <2>3, <3>1
    <3>3. QED BY <3>1, <3>2
  <2>7. QED BY <2>4, <2>5, <2>6
<1> DEFINE Some(n) == CHOOSE f : UpTo(f, n)
           b == [n \in Nat |-> Some(n)[n]]
<1>3. b = [n \in Nat |-> Body(b, n)]
  <2>1. ASSUME NEW n \in Nat PROVE b[n] = Body(b, n)
    <3>1. UpTo(Some(n), n)
      BY <1>1, Zenon
    <3>2. n \in 0..n
      OBVIOUS
    <3> DEFINE s == Some(n)
    <3>3. s = [i \in 0..n |-> Body(s, i)]
      BY <3>1
    <3> HIDE DEF s
    <3>4. s[n] = Body(s, n)
      BY <3>2, <3>3
    <3>5. b[n] = s[n]
      BY DEF s
    <3>6. ASSUME n # 0 PROVE b[n - 1] = s[n - 1]
      <4>1. n - 1 \in Nat /\ n - 1 <= n /\ n - 1 \in 0..(n - 1)
        BY <3>6
      <4> DEFINE t == Some(n - 1)
      <4>2. UpTo(t, n - 1)
        BY <1>1, <4>1, Zenon
      <4>3. b[n - 1] = t[n - 1]
        BY <4>1
      <4> HIDE DEF t, UpTo, b
      <4>4. UpTo(s, n)
        BY <3>1 DEF s
      <4>5. t[n - 1] = s[n - 1]
        BY <1>2, <4>1, <4>2, <4>4
      <4>6. QED BY <4>3, <4>5
    <3>7. QED BY <3>4, <3>5, <3>6
  <2>2. b = [n \in Nat |-> b[n]]
    OBVIOUS
  <2> HIDE DEF b, Body
  <2>3. QED BY <2>1, <2>2
<1> DEFINE ball == CHOOSE f : f = [n \in Nat |-> Body(f, n)]
<1>4. ball = [n \in Nat |-> Body(ball, n)]
  <2> HIDE DEF b, Body
  <2>1. \E f : f = [n \in Nat |-> Body(f, n)]
    BY <1>3
  <2>2. QED BY <2>1, Zenon
<1>5. \A n : Within(g, n) = ball[n]
  BY DEF Within, Grow
<1> HIDE DEF ball
<1>6. ball[0] = g.changed /\ ball[k + 1] = Grow(g, ball[k])
  BY <1>4
<1>7. QED BY <1>5, <1>6

LEMMA WithinGrows ==
  ASSUME NEW g, NEW k \in Nat, NEW l \in Nat, k <= l
  PROVE  Within(g, k) \subseteq Within(g, l)
<1> DEFINE Lost == {m \in Nat : k <= m /\ ~(Within(g, k) \subseteq Within(g, m))}
<1>1. SUFFICES ASSUME Lost # {} PROVE FALSE
  OBVIOUS
<1>2. PICK m \in Lost : \A j \in Lost : m <= j
  BY <1>1, SmallestOf
<1>3. m # k
  BY <1>2
<1>4. m - 1 \in Nat /\ k <= m - 1 /\ m - 1 \notin Lost
  BY <1>2, <1>3
<1>5. Within(g, k) \subseteq Within(g, m - 1)
  BY <1>4
<1>6. Within(g, (m - 1) + 1) = Grow(g, Within(g, m - 1)) /\ (m - 1) + 1 = m
  BY <1>4, WithinEquations
<1>7. Within(g, k) \subseteq Within(g, m)
  BY <1>5, <1>6 DEF Grow
<1>8. QED BY <1>2, <1>7

\* A search finds nothing beyond its depth, cut or not.
LEMMA FoundIsWithin ==
  ASSUME SearchInv
  PROVE  reached \subseteq Within(graph, limits.max_depth)
<1> USE DEF SearchInv
<1> DEFINE Astray == {k \in Nat : \E n \in reached : distance[n] = k /\ n \notin Within(graph, k)}
<1>1. Astray = {}
  <2>1. SUFFICES ASSUME Astray # {} PROVE FALSE
    OBVIOUS
  <2>2. PICK k \in Astray : \A j \in Astray : k <= j
    BY <2>1, SmallestOf
  <2>3. PICK n \in reached : distance[n] = k /\ n \notin Within(graph, k)
    BY <2>2
  <2>4. n \notin graph.changed
    BY <2>3, WithinEquations DEF Founded, Backed
  <2>5. PICK m \in reached : n \in Steps(graph, m) /\ distance[n] = distance[m] + 1
    BY <2>4 DEF Founded, Backed
  <2>6. distance[m] \in Nat /\ distance[m] = k - 1
    BY <2>3, <2>5 DEF SearchShape
  <2>7. m \in Within(graph, k - 1)
    BY <2>2, <2>6
  <2>8. Within(graph, (k - 1) + 1) = Grow(graph, Within(graph, k - 1)) /\ (k - 1) + 1 = k
    BY <2>6, WithinEquations
  <2>9. n \in Within(graph, k)
    BY <2>5, <2>7, <2>8 DEF Grow
  <2>10. QED BY <2>3, <2>9
<1>2. SUFFICES ASSUME NEW n \in reached PROVE n \in Within(graph, limits.max_depth)
  OBVIOUS
<1>3. distance[n] \in Nat /\ distance[n] <= limits.max_depth /\ limits.max_depth \in Nat
  BY DEF SearchShape, Founded
<1>4. n \in Within(graph, distance[n])
  BY <1>1, <1>3
<1>5. QED BY <1>3, <1>4, WithinGrows

\* A search that ended and was not cut found everything within its depth.
LEMMA WithinIsFound ==
  ASSUME SearchInv, pc = "done", ~truncated
  PROVE  Within(graph, limits.max_depth) \subseteq reached
<1> USE DEF SearchInv
<1> DEFINE At(k) == \A m \in Within(graph, k) : m \in reached /\ distance[m] <= k
           Missed == {k \in Nat : k <= limits.max_depth /\ ~At(k)}
<1>1. limits.max_depth \in Nat /\ \A m \in reached : distance[m] \in Nat
  BY DEF SearchShape
<1>2. graph.changed \subseteq reached
  BY DEF Starts
<1>3. \A n \in reached : distance[n] >= limits.max_depth \/ Closed(n)
  BY DEF Covered, Pending, Bounded, SearchShape
<1>4. Missed = {}
  <2>1. SUFFICES ASSUME Missed # {} PROVE FALSE
    OBVIOUS
  <2>2. PICK k \in Missed : \A j \in Missed : k <= j
    BY <2>1, SmallestOf
  <2>3. k # 0
    <3>1. At(0)
      BY <1>2, WithinEquations DEF Founded, Backed
    <3>2. QED BY <2>2, <3>1
  <2>4. k - 1 \in Nat /\ k - 1 < limits.max_depth /\ At(k - 1)
    BY <1>1, <2>2, <2>3
  <2>5. Within(graph, (k - 1) + 1) = Grow(graph, Within(graph, k - 1)) /\ (k - 1) + 1 = k
    BY <2>4, WithinEquations
  <2>6. ASSUME NEW m \in Within(graph, k) PROVE m \in reached /\ distance[m] <= k
    <3>1. CASE m \in Within(graph, k - 1)
      BY <1>1, <2>4, <3>1
    <3>2. CASE \E n \in Within(graph, k - 1) : m \in Steps(graph, n)
      <4>1. PICK n \in Within(graph, k - 1) : m \in Steps(graph, n)
        BY <3>2
      <4>2. n \in reached /\ distance[n] <= k - 1
        BY <2>4
      <4>3. Closed(n)
        BY <1>1, <1>3, <2>4, <4>2
      <4>4. m \in reached /\ distance[m] <= distance[n] + 1
        BY <4>1, <4>3 DEF Closed
      <4>5. QED BY <1>1, <4>2, <4>4
    <3>3. QED BY <2>5, <2>6, <3>1, <3>2 DEF Grow
  <2>7. QED BY <2>2, <2>6
<1>5. QED BY <1>1, <1>4

\* A finished search that was not cut found exactly the nodes within its depth, and no
\* search holds more than its limit (traversal.py:180).
THEOREM ExactCorrect == ImpactSpec => []SearchExact
<1>1. SearchInv => SearchExact
  BY FoundIsWithin, WithinIsFound DEF SearchExact, SearchInv
<1>2. QED BY <1>1, SearchCorrect, PTL

-----------------------------------------------------------------------------
\* Every distance given as evidence is that of a shortest path, and no step that the
\* search could have taken shortens one (traversal.py:180).
THEOREM DistancesCorrect == ImpactSpec => []ShortestDistances
<1>1. SearchInv => ShortestDistances
  BY DEF SearchInv, ShortestDistances, Founded, Backed, Covered, Closed, Pending, Bounded,
         Starts, SearchShape
<1>2. QED BY <1>1, SearchCorrect, PTL

-----------------------------------------------------------------------------
(***************************************************************************)
(* The order of the entries: they are numbered by how many are before them.*)
(***************************************************************************)
\* A function from 0..n that starts at first and takes the given steps.
Steppable(n, S, first, step) == n \in Nat /\ first \in S /\ step \in [1..n -> [S -> S]]
Walks(f, n, S, first, step) ==
  f \in [0..n -> S] /\ f[0] = first /\ \A i \in 1..n : f[i] = step[i][f[i - 1]]

LEMMA Iteration ==
  ASSUME NEW n, NEW S, NEW first, NEW step, Steppable(n, S, first, step)
  PROVE  \E f : Walks(f, n, S, first, step)
<1> USE DEF Steppable
<1> DEFINE Takes(k, f) == /\ f \in [0..k -> S] /\ f[0] = first
                          /\ \A i \in 1..k : f[i] = step[i][f[i - 1]]
           Missing == {k \in 0..n : ~\E f : Takes(k, f)}
<1>1. SUFFICES ASSUME Missing # {} PROVE FALSE
  <2>1. n \in 0..n
    OBVIOUS
  <2>2. Missing = {} => \E f : Takes(n, f)
    BY <2>1
  <2>3. (\E f : Takes(n, f)) => \E f : Walks(f, n, S, first, step)
    BY DEF Walks
  <2>4. QED BY <2>2, <2>3
<1>2. PICK k \in Missing : \A j \in Missing : k <= j
  <2>1. Missing \subseteq Nat
    OBVIOUS
  <2>2. QED BY <1>1, <2>1, SmallestOf
<1>3. k # 0
  <2> DEFINE h == [i \in 0..0 |-> first]
  <2>1. Takes(0, h)
    OBVIOUS
  <2>2. QED BY <1>2, <2>1
<1>4. k \in 1..n /\ k - 1 \in 0..n /\ k - 1 \notin Missing
  BY <1>2, <1>3
<1>5. PICK f : Takes(k - 1, f)
  BY <1>4
<1> DEFINE h == [i \in 0..k |-> IF i = k THEN step[k][f[k - 1]] ELSE f[i]]
<1>6. f[k - 1] \in S /\ step[k][f[k - 1]] \in S
  BY <1>4, <1>5
<1>7. h \in [0..k -> S] /\ h[0] = first
  BY <1>4, <1>5, <1>6
<1>8. ASSUME NEW i \in 1..k PROVE h[i] = step[i][h[i - 1]]
  <2>1. i - 1 \in 0..(k - 1) /\ h[i - 1] = f[i - 1]
    BY <1>4
  <2>2. CASE i = k
    BY <1>4, <2>1, <2>2
  <2>3. CASE i # k
    BY <1>4, <1>5, <2>1, <2>3
  <2>4. QED BY <2>2, <2>3
<1>9. Takes(k, h)
  BY <1>7, <1>8
<1>10. QED BY <1>2, <1>9

Planned(registry) == Declarable(registry) /\ ValidRegistry(registry, RegistryLimits)

LEMMA BeforeOrders ==
  ASSUME NEW registry, Planned(registry), NEW e \in registry.entries, NEW f \in registry.entries
  PROVE  /\ ~Before(e, e)
         /\ e # f => Before(e, f) \/ Before(f, e)
         /\ \A g \in registry.entries : Before(e, f) /\ Before(f, g) => Before(e, g)
<1>1. /\ TypeOrder["pytest"] = 0 /\ TypeOrder["semgrep"] = 1 /\ TypeOrder["custom"] = 2
      /\ TypeOrder["k6"] = 3 /\ DOMAIN TypeOrder = {"pytest", "semgrep", "custom", "k6"}
  BY DEF TypeOrder
<1>2. \A g, h \in registry.entries : g # h => g.rank # h.rank
  BY DEF Planned, Declarable, ValidRegistry
<1>3. \A g \in registry.entries : g.priority \in Nat /\ g.rank \in Nat /\ g.type \in DOMAIN TypeOrder
  BY DEF Planned, Declarable
<1>4. \A g \in registry.entries : TypeOrder[g.type] \in Nat
  BY <1>1, <1>3
<1>5. \A g, h \in registry.entries : TypeOrder[g.type] = TypeOrder[h.type] => g.type = h.type
  BY <1>1, <1>3
<1>6. ~Before(e, e)
  BY <1>3, <1>4 DEF Before
<1>7. e # f => Before(e, f) \/ Before(f, e)
  BY <1>2, <1>3, <1>4, <1>5 DEF Before
<1>8. ASSUME NEW g \in registry.entries, Before(e, f), Before(f, g) PROVE Before(e, g)
  <2>1. /\ e.priority \in Nat /\ f.priority \in Nat /\ g.priority \in Nat
        /\ e.rank \in Nat /\ f.rank \in Nat /\ g.rank \in Nat
        /\ TypeOrder[e.type] \in Nat /\ TypeOrder[f.type] \in Nat /\ TypeOrder[g.type] \in Nat
    BY <1>3, <1>4
  <2>2. QED BY <1>8, <2>1 DEF Before
<1>9. QED BY <1>6, <1>7, <1>8

\* How many entries are before an entry.
Place(registry, e) == Cardinality({f \in registry.entries : Before(f, e)})

LEMMA PlacesDiffer ==
  ASSUME NEW registry, Planned(registry)
  PROVE  /\ \A e \in registry.entries :
              Place(registry, e) \in 0..(Cardinality(registry.entries) - 1)
         /\ \A e, f \in registry.entries : e # f => Place(registry, e) # Place(registry, f)
<1> DEFINE E == registry.entries
           Below(e) == {f \in E : Before(f, e)}
<1>1. IsFiniteSet(E)
  BY DEF Planned, Declarable
<1>2. \A e \in E : IsFiniteSet(Below(e)) /\ Cardinality(Below(e)) \in Nat
  <2>1. ASSUME NEW e \in E PROVE IsFiniteSet(Below(e))
    BY <1>1, FS_Subset
  <2>2. QED BY <2>1, FS_CardinalityType
<1>3. Cardinality(E) \in Nat
  BY <1>1, FS_CardinalityType
<1>4. ASSUME NEW e \in E PROVE Cardinality(Below(e)) < Cardinality(E)
  <2>1. Below(e) \subseteq E /\ Below(e) # E
    BY BeforeOrders
  <2>2. Cardinality(Below(e)) <= Cardinality(E) /\ Cardinality(Below(e)) # Cardinality(E)
    BY <1>1, <2>1, FS_Subset
  <2>3. QED BY <1>2, <1>3, <2>2
<1>5. ASSUME NEW e \in E, NEW f \in E, Before(e, f)
      PROVE  Cardinality(Below(e)) < Cardinality(Below(f))
  <2>1. Below(e) \subseteq Below(f)
    BY <1>5, BeforeOrders
  <2>2. e \in Below(f) /\ e \notin Below(e)
    BY <1>5, BeforeOrders
  <2>3. /\ Cardinality(Below(e)) <= Cardinality(Below(f))
        /\ Cardinality(Below(e)) # Cardinality(Below(f))
    BY <1>2, <2>1, <2>2, FS_Subset
  <2>4. QED BY <1>2, <2>3
<1>6. ASSUME NEW e \in E, NEW f \in E, e # f
      PROVE  Cardinality(Below(e)) # Cardinality(Below(f))
  <2>1. Before(e, f) \/ Before(f, e)
    BY <1>6, BeforeOrders
  <2>2. Cardinality(Below(e)) < Cardinality(Below(f)) \/ Cardinality(Below(f)) < Cardinality(Below(e))
    BY <1>5, <2>1
  <2>3. QED BY <1>2, <2>2
<1>7. \A e \in E : Place(registry, e) = Cardinality(Below(e))
  BY DEF Place
<1> HIDE DEF Below
<1>8. QED BY <1>2, <1>3, <1>4, <1>6, <1>7

\* The ordered entries are all of the entries, each once.
LEMMA OrderedEntries ==
  ASSUME NEW registry, Planned(registry)
  PROVE  LET E == registry.entries
             o == Ordered(E)
             n == Cardinality(E)
         IN  /\ n \in Nat /\ o \in [1..n -> E] /\ Len(o) = n
             /\ \A e \in E : \E i \in 1..n : o[i] = e
<1> DEFINE E == registry.entries
           n == Cardinality(E)
           o == Ordered(E)
           p == [e \in E |-> Place(registry, e)]
<1>1. IsFiniteSet(E) /\ n \in Nat
  BY FS_CardinalityType DEF Planned, Declarable
<1>2. p \in Injection(E, 0..(n - 1))
  BY PlacesDiffer DEF Injection, IsInjective
<1>3. IsFiniteSet(0..(n - 1)) /\ Cardinality(0..(n - 1)) = n
  <2>1. 0 \in Int /\ n - 1 \in Int
    BY <1>1
  <2>2. QED BY <1>1, <2>1, FS_Interval
<1>4. p \in Surjection(E, 0..(n - 1))
  BY <1>2, <1>3, FS_Injection
<1>5. \A k \in 0..(n - 1) : \E e \in E : Place(registry, e) = k
  BY <1>4 DEF Surjection
<1>6. \A i \in 1..n : o[i] \in E /\ Place(registry, o[i]) = i - 1
  <2>1. ASSUME NEW i \in 1..n PROVE o[i] \in E /\ Place(registry, o[i]) = i - 1
    <3>1. o[i] = CHOOSE e \in E : Place(registry, e) = i - 1
      BY DEF Ordered, Place
    <3>2. \E e \in E : Place(registry, e) = i - 1
      BY <1>1, <1>5
    <3> HIDE DEF o, E
    <3>3. QED BY <3>1, <3>2
  <2>2. QED BY <2>1
<1>7. DOMAIN o = 1..n /\ o = [i \in 1..n |-> o[i]]
  <2> DEFINE Nth(i) == CHOOSE e \in E : Cardinality({f \in E : Before(f, e)}) = i - 1
  <2>1. o = [i \in 1..n |-> Nth(i)]
    BY DEF Ordered
  <2> HIDE DEF o, Nth, E
  <2>2. QED BY <2>1
<1>8. o \in [1..n -> E] /\ Len(o) = n
  <2> HIDE DEF o, E
  <2>1. o \in [1..n -> E]
    BY <1>6, <1>7
  <2>2. QED BY <1>1, <2>1
<1>9. ASSUME NEW e \in E PROVE \E i \in 1..n : o[i] = e
  <2>1. Place(registry, e) \in 0..(n - 1) /\ Place(registry, e) + 1 \in 1..n
    BY <1>1, PlacesDiffer
  <2>2. Place(registry, o[Place(registry, e) + 1]) = Place(registry, e)
    BY <1>6, <2>1
  <2>3. o[Place(registry, e) + 1] \in E
    BY <1>6, <2>1
  <2>4. QED BY <2>1, <2>2, <2>3, PlacesDiffer
<1>10. QED BY <1>1, <1>8, <1>9

-----------------------------------------------------------------------------
(***************************************************************************)
(* The rounds of the planner.                                              *)
(***************************************************************************)
Ids(registry) == {e.id : e \in registry.entries}
Plans(context, registry, fallback) ==
  [selected : Seq(Ids(registry)), cost : Nat, state : {"none"}, revision : {registry.revision},
   omitted : SUBSET [id : Ids(registry) \union context.selected_workload_ids \union fallback,
                     category : {"unregistered", "node_evidence", "incomplete_graph", "budget"}]]

\* What a round takes fits the budget and applies.
Affordable(plan, entry, lim) ==
  ~(Len(plan.selected) >= lim.max_selected) /\ ~(plan.cost + entry.cost > lim.max_cost)

Round(before, after, e, context, fallback, lim) ==
  /\ before.omitted \subseteq after.omitted
  /\ IF Applicable(e, context, fallback) /\ Affordable(before, e, lim)
     THEN after.selected = Append(before.selected, e.id) /\ after.cost = before.cost + e.cost
     ELSE after.selected = before.selected /\ after.cost = before.cost
  /\ Applicable(e, context, fallback) /\ ~Affordable(before, e, lim) =>
       [id |-> e.id, category |-> "budget"] \in after.omitted

LEMMA ConsiderTakes ==
  ASSUME NEW registry, Planned(registry), NEW context, NEW fallback, NEW lim,
         NEW plan \in Plans(context, registry, fallback), NEW e \in registry.entries
  PROVE  /\ Consider(plan, e, context, fallback, lim) \in Plans(context, registry, fallback)
         /\ Round(plan, Consider(plan, e, context, fallback, lim), e, context, fallback, lim)
<1> DEFINE next == Consider(plan, e, context, fallback, lim)
           Omit(category) == [plan EXCEPT !.omitted = @ \union {[id |-> e.id, category |-> category]}]
           Take == [plan EXCEPT !.selected = Append(@, e.id), !.cost = @ + e.cost]
           P == Plans(context, registry, fallback)
<1>1. e.cost \in Nat /\ e.id \in Ids(registry)
  BY DEF Planned, Declarable, Ids
<1>2. ASSUME NEW category \in {"node_evidence", "incomplete_graph", "budget"}
      PROVE  /\ Omit(category) \in P
             /\ Omit(category).selected = plan.selected /\ Omit(category).cost = plan.cost
             /\ Omit(category).omitted = plan.omitted \union {[id |-> e.id, category |-> category]}
  BY <1>1 DEF Plans
<1>3. /\ Take \in P
      /\ Take.selected = Append(plan.selected, e.id) /\ Take.cost = plan.cost + e.cost
      /\ Take.omitted = plan.omitted
  <2>1. plan.selected \in Seq(Ids(registry)) /\ plan.cost \in Nat
    BY DEF Plans
  <2>2. Append(plan.selected, e.id) \in Seq(Ids(registry)) /\ plan.cost + e.cost \in Nat
    BY <1>1, <2>1
  <2> DEFINE longer == Append(plan.selected, e.id)
             dearer == plan.cost + e.cost
  <2> HIDE DEF longer, dearer
  <2>3. [plan EXCEPT !.selected = longer, !.cost = dearer] \in P
    BY <2>2 DEF Plans, longer, dearer
  <2>4. Take = [plan EXCEPT !.selected = longer, !.cost = dearer]
    BY DEF longer, dearer
  <2> HIDE DEF Take
  <2>5. /\ Take.selected = longer /\ Take.cost = dearer /\ Take.omitted = plan.omitted
    BY <2>4 DEF Plans
  <2>6. QED BY <2>3, <2>4, <2>5 DEF longer, dearer
<1>4. CASE ~Applicable(e, context, fallback)
  <2>1. PICK category \in {"node_evidence", "incomplete_graph", "budget"} : next = Omit(category)
    BY <1>4 DEF Consider, Unapplied
  <2> HIDE DEF Omit, next
  <2>2. QED BY <1>2, <1>4, <2>1 DEF next, Round
<1>5. CASE Applicable(e, context, fallback) /\ ~Affordable(plan, e, lim)
  <2>1. next = Omit("budget")
    BY <1>5 DEF Consider, Affordable
  <2> HIDE DEF Omit, next
  <2>2. QED BY <1>2, <1>5, <2>1 DEF next, Round
<1>6. CASE Applicable(e, context, fallback) /\ Affordable(plan, e, lim)
  <2>1. next = Take
    BY <1>6 DEF Consider, Affordable
  <2> HIDE DEF Take, next
  <2>2. QED BY <1>3, <1>6, <2>1 DEF next, Round
<1>7. QED BY <1>4, <1>5, <1>6

\* A plan considers the entries in their order, one in each round.
LEMMA RoundsEquations ==
  ASSUME NEW registry, Planned(registry), NEW context, NEW fallback, NEW lim
  PROVE  LET R == Rounds(context, registry, fallback, lim)
             o == Ordered(registry.entries)
             n == Cardinality(registry.entries)
         IN  /\ R \in [0..n -> Plans(context, registry, fallback)]
             /\ R[0] = Unconsidered(context, registry, fallback)
             /\ \A i \in 1..n : R[i] = Consider(R[i - 1], o[i], context, fallback, lim)
<1> DEFINE R == Rounds(context, registry, fallback, lim)
           o == Ordered(registry.entries)
           n == Cardinality(registry.entries)
           P == Plans(context, registry, fallback)
           first == Unconsidered(context, registry, fallback)
           Then(p, i) == Consider(p, o[i], context, fallback, lim)
           step == [i \in 1..n |-> [p \in P |-> Then(p, i)]]
           Body(f, i) == IF i = 0 THEN first ELSE Then(f[i - 1], i)
           Is(f) == f = [i \in 0..n |-> Body(f, i)]
<1>1. n \in Nat /\ Len(o) = n /\ o \in [1..n -> registry.entries]
  BY OrderedEntries
<1>2. R = CHOOSE f : Is(f)
  BY <1>1 DEF Rounds
<1>3. first \in P
  <2>1. <<>> \in Seq(Ids(registry)) /\ 0 \in Nat
    OBVIOUS
  <2>2. QED BY <2>1 DEF Unconsidered, Plans
<1>4. \A p \in P, i \in 1..n : Then(p, i) \in P
  BY <1>1, ConsiderTakes
<1> HIDE DEF o, n, P, first, Then, R
<1>5. step \in [1..n -> [P -> P]]
  BY <1>4
<1> HIDE DEF step
<1>6. PICK f \in [0..n -> P] : f[0] = first /\ \A i \in 1..n : f[i] = step[i][f[i - 1]]
  <2>1. Steppable(n, P, first, step)
    BY <1>1, <1>3, <1>5 DEF Steppable
  <2>2. \E f : Walks(f, n, P, first, step)
    BY <2>1, Iteration
  <2>3. QED BY <2>2 DEF Walks
<1>7. \A i \in 1..n : f[i] = Then(f[i - 1], i)
  <2>1. ASSUME NEW i \in 1..n PROVE f[i] = Then(f[i - 1], i)
    <3>1. i - 1 \in 0..n
      BY <1>1
    <3>2. f[i - 1] \in P /\ f[i] = step[i][f[i - 1]]
      BY <1>6, <3>1
    <3>3. QED BY <3>2 DEF step
  <2>2. QED BY <2>1
<1>8. Is(f)
  <2>1. ASSUME NEW i \in 0..n PROVE f[i] = Body(f, i)
    BY <1>1, <1>6, <1>7
  <2>2. f = [i \in 0..n |-> f[i]]
    BY <1>6
  <2> HIDE DEF Body
  <2>3. QED BY <2>1, <2>2
<1>9. Is(R)
  <2> HIDE DEF Is
  <2>1. QED BY <1>2, <1>8
<1>10. DOMAIN R = 0..n /\ \A i \in 0..n : R[i] = Body(R, i)
  <2> HIDE DEF Body
  <2>1. QED BY <1>9
<1>11. R[0] = first /\ \A i \in 1..n : R[i] = Then(R[i - 1], i)
  BY <1>1, <1>10
<1>12. \A i \in 0..n : R[i] \in P
  <2> DEFINE Odd == {i \in 0..n : R[i] \notin P}
  <2>1. SUFFICES ASSUME Odd # {} PROVE FALSE
    OBVIOUS
  <2>2. PICK i \in Odd : \A j \in Odd : i <= j
    <3>1. Odd \subseteq Nat
      BY <1>1
    <3>2. QED BY <2>1, <3>1, SmallestOf
  <2>3. i # 0
    BY <1>3, <1>11, <2>2
  <2>4. i \in 1..n /\ i - 1 \in 0..n /\ i - 1 \notin Odd
    BY <1>1, <2>2, <2>3
  <2>5. QED BY <1>4, <1>11, <2>2, <2>4
<1>13. R \in [0..n -> P]
  BY <1>9, <1>12
<1>14. QED BY <1>11, <1>13 DEF R, n, o, P, first, Then

SelectedIds(plan) == {plan.selected[i] : i \in DOMAIN plan.selected}

\* One round, of the plan that the rounds before made.
LEMMA RoundTakes ==
  ASSUME NEW registry, Planned(registry), NEW context, NEW fallback, NEW lim,
         NEW k \in 1..Cardinality(registry.entries)
  PROVE  LET R == Rounds(context, registry, fallback, lim)
             e == Ordered(registry.entries)[k]
         IN  /\ k - 1 \in 0..Cardinality(registry.entries) /\ e \in registry.entries
             /\ Round(R[k - 1], R[k], e, context, fallback, lim)
             /\ SelectedIds(R[k]) = SelectedIds(R[k - 1]) \union
                  IF Applicable(e, context, fallback) /\ Affordable(R[k - 1], e, lim)
                  THEN {e.id} ELSE {}
<1> DEFINE R == Rounds(context, registry, fallback, lim)
           o == Ordered(registry.entries)
           n == Cardinality(registry.entries)
           e == o[k]
           before == R[k - 1]
           after == R[k]
<1>1. n \in Nat /\ k - 1 \in 0..n /\ e \in registry.entries
  BY OrderedEntries
<1>2. /\ before \in Plans(context, registry, fallback)
      /\ after = Consider(before, e, context, fallback, lim)
  BY <1>1, RoundsEquations
<1>3. before.selected \in Seq(Ids(registry)) /\ e.id \in Ids(registry)
  BY <1>1, <1>2 DEF Plans, Ids
<1> HIDE DEF e, before, after
<1>4. Round(before, after, e, context, fallback, lim)
  BY <1>1, <1>2, ConsiderTakes
<1>5. ASSUME after.selected = Append(before.selected, e.id)
      PROVE  SelectedIds(after) = SelectedIds(before) \union {e.id}
  <2> DEFINE s == before.selected
             id == e.id
             t == after.selected
  <2> HIDE DEF s, id, t
  <2>1. s \in Seq(Ids(registry)) /\ t = Append(s, id)
    BY <1>3, <1>5 DEF s, id, t
  <2>2. {t[i] : i \in DOMAIN t} = {s[i] : i \in DOMAIN s} \union {id}
    BY <2>1
  <2>3. QED BY <2>2 DEF SelectedIds, s, id, t
<1>6. ASSUME after.selected = before.selected PROVE SelectedIds(after) = SelectedIds(before)
  BY <1>6 DEF SelectedIds
<1>7. QED BY <1>1, <1>4, <1>5, <1>6 DEF e, before, after, Round

\* What a round selects or omits stays so.
LEMMA RoundsKeep ==
  ASSUME NEW registry, Planned(registry), NEW context, NEW fallback, NEW lim,
         NEW i \in 0..Cardinality(registry.entries), NEW j \in 0..Cardinality(registry.entries), i <= j
  PROVE  LET R == Rounds(context, registry, fallback, lim)
         IN  SelectedIds(R[i]) \subseteq SelectedIds(R[j]) /\ R[i].omitted \subseteq R[j].omitted
<1> DEFINE R == Rounds(context, registry, fallback, lim)
           o == Ordered(registry.entries)
           n == Cardinality(registry.entries)
           Kept(k) == /\ SelectedIds(R[i]) \subseteq SelectedIds(R[k])
                      /\ R[i].omitted \subseteq R[k].omitted
           Lost == {k \in 0..n : i <= k /\ ~Kept(k)}
<1>1. SUFFICES ASSUME Lost # {} PROVE FALSE
  OBVIOUS
<1>2. n \in Nat /\ o \in [1..n -> registry.entries]
  BY OrderedEntries
<1>3. PICK k \in Lost : \A m \in Lost : k <= m
  <2>1. Lost \subseteq Nat
    BY <1>2
  <2>2. QED BY <1>1, <2>1, SmallestOf
<1>4. k # i
  BY <1>3
<1>5. k \in 1..n /\ k - 1 \in 0..n /\ i <= k - 1 /\ k - 1 \notin Lost
  BY <1>2, <1>3, <1>4
<1>6. Kept(k - 1)
  BY <1>5
<1>7. R[k - 1].omitted \subseteq R[k].omitted /\ SelectedIds(R[k - 1]) \subseteq SelectedIds(R[k])
  <2>1. /\ Round(R[k - 1], R[k], o[k], context, fallback, lim)
        /\ SelectedIds(R[k]) = SelectedIds(R[k - 1]) \union
             IF Applicable(o[k], context, fallback) /\ Affordable(R[k - 1], o[k], lim)
             THEN {o[k].id} ELSE {}
    BY <1>5, RoundTakes
  <2> HIDE DEF R, o
  <2>2. QED BY <2>1 DEF Round
<1>8. QED BY <1>3, <1>6, <1>7

\* Every entry that applies is selected or omitted for the budget.
LEMMA ApplicableAccounted ==
  ASSUME NEW registry, Planned(registry), NEW context, NEW fallback, NEW lim,
         NEW e \in registry.entries, Applicable(e, context, fallback)
  PROVE  LET final == Rounds(context, registry, fallback, lim)[Cardinality(registry.entries)]
         IN  e.id \in SelectedIds(final) \/ [id |-> e.id, category |-> "budget"] \in final.omitted
<1> DEFINE R == Rounds(context, registry, fallback, lim)
           o == Ordered(registry.entries)
           n == Cardinality(registry.entries)
<1>1. PICK i \in 1..n : o[i] = e
  BY OrderedEntries
<1>2. n \in Nat /\ i - 1 \in 0..n /\ i \in 0..n /\ n \in 0..n /\ i <= n
  BY OrderedEntries, <1>1
<1>3. e.id \in SelectedIds(R[i]) \/ [id |-> e.id, category |-> "budget"] \in R[i].omitted
  <2>1. /\ Round(R[i - 1], R[i], o[i], context, fallback, lim)
        /\ SelectedIds(R[i]) = SelectedIds(R[i - 1]) \union
             IF Applicable(o[i], context, fallback) /\ Affordable(R[i - 1], o[i], lim)
             THEN {o[i].id} ELSE {}
    BY <1>1, RoundTakes
  <2> HIDE DEF R, o
  <2>2. QED BY <1>1, <2>1 DEF Round
<1>4. SelectedIds(R[i]) \subseteq SelectedIds(R[n]) /\ R[i].omitted \subseteq R[n].omitted
  BY <1>2, RoundsKeep
<1>5. QED BY <1>3, <1>4

\* Only entries that apply are selected.
LEMMA SelectedApplies ==
  ASSUME NEW registry, Planned(registry), NEW context, NEW fallback, NEW lim,
         NEW j \in 0..Cardinality(registry.entries), NEW e \in registry.entries,
         e.id \in SelectedIds(Rounds(context, registry, fallback, lim)[j])
  PROVE  Applicable(e, context, fallback)
<1> DEFINE R == Rounds(context, registry, fallback, lim)
           o == Ordered(registry.entries)
           n == Cardinality(registry.entries)
           Holding == {k \in 0..n : e.id \in SelectedIds(R[k])}
<1>1. n \in Nat /\ o \in [1..n -> registry.entries]
  BY OrderedEntries
<1>2. PICK k \in Holding : \A m \in Holding : k <= m
  <2>1. Holding \subseteq Nat /\ Holding # {}
    BY <1>1
  <2>2. QED BY <2>1, SmallestOf
<1>3. k # 0
  <2>1. R[0] = Unconsidered(context, registry, fallback)
    BY RoundsEquations
  <2>2. SelectedIds(Unconsidered(context, registry, fallback)) = {}
    BY DEF Unconsidered, SelectedIds
  <2>3. QED BY <1>2, <2>1, <2>2
<1>4. k \in 1..n /\ k - 1 \in 0..n /\ k - 1 \notin Holding
  BY <1>1, <1>2, <1>3
<1>5. /\ o[k] \in registry.entries
      /\ Applicable(o[k], context, fallback)
      /\ SelectedIds(R[k]) = SelectedIds(R[k - 1]) \union {o[k].id}
  <2>1. /\ o[k] \in registry.entries
        /\ Round(R[k - 1], R[k], o[k], context, fallback, lim)
        /\ SelectedIds(R[k]) = SelectedIds(R[k - 1]) \union
             IF Applicable(o[k], context, fallback) /\ Affordable(R[k - 1], o[k], lim)
             THEN {o[k].id} ELSE {}
    BY <1>4, RoundTakes
  <2> HIDE DEF R, o
  <2>2. QED BY <1>2, <1>4, <2>1 DEF Round
<1>6. o[k].id = e.id
  BY <1>2, <1>4, <1>5
<1>7. o[k] = e
  BY <1>5, <1>6 DEF Planned, ValidRegistry
<1>8. QED BY <1>5, <1>7

-----------------------------------------------------------------------------
\* A plan is what the last round made, with its state.
LEMMA PlanIsLast ==
  ASSUME NEW registry, Planned(registry), NEW context, NEW fallback, NEW lim
  PROVE  LET plan == Plan(context, registry, fallback, lim)
             final == Rounds(context, registry, fallback, lim)[Cardinality(registry.entries)]
         IN  /\ plan.selected = final.selected /\ plan.omitted = final.omitted
             /\ plan.state = PlanState(context, final)
<1> DEFINE n == Cardinality(registry.entries)
           final == Rounds(context, registry, fallback, lim)[n]
<1>1. n \in Nat /\ Len(Ordered(registry.entries)) = n
  BY OrderedEntries
<1>2. final \in Plans(context, registry, fallback)
  BY <1>1, RoundsEquations
<1>3. Plan(context, registry, fallback, lim) = [final EXCEPT !.state = PlanState(context, final)]
  BY <1>1 DEF Plan
<1> HIDE DEF final
<1>4. QED BY <1>2, <1>3 DEF Plans, final

\* Planning again over a context whose selected ids are those of the plan, with no
\* criterion over them, selects the same.
LEMMA PlanRepeats ==
  ASSUME NEW registry, Planned(registry), ~LooksBack(registry),
         NEW context, NEW again, NEW fallback, NEW lim,
         again.complete = context.complete,
         again.selected_workload_ids = SelectedIds(Plan(context, registry, fallback, lim)),
         \A s \in CriterionSources \ {"selected_workload_ids"} : again[s] = context[s]
  PROVE  Plan(again, registry, fallback, lim).selected
           = Plan(context, registry, fallback, lim).selected
<1> DEFINE E == registry.entries
           n == Cardinality(E)
           o == Ordered(E)
           R == Rounds(context, registry, fallback, lim)
           S == Rounds(again, registry, fallback, lim)
           Same(i) == S[i].selected = R[i].selected /\ S[i].cost = R[i].cost
           Differ == {i \in 0..n : ~Same(i)}
<1>1. n \in Nat /\ n \in 0..n
  BY OrderedEntries
<1>2. again.selected_workload_ids = SelectedIds(R[n])
  BY PlanIsLast DEF SelectedIds
<1>3. ASSUME NEW e \in E
      PROVE  Matches(e, again) <=>
               \/ e.id \in SelectedIds(R[n])
               \/ \E c \in e.criteria : context[c.source] \intersect c.values # {}
  <2>1. \A c \in e.criteria : again[c.source] = context[c.source]
    BY DEF LooksBack, Planned, Declarable
  <2>2. QED BY <1>2, <2>1 DEF Matches
<1>4. ASSUME NEW e \in E, e.id \in SelectedIds(R[n]) PROVE Applicable(e, context, fallback)
  BY <1>1, <1>4, SelectedApplies
<1>5. ASSUME NEW e \in E, Applicable(e, again, fallback) PROVE Applicable(e, context, fallback)
  BY <1>3, <1>4, <1>5 DEF Applicable, Matches
<1>6. ASSUME NEW e \in E, e.id \in SelectedIds(R[n]) PROVE Applicable(e, again, fallback)
  BY <1>3, <1>4, <1>6 DEF Applicable
<1>7. Same(0)
  <2>1. /\ R[0] = Unconsidered(context, registry, fallback)
        /\ S[0] = Unconsidered(again, registry, fallback)
    BY RoundsEquations
  <2>2. QED BY <2>1 DEF Unconsidered
<1>8. Differ = {}
  <2>1. SUFFICES ASSUME Differ # {} PROVE FALSE
    OBVIOUS
  <2>2. PICK i \in Differ : \A j \in Differ : i <= j
    <3>1. Differ \subseteq Nat
      BY <1>1
    <3>2. QED BY <2>1, <3>1, SmallestOf
  <2>3. i # 0
    BY <1>7, <2>2
  <2>4. i \in 1..n /\ i \in 0..n /\ i <= n /\ i - 1 \in 0..n /\ i - 1 \notin Differ
    BY <1>1, <2>2, <2>3
  <2> DEFINE e == o[i]
  <2>5. /\ e \in E
        /\ Round(R[i - 1], R[i], e, context, fallback, lim)
        /\ SelectedIds(R[i]) = SelectedIds(R[i - 1]) \union
             IF Applicable(e, context, fallback) /\ Affordable(R[i - 1], e, lim)
             THEN {e.id} ELSE {}
    BY <2>4, RoundTakes
  <2>6. Round(S[i - 1], S[i], e, again, fallback, lim)
    BY <2>4, RoundTakes
  <2>7. SelectedIds(R[i]) \subseteq SelectedIds(R[n])
    BY <1>1, <2>4, RoundsKeep
  <2>8. Same(i - 1) /\ ~Same(i)
    BY <2>2, <2>4
  <2> HIDE DEF R, S, e
  <2>9. Affordable(S[i - 1], e, lim) <=> Affordable(R[i - 1], e, lim)
    BY <2>8 DEF Affordable
  <2>10. CASE Applicable(e, context, fallback) /\ Affordable(R[i - 1], e, lim)
    <3>1. Applicable(e, again, fallback)
      BY <1>6, <2>5, <2>7, <2>10
    <3>2. QED BY <2>5, <2>6, <2>8, <2>9, <2>10, <3>1 DEF Round
  <2>11. CASE ~(Applicable(e, context, fallback) /\ Affordable(R[i - 1], e, lim))
    <3>1. ~(Applicable(e, again, fallback) /\ Affordable(S[i - 1], e, lim))
      BY <1>5, <2>5, <2>9, <2>11
    <3>2. QED BY <2>5, <2>6, <2>8, <2>11, <3>1 DEF Round
  <2>12. QED BY <2>10, <2>11
<1>9. S[n].selected = R[n].selected
  BY <1>1, <1>8
<1>10. QED BY <1>9, PlanIsLast

-----------------------------------------------------------------------------
(***************************************************************************)
(* The invariant of the pipeline around the search: what is recorded is    *)
(* what the search and a manifest that was valid give, and what is         *)
(* measured is planned from what is recorded, unless there was an edit.    *)
(***************************************************************************)
PlanInv ==
  /\ manifest \in Manifests /\ edits \in Nat
  /\ pc # "inspect" => graph = Snapshot(source, Types)
  /\ recorded # Nothing =>
       /\ pc \in {"select", "selected", "raised"}
       /\ Planned(recorded.registry) /\ recorded = Recording(recorded.registry)
       /\ ~truncated => reached = Within(graph, limits.max_depth)
  /\ pc \in {"select", "selected"} => recorded # Nothing
  /\ pc = "select" /\ edits = 0 => manifest = recorded.registry
  /\ pc = "selected" /\ edits = 0 =>
       measured = Plan(recorded.context, recorded.registry, recorded.fallback, budget)

LEMMA RecordingIsSome ==
  ASSUME NEW registry, Planned(registry)
  PROVE  Recording(registry) # Nothing /\ Recording(registry).registry = registry
<1> DEFINE fallback == IF Found.complete THEN {} ELSE Fallbacks(registry, Configured)
           plan == Plan(Found, registry, fallback, budget)
           final == Rounds(Found, registry, fallback, budget)[Cardinality(registry.entries)]
<1>1. Recording(registry).state = plan.state /\ Recording(registry).registry = registry
  BY DEF Recording
<1>2. plan.state = PlanState(Found, final)
  BY PlanIsLast
<1> HIDE DEF plan, final
<1>3. plan.state # "none"
  BY <1>2 DEF PlanState
<1>4. QED BY <1>1, <1>3 DEF Nothing

LEMMA PlanInit == ImpactInit => PlanInv
<1> SUFFICES ASSUME ImpactInit PROVE PlanInv
  OBVIOUS
<1>1. pc = "inspect" /\ recorded = Nothing /\ edits = 0 /\ manifest \in Manifests
  BY DEF ImpactInit
<1>2. QED BY <1>1 DEF PlanInv

\* What is recorded does not depend on what happens after it.
LEMMA RecordingKept ==
  ASSUME UNCHANGED <<reached, distance, source, budget>>, NEW registry
  PROVE  Recording(registry)' = Recording(registry)
BY DEF Recording, Found

LEMMA PlanStep == SearchInv /\ PlanInv /\ [ImpactNext]_impactVars => PlanInv'
<1> SUFFICES ASSUME SearchInv, PlanInv, [ImpactNext]_impactVars PROVE PlanInv'
  OBVIOUS
<1>1. CASE BuildGraph
  <2>1. /\ pc = "inspect" /\ pc' = "start" /\ graph' = Snapshot(source, Types)
        /\ UNCHANGED <<source, manifest, edits, recorded>>
    BY <1>1 DEF BuildGraph, pipeline
  <2>2. recorded = Nothing
    BY <2>1 DEF PlanInv
  <2>3. (recorded = Nothing)' /\ Nothing' = Nothing
    BY <2>1, <2>2 DEF Nothing
  <2>4. QED BY <2>1, <2>3 DEF PlanInv
<1>2. CASE Search
  <2>1. /\ pc \in {"start", "pop", "visit"} /\ pc' \in {"start", "pop", "visit", "done"}
        /\ UNCHANGED <<graph, source, manifest, edits, recorded>>
    BY <1>2 DEF Search, Traverse, AddStart, PopLeft, Visit, Finish, Searching, search, pipeline
  <2>2. recorded = Nothing
    BY <2>1 DEF PlanInv
  <2>3. (recorded = Nothing)' /\ Nothing' = Nothing
    BY <2>1, <2>2 DEF Nothing
  <2>4. QED BY <2>1, <2>3 DEF PlanInv
<1>3. CASE PlanWorkloads
  <2>1. /\ pc = "done" /\ pc' = "select" /\ ValidRegistry(manifest, RegistryLimits)
        /\ recorded' = Recording(manifest)
        /\ UNCHANGED <<graph, limits, reached, distance, truncated, source, manifest, edits, budget>>
    BY <1>3 DEF PlanWorkloads, search
  <2>2. Planned(manifest)
    BY <2>1, ImpactAssumption DEF PlanInv, Planned
  <2>3. Recording(manifest) # Nothing /\ Recording(manifest).registry = manifest
    BY <2>2, RecordingIsSome
  <2>4. \A r : Recording(r)' = Recording(r)
    BY <2>1, RecordingKept
  <2>5. recorded'.registry = manifest /\ (recorded = Recording(recorded.registry))'
    BY <2>1, <2>3, <2>4
  <2>6. (recorded # Nothing)'
    BY <2>1, <2>3 DEF Nothing
  <2>7. ~truncated => reached = Within(graph, limits.max_depth)
    BY <2>1, FoundIsWithin, WithinIsFound
  <2>8. (~truncated => reached = Within(graph, limits.max_depth))'
    BY <2>1, <2>7
  <2>9. Planned(recorded.registry)'
    BY <2>2, <2>5 DEF Planned
  <2>10. (graph = Snapshot(source, Types))'
    BY <2>1 DEF PlanInv
  <2>11. QED BY <2>1, <2>5, <2>6, <2>8, <2>9, <2>10 DEF PlanInv
<1>4. CASE Select \/ Malformed \/ Edit \/ UNCHANGED impactVars
  <2>1. UNCHANGED <<graph, limits, reached, distance, truncated, source, budget, recorded>>
    BY <1>4 DEF Select, Malformed, Edit, search, pipeline, impactVars, vars
  <2>2. /\ manifest' \in Manifests /\ edits' \in Nat
        /\ (pc # "inspect" => graph = Snapshot(source, Types))'
    BY <1>4, <2>1 DEF PlanInv, Select, Malformed, Edit, search, pipeline, impactVars, vars
  <2>3. \A r : Recording(r)' = Recording(r)
    BY <2>1, RecordingKept
  <2>4. ASSUME recorded # Nothing
        PROVE  /\ pc' \in {"select", "selected", "raised"}
               /\ Planned(recorded.registry)' /\ (recorded = Recording(recorded.registry))'
               /\ (~truncated => reached = Within(graph, limits.max_depth))'
    <3>1. /\ pc \in {"select", "selected", "raised"} /\ Planned(recorded.registry)
          /\ recorded = Recording(recorded.registry)
          /\ ~truncated => reached = Within(graph, limits.max_depth)
      BY <2>4 DEF PlanInv
    <3>2. pc' \in {"select", "selected", "raised"}
      BY <1>4, <3>1 DEF Select, Malformed, Edit, search, pipeline, impactVars, vars
    <3>3. recorded' = recorded /\ Recording(recorded.registry)' = Recording(recorded.registry)
      BY <2>1, <2>3
    <3>4. QED BY <2>1, <3>1, <3>2, <3>3 DEF Planned
  <2>5. (recorded # Nothing)' <=> recorded # Nothing
    BY <2>1 DEF Nothing
  <2>6. pc' \in {"select", "selected"} => recorded # Nothing
    BY <1>4 DEF PlanInv, Select, Malformed, Edit, impactVars, vars
  <2>7. pc' = "select" /\ edits' = 0 => manifest' = recorded'.registry
    BY <1>4, <2>1 DEF PlanInv, Select, Malformed, Edit, pipeline, impactVars, vars
  <2>8. pc' = "selected" /\ edits' = 0 =>
          (measured = Plan(recorded.context, recorded.registry, recorded.fallback, budget))'
    <3>1. CASE Select
      BY <2>1, <3>1 DEF Select, PlanInv
    <3>2. CASE Malformed \/ Edit
      BY <3>2 DEF Malformed, Edit, vars
    <3>3. CASE UNCHANGED impactVars
      BY <2>1, <3>3 DEF PlanInv, impactVars, vars, pipeline
    <3>4. QED BY <1>4, <3>1, <3>2, <3>3
  <2>9. QED BY <2>2, <2>4, <2>5, <2>6, <2>7, <2>8 DEF PlanInv
<1>5. QED BY <1>1, <1>2, <1>3, <1>4 DEF ImpactNext

\* What the pipeline records and measures comes of its commits, search and manifest.
THEOREM PipelineCorrect == ImpactSpec => [](SearchInv /\ PlanInv)
BY SearchInit, SearchStep, PlanInit, PlanStep, PTL DEF ImpactSpec

\* Planning again over the stored context repeats the selection (live.py:173).
THEOREM SelectionCorrect == ImpactSpec => []SelectionRepeats
<1>1. PlanInv => SelectionRepeats
  <2>1. SUFFICES ASSUME PlanInv, pc = "selected", edits = 0, ~LooksBack(recorded.registry)
                 PROVE  measured.selected = recorded.plan.selected
    BY DEF SelectionRepeats
  <2> DEFINE registry == recorded.registry
             fallback == IF Found.complete THEN {} ELSE Fallbacks(registry, Configured)
             plan == Plan(Found, registry, fallback, budget)
             again == [Found EXCEPT !.selected_workload_ids =
                         {plan.selected[i] : i \in DOMAIN plan.selected}]
  <2>2. /\ Planned(registry) /\ recorded = Recording(registry)
        /\ measured = Plan(recorded.context, registry, recorded.fallback, budget)
    BY <2>1 DEF PlanInv
  <2>3. recorded.plan = plan /\ recorded.fallback = fallback /\ recorded.context = again
    BY <2>2 DEF Recording
  <2>4. /\ again.complete = Found.complete
        /\ again.selected_workload_ids = SelectedIds(plan)
        /\ \A s \in CriterionSources \ {"selected_workload_ids"} : again[s] = Found[s]
    <3> HIDE DEF plan
    <3>1. QED BY DEF Found, Context, CriterionSources, SelectedIds
  <2> HIDE DEF again, fallback
  <2>5. Plan(again, registry, fallback, budget).selected = plan.selected
    BY <2>1, <2>2, <2>4, PlanRepeats
  <2>6. QED BY <2>2, <2>3, <2>5
<1>2. QED BY <1>1, PipelineCorrect, PTL

-----------------------------------------------------------------------------
(***************************************************************************)
(* Complete evidence: nothing of the two commits was left out of the graph.*)
(***************************************************************************)
LEMMA TouchedIsChanged ==
  ASSUME ChangeComplete(source)
  PROVE  Touched = ChangedSymbols(source)
<1> DEFINE pairs == FilePairs(source)
           Read(i) == {side \in {"old", "new"} : ReadSide(source, pairs, i, side)}
<1>1. ASSUME NEW i \in DOMAIN pairs PROVE TouchedBy(pairs[i]) = SymbolsOf(source, pairs, i)
  <2>1. Read(i) = Sides(pairs[i])
    BY DEF ChangeComplete, ReadSide, Sides
  <2>2. QED BY <2>1 DEF TouchedBy, SymbolsOf
<1>2. QED BY <1>1 DEF Touched, ChangedSymbols

\* Of complete evidence every statement that is noticed for what it is, is an edge of
\* the graph, or ends at what is no node.
LEMMA SaidIsRead ==
  ASSUME SearchInv, Complete(source), NEW s \in source.statements, Says(s)
  PROVE  \/ EdgesOf(source, s) \subseteq Snapshot(source, Types).edges
         \/ \A e \in EdgesOf(source, s) : e.from \notin Nodes \/ e.to \notin Nodes
<1>1. Readable(source) /\ None \notin Nodes
  BY ImpactAssumption DEF SearchInv, SearchShape
<1>2. Parsed(source) = Eligible(source) /\ s \in Statements(source)
  BY <1>1 DEF Complete, Readable, Statements
<1>3. Outcome(source, s) # "unresolved"
  BY <1>2 DEF Complete
<1>4. Defined(source) = DOMAIN source.definitions
  BY <1>1, <1>2 DEF Defined, Readable
<1>5. AsRead(s) = s /\ Noticed(s)
  BY DEF Says, AsRead
<1>6. CASE Outcome(source, s) = "edge"
  BY <1>2, <1>5, <1>6 DEF ResolvedStatements, Snapshot
<1>7. CASE Outcome(source, s) # "edge"
  <2>1. Elsewhere(source, s)
    BY <1>3, <1>5, <1>7 DEF Outcome
  <2>2. s.kind = "call" /\ s.to \notin Nodes
    BY <1>1, <1>4, <1>5, <2>1 DEF Elsewhere, Readable
  <2>3. ASSUME NEW e \in EdgesOf(source, s) PROVE e.from = s.to \/ e.to = s.to
    BY <2>2 DEF EdgesOf
  <2>4. QED BY <2>2, <2>3
<1>8. QED BY <1>6, <1>7

\* No way that the source names is missing from the graph.
LEMMA StepsAreRead ==
  ASSUME SearchInv, Complete(source), graph = Snapshot(source, Types), NEW n \in Nodes
  PROVE  Steps(Truth, n) \subseteq Steps(graph, n)
<1>1. Truth.types = graph.types
  BY DEF Truth, TruthOf, Snapshot
<1>2. ASSUME NEW e \in Truth.edges, e.from \in Nodes, e.to \in Nodes PROVE e \in graph.edges
  <2>1. PICK s \in source.statements : Says(s) /\ e \in EdgesOf(source, s)
    BY DEF Truth, TruthOf
  <2>2. QED BY <1>2, <2>1, SaidIsRead
<1>3. QED BY <1>1, <1>2 DEF Steps

LEMMA WithinIsRead ==
  ASSUME SearchInv, Complete(source), graph = Snapshot(source, Types), NEW d \in Nat
  PROVE  Truth.changed = graph.changed /\ Within(Truth, d) \subseteq Within(graph, d)
<1>1. Truth.changed = graph.changed
  <2>1. Touched = ChangedSymbols(source)
    BY TouchedIsChanged DEF Complete
  <2>2. ChangedSymbols(source) \subseteq Defined(source)
    BY DEF Complete, MissingSymbols
  <2>3. QED BY <2>1, <2>2 DEF Truth, TruthOf, Snapshot, Defined
<1> DEFINE Lost == {k \in Nat : ~(Within(Truth, k) \subseteq Within(graph, k) \intersect Nodes)}
<1>2. Lost = {}
  <2>1. SUFFICES ASSUME Lost # {} PROVE FALSE
    OBVIOUS
  <2>2. PICK k \in Lost : \A j \in Lost : k <= j
    BY <2>1, SmallestOf
  <2>3. k # 0
    BY <1>1, <2>2, WithinEquations DEF SearchInv, SearchShape
  <2>4. k - 1 \in Nat /\ k - 1 \notin Lost /\ (k - 1) + 1 = k
    BY <2>2, <2>3
  <2>5. /\ Within(Truth, k) = Grow(Truth, Within(Truth, k - 1))
        /\ Within(graph, k) = Grow(graph, Within(graph, k - 1))
    BY <2>4, WithinEquations
  <2>6. Within(Truth, k - 1) \subseteq Within(graph, k - 1) \intersect Nodes
    BY <2>4
  <2>7. \A n \in Within(Truth, k - 1) : Steps(Truth, n) \subseteq Steps(graph, n) \intersect Nodes
    BY <2>6, StepsAreRead DEF Steps
  <2>8. Within(Truth, k) \subseteq Within(graph, k) \intersect Nodes
    BY <2>5, <2>6, <2>7 DEF Grow
  <2>9. QED BY <2>2, <2>8
<1>3. QED BY <1>1, <1>2

\* Found by an uncut search: the starts are the changed nodes.
LEMMA StartsAreChanged ==
  ASSUME SearchInv, pc \in {"select", "selected", "raised"}, ~truncated
  PROVE  {n \in reached : distance[n] = 0} = graph.changed
<1>1. graph.changed \subseteq reached
  BY DEF SearchInv, Starts
<1>2. ASSUME NEW n \in reached, n \notin graph.changed PROVE distance[n] # 0
  BY <1>2 DEF SearchInv, SearchShape, Founded, Backed
<1>3. \A n \in graph.changed : distance[n] = 0
  BY <1>1 DEF SearchInv, Founded, Backed
<1>4. QED BY <1>1, <1>2, <1>3

\* A criterion that holds of fewer nodes holds of more.
LEMMA MatchesMore ==
  ASSUME NEW registry, Planned(registry), NEW e \in registry.entries,
         NEW roots, NEW few, NEW many, few \subseteq many,
         Matches(e, Context(Types, roots, few, TRUE))
  PROVE  Matches(e, Context(Types, roots, many, TRUE))
<1> DEFINE less == Context(Types, roots, few, TRUE)
           more == Context(Types, roots, many, TRUE)
<1>1. \A s \in CriterionSources : less[s] \subseteq more[s]
  BY DEF Context, CriterionSources
<1>2. less.selected_workload_ids \subseteq more.selected_workload_ids
  BY <1>1 DEF CriterionSources
<1>3. \A c \in e.criteria : c.source \in CriterionSources
  BY DEF Planned, Declarable
<1> HIDE DEF less, more
<1>4. QED BY <1>1, <1>2, <1>3 DEF Matches, less, more

\* A plan that claims complete evidence holds every workload that the change calls for
\* by the statements the extraction notices for what they are, or says that the budget
\* left it out (live.py:126).
THEOREM CertaintyCorrect == ImpactSpec => []NoFalseCertainty
<1>1. SearchInv /\ PlanInv => NoFalseCertainty
  <2>1. SUFFICES ASSUME SearchInv, PlanInv, ClaimsComplete PROVE NoFalseCertainty
    BY DEF NoFalseCertainty
  <2> DEFINE registry == recorded.registry
             fallback == IF Found.complete THEN {} ELSE Fallbacks(registry, Configured)
             plan == Plan(Found, registry, fallback, budget)
             final == Rounds(Found, registry, fallback, budget)[Cardinality(registry.entries)]
  <2>2. recorded # Nothing
    BY <2>1 DEF ClaimsComplete, Nothing
  <2>3. /\ pc \in {"select", "selected", "raised"} /\ graph = Snapshot(source, Types)
        /\ Planned(registry) /\ recorded = Recording(registry)
        /\ ~truncated => reached = Within(graph, limits.max_depth)
    BY <2>1, <2>2 DEF PlanInv
  <2>4. recorded.plan = plan /\ recorded.state = plan.state
    BY <2>3 DEF Recording
  <2>5. /\ plan.state = PlanState(Found, final)
        /\ plan.selected = final.selected /\ plan.omitted = final.omitted
    BY <2>3, PlanIsLast
  <2>6. Found.complete /\ Found.complete = Complete(source)
    <3>1. Found.complete = Complete(source)
      BY DEF Found, Context
    <3> HIDE DEF plan, final
    <3>2. Found.complete
      BY <2>1, <2>4, <2>5 DEF ClaimsComplete, PlanState
    <3>3. QED BY <3>1, <3>2
  <2>7. Complete(source)
    BY <2>6
  <2>8. Touched \subseteq Defined(source)
    BY <2>7, TouchedIsChanged DEF Complete, MissingSymbols
  <2>9. ASSUME ~truncated, NEW e \in registry.entries,
               Matches(e, Context(Types, Truth.changed, Within(Truth, limits.max_depth), TRUE))
        PROVE  Accounted(e)
    <3>1. /\ Truth.changed = graph.changed
          /\ Within(Truth, limits.max_depth) \subseteq reached
      BY <2>1, <2>3, <2>7, <2>9, WithinIsRead DEF SearchInv, SearchShape
    <3>2. Found = Context(Types, graph.changed, reached, TRUE)
      <4>1. Complete(source) = TRUE
        BY <2>6, <2>7
      <4>2. QED BY <2>1, <2>3, <2>9, <4>1, StartsAreChanged DEF Found
    <3>3. Matches(e, Found)
      BY <2>3, <2>9, <3>1, <3>2, MatchesMore
    <3>4. Applicable(e, Found, fallback)
      BY <2>6, <3>3 DEF Applicable
    <3>5. e.id \in SelectedIds(final) \/ [id |-> e.id, category |-> "budget"] \in final.omitted
      BY <2>3, <3>4, ApplicableAccounted
    <3> HIDE DEF plan, final
    <3>6. QED BY <2>4, <2>5, <3>5 DEF Accounted, SelectedIds
  <2>10. QED BY <2>8, <2>9 DEF NoFalseCertainty, Called
<1>2. QED BY <1>1, PipelineCorrect, PTL
=============================================================================
