------------------------------ MODULE MCImpact ------------------------------
(***************************************************************************)
(* Instances of Impact for TLC: a small store with a route, two functions, *)
(* a table, a test and a load script, in every form its statements, files  *)
(* and diff can take one at a time, and in every combination of the forms  *)
(* of the statements that link them.                                       *)
(***************************************************************************)
EXTENDS Impact, TLC

\* Nodes: endpoint, the functions checkout and save, the load script, the table, the
\* test, three more functions, and another endpoint that is read for the first.  Larger
\* numbers are targets that are no node: the scope of a module, a deleted function, a
\* name nothing defines, another package.
module == 11
gone == 12
missing == 13
foreign == 14
MCTypes == <<"ENDPOINT", "FUNCTION", "FUNCTION", "LOAD_SCENARIO", "DATABASE_TABLE", "TEST",
             "FUNCTION", "FUNCTION", "FUNCTION", "ENDPOINT">>
Definition(file, type) == [file |-> file, type |-> type]
MCDefinitions == 6 :> Definition(3, "TEST")
                   @@ [n \in {2, 3, 7, 8, 9} |-> Definition(2, "FUNCTION")]

Statement(kind, file, form, from, to, target_file) ==
  {[kind |-> kind, file |-> file, form |-> form, from |-> from, to |-> to,
    read |-> IF kind = "call" THEN 7 ELSE 10, target_file |-> target_file,
    access |-> "WRITES_TO"]}
Maybe(kind, file, forms, from, to) ==
  {IF f = "absent" THEN {} ELSE Statement(kind, file, f, from, to, 2) : f \in forms}

Calls   == Maybe("call", 2, {"absent", "literal", "passed_over"}, 2, 3)
Tests   == Maybe("call", 3, {"absent", "literal"}, 6, 2)
Routes  == Maybe("endpoint", 2, {"absent", "literal", "computed"}, 2, 1)
Loads   == Maybe("load", 1, {"literal", "computed"}, 1, 4)
Queries == Maybe("sql", 2, {"absent", "literal", "computed"}, 3, 5)
Linked  == {c \union t \union r \union l \union q :
              c \in Calls, t \in Tests, r \in Routes, l \in Loads, q \in Queries}
Plain == Statement("call", 2, "literal", 2, 3, 2) \union Statement("call", 3, "literal", 6, 2, 2)
           \union Statement("endpoint", 2, "literal", 2, 1, 2)
           \union Statement("load", 1, "literal", 1, 4, 2)
           \union Statement("sql", 2, "literal", 3, 5, 2)
\* Calls with a long and a short way from 2 to 9, and a table at their end.
Detours == {UNION {Statement("call", 2, "literal", c[1], c[2], 2) : c \in calls}
              \union Statement("sql", 2, "literal", 9, 5, 2) :
              calls \in SUBSET {<<2, 3>>, <<2, 7>>, <<7, 8>>, <<8, 9>>, <<3, 9>>}}
Extras == {Statement("import", 3, f, 6, None, 2) : f \in {"literal", "computed", "passed_over"}}
            \union {Statement("call", 3, "literal", 6, missing, 2),
                    Statement("call", 3, "literal", 6, foreign, 9),
                    Statement("call", 2, "literal", None, 3, 2),
                    Statement("sql", 2, "passed_over", 2, None, 2),
                    Statement("sql", 2, "literal", None, 5, 2),
                    Statement("router", 2, "literal", 1, 1, 2),
                    Statement("router", 2, "computed", 1, 1, 2),
                    Statement("router", 2, "passed_over", 1, 1, 2)}
\* A statement, or the route and the request, not noticed or taken for another.
Odd(kinds, form) == {IF s.kind \in kinds THEN [s EXCEPT !.form = form] ELSE s : s \in Plain}
OddForms == {Odd({kind}, "passed_over") : kind \in {"endpoint", "load", "sql", "call"}}
              \union {Odd(kinds, "misread") :
                         kinds \in {{"endpoint"}, {"load"}, {"call"}, {"endpoint", "load"}}}

File(kind, size, blob) == [kind |-> kind, size |-> size, blob |-> blob]
FilesWith(load, app, tests) ==
  <<File("load", 1, load), File("python", 1, app), File("python", 1, tests), File("other", 9, "ok")>>
PlainFiles == FilesWith("ok", "ok", "ok")
OddFiles == {FilesWith("ok", "ok", "invalid"), FilesWith("invalid", "ok", "ok"),
             FilesWith("ok", "unsupported", "ok"),
             [PlainFiles EXCEPT ![1].size = 4],  \* no room is left for the tests
             [PlainFiles EXCEPT ![3].size = 6],  \* larger than a blob may be
             <<File("load", 1, "ok")>> \o PlainFiles}  \* one file more than the limit

Pair(status, touched, before, after, readable) ==
  [status |-> status, old |-> "p", new |-> IF status = "R" THEN "q" ELSE "p",
   old_python |-> TRUE, new_python |-> TRUE, touched |-> touched,
   scopes |-> [old |-> before, new |-> after], readable |-> readable]
Both == {"old", "new"}
Changed(d) == Pair("M", {d}, {2, 3}, {2, 3}, Both)
OddDiffs == {<<>>, <<Changed(module)>>, <<Pair("A", {}, {}, {2, 3}, Both)>>,
             <<Pair("D", {}, {gone}, {}, Both)>>, <<Pair("R", {}, {6}, {6}, Both)>>,
             <<Pair("M", {2}, {2, 3}, {2, 3}, {"new"})>>, <<Pair("T", {2}, {2, 3}, {}, {"old"})>>,
             <<[Pair("R", {}, {gone}, {}, Both) EXCEPT !.new_python = FALSE]>>,
             <<[Pair("R", {}, {}, {6}, Both) EXCEPT !.old_python = FALSE], Changed(3)>>,
             <<[Pair("R", {}, {}, {}, Both) EXCEPT !.old_python = FALSE, !.new_python = FALSE]>>,
             <<Changed(2), Changed(6)>>}

Source(statements, files, diff) ==
  [statements |-> statements, files |-> files, diff |-> diff, definitions |-> MCDefinitions,
   limits |-> [max_snapshots |-> 3, max_files |-> 3, max_blob_bytes |-> 5, max_total_bytes |-> 5]]
MCSources == {Source(s, PlainFiles, <<Changed(d)>>) : s \in Linked, d \in {2, 3}}
        \union {Source(s, PlainFiles, <<Changed(2)>>) : s \in Detours}
        \union {Source(s, PlainFiles, <<Changed(d)>>) : s \in OddForms, d \in {2, 3}}
        \union {Source(Plain \union x, f, <<Changed(2)>>) :
                  x \in Extras, f \in {PlainFiles, FilesWith("ok", "invalid", "ok")}}
        \union {Source(Plain, f, d) : f \in {PlainFiles} \union OddFiles, d \in OddDiffs}

Entry(id, rank, type, priority, cost, field, values, fallback) ==
  [id |-> id, rank |-> rank, type |-> type, priority |-> priority, cost |-> cost,
   criteria |-> {[source |-> field, values |-> values]}, fallback_eligible |-> fallback]
Unit == Entry("checkout-pytest", 2, "pytest", 100, 30, "affected_tests", {6}, TRUE)
Load == Entry("checkout-k6", 1, "k6", 100, 120, "affected_endpoints", {1}, TRUE)
Data == Entry("data", 3, "pytest", 50, 200, "affected_data_dependencies", {5}, FALSE)
Wide == Entry("wide", 4, "pytest", 120, 20, "affected_symbols", {2, 3}, TRUE)
After == Entry("after", 5, "k6", 130, 20, "selected_workload_ids", {"data"}, FALSE)
MCManifests == {[revision |-> "one", entries |-> {Unit, Load, Data}],
                [revision |-> "two", entries |-> {[Load EXCEPT !.priority = 10], Data, Wide}],
                [revision |-> "three", entries |-> {Load, Data, After}],
                [revision |-> "bad", entries |-> {Unit, [Unit EXCEPT !.cost = 31]}]}

Limit(depth, nodes) == [max_depth |-> depth, max_nodes |-> nodes]
MCSearchLimits == {Limit(3, 9), Limit(3, 2), Limit(1, 9), Limit(0, 1)}
MCPlanningLimits == {[max_selected |-> 8, max_cost |-> 300], [max_selected |-> 1, max_cost |-> 300],
                     [max_selected |-> 8, max_cost |-> 150]}
MCRegistryLimits == [max_entries |-> 64, max_criteria |-> 32, max_entry_cost |-> 3600]
\* The search of Impact builds its own snapshot.
NoGraphs == {}
=============================================================================
