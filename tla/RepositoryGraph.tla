--------------------------- MODULE RepositoryGraph ---------------------------
(***************************************************************************)
(* From a commit pair to a repository graph: which Python files changed    *)
(* (lou/repository/changes.py), which definitions changed (symbols.py) and *)
(* what the candidate's source says about calls, tests, endpoints, tables  *)
(* and load scenarios (graph.py).  What a parser reads off a file is data: *)
(*                                                                         *)
(*   source.files       the candidate's files as ls-tree sorts them, each  *)
(*                      a record of kind, size and blob                    *)
(*   source.definitions the file and type of each definition               *)
(*   source.statements  what the files say, one record per statement: kind,*)
(*                      the file it is in, from and to, and its form, which*)
(*                      is how the visitors take it                        *)
(*   source.diff        the file pairs of the diff in sorted order, each   *)
(*                      with the definitions of both sides, those a hunk   *)
(*                      touches, and whether each side can be read         *)
(*   source.limits      GraphLimits and MAX_FILE_SNAPSHOTS                 *)
(*                                                                         *)
(* Completeness is a product of ratios that only ever matters through      *)
(* being 1 or less, so the model keeps that.                               *)
(*                                                                         *)
(* The definition named MissingSymbolsIgnored is a deliberately wrong form *)
(* of the one it precedes; no specification uses it.                       *)
(***************************************************************************)
EXTENDS Naturals, Sequences, FiniteSets

\* The absent side of a file pair, the owner of a module-level call, a target
\* that is not a definition of the repository.
CONSTANT None

-----------------------------------------------------------------------------
(***************************************************************************)
(* changes.py: A, M, T, D and R entries of git diff over *.py.             *)
(***************************************************************************)
\* A rename with one side that is not Python is an addition or a deletion.
FilePair(entry) ==
  [entry EXCEPT !.old = IF entry.status = "A" \/ ~entry.old_python THEN None ELSE @,
                !.new = IF entry.status = "D" \/ ~entry.new_python THEN None ELSE @]

\* Entries of which neither side is Python are dropped.
FilePairs(source) ==
  SelectSeq([i \in DOMAIN source.diff |-> FilePair(source.diff[i])],
            LAMBDA p : p.old # None \/ p.new # None)

(***************************************************************************)
(* symbols.py: extract_changed_symbols.                                    *)
(***************************************************************************)
Sides(p) == {side \in {"old", "new"} : p[side] # None}

\* How many snapshots the pairs before pair i ask for.
SidesBefore(pairs, i) ==
  LET before[k \in 1..i] == IF k = 1 THEN 0 ELSE before[k - 1] + Cardinality(Sides(pairs[k - 1]))
  IN  before[i]

\* A side is read within the snapshot limit, baseline first, if it can be.
ReadSide(source, pairs, i, side) ==
  /\ pairs[i][side] # None /\ side \in pairs[i].readable
  /\ SidesBefore(pairs, i) + (IF side = "new" /\ pairs[i].old # None THEN 2 ELSE 1)
       <= source.limits.max_snapshots

\* Same path and both sides read: the owners of the changed lines.  Otherwise every
\* scope of what was read, conservatively.
SymbolsOf(source, pairs, i) ==
  LET p == pairs[i]
      read == {side \in {"old", "new"} : ReadSide(source, pairs, i, side)}
  IN  IF read = {"old", "new"} /\ p.old = p.new
      THEN p.touched
      ELSE UNION {p.scopes[side] : side \in read}

ChangedSymbols(source) ==
  LET pairs == FilePairs(source) IN
  UNION {SymbolsOf(source, pairs, i) : i \in DOMAIN pairs}

ChangeComplete(source) ==
  LET pairs == FilePairs(source) IN
  \A i \in DOMAIN pairs, side \in {"old", "new"} :
     pairs[i][side] # None => ReadSide(source, pairs, i, side)

-----------------------------------------------------------------------------
(***************************************************************************)
(* graph.py: build_repository_graph.                                       *)
(***************************************************************************)
Eligible(source) == {i \in DOMAIN source.files : source.files[i].kind \in {"python", "load"}}

\* The bytes read before file i: of the regular blobs that fit both size limits.
Fits(source, i, total) ==
  /\ source.files[i].blob # "unsupported"
  /\ source.files[i].size <= source.limits.max_blob_bytes
  /\ total + source.files[i].size <= source.limits.max_total_bytes
BytesBefore(source) ==
  LET bytes[i \in 1..Len(source.files) + 1] ==
        IF i = 1 THEN 0
        ELSE bytes[i - 1] + IF i - 1 \in Eligible(source) /\ Fits(source, i - 1, bytes[i - 1])
                            THEN source.files[i - 1].size ELSE 0
  IN  bytes

\* The files that are parsed: the first max_files eligible ones that can be read.
Parsed(source) ==
  {i \in Eligible(source) :
     /\ Cardinality({j \in Eligible(source) : j <= i}) <= source.limits.max_files
     /\ Fits(source, i, BytesBefore(source)[i])
     /\ source.files[i].blob = "ok"}

Defined(source) == {d \in DOMAIN source.definitions : source.definitions[d].file \in Parsed(source)}
Statements(source) == {s \in source.statements : s.file \in Parsed(source)}

\* How a statement is taken:
\*   "literal"      as it stands;
\*   "computed"     noticed, and given up: a route, prefix, URL or SQL text that is
\*                  no literal, an import that several files answer to;
\*   "passed_over"  not noticed: a decorator on a receiver that is not bound to
\*                  FastAPI or APIRouter at the top level of its own file, an
\*                  include_router of a router from elsewhere, the computed ones of
\*                  several methods, an import inside a function or a guard, a call
\*                  through a name that such an import, a parameter or a variable
\*                  binds, SQL that is not an execute() or names its table in
\*                  quotes, a request in a load script that is not http.<method>(;
\*   "misread"      as another one, whose target is s.read: a route without the
\*                  prefix that an include_router passed over gives it, the first
\*                  literal of a URL put together from several.
AsRead(s) ==
  CASE s.form = "misread" /\ s.kind = "load" -> [s EXCEPT !.from = s.read]
    [] s.form = "misread" /\ s.kind # "load" -> [s EXCEPT !.to = s.read]
    [] OTHER -> s

\* Calls and SQL outside definitions are not visited.
Noticed(s) == s.form # "passed_over" /\ (s.from = None => s.kind \notin {"call", "sql"})

\* Endpoints become nodes by the decorators that are read.
Served(source) ==
  {AsRead(s).to : s \in {t \in Statements(source) :
                         t.kind = "endpoint" /\ t.form \in {"literal", "misread"}}}

\* A call of what no parsed file could define.
Elsewhere(source, s) ==
  /\ s.kind = "call"
  /\ AsRead(s).to \notin Defined(source) /\ s.target_file \notin Parsed(source)

\* What a statement that is not given up needs to become an edge.
Resolvable(source, s) ==
  CASE s.kind = "call" -> AsRead(s).to \in Defined(source)
    [] s.kind = "import" -> s.target_file \in Parsed(source)
    [] s.kind = "load" -> AsRead(s).from \in Served(source)
    [] OTHER -> TRUE

\* What a statement does to the relationship counts: "edge" is an attempt that was
\* resolved, "unresolved" one that was not, "silent" no attempt at all.
Outcome(source, s) ==
  IF ~Noticed(s) \/ Elsewhere(source, s) THEN "silent"
  ELSE IF s.form # "computed" /\ Resolvable(source, s) THEN "edge"
  ELSE "unresolved"

\* The edges of a resolved statement.
EdgesOf(source, s) ==
  CASE s.kind = "call" ->
         {[from |-> s.from, type |-> "CALLS", to |-> s.to]} \union
         IF source.definitions[s.from].type = "TEST"
         THEN {[from |-> s.to, type |-> "TESTED_BY", to |-> s.from]} ELSE {}
    [] s.kind = "sql" -> {[from |-> s.from, type |-> s.access, to |-> s.to]}
    [] s.kind = "endpoint" -> {[from |-> s.from, type |-> "SERVES_ENDPOINT", to |-> s.to]}
    [] s.kind = "load" -> {[from |-> s.from, type |-> "VALIDATED_BY", to |-> s.to]}
    [] OTHER -> {}  \* imports and routers, which the search does not follow

ResolvedStatements(source) ==
  {s \in Statements(source) : Outcome(source, s) = "edge"}

MissingSymbolsIgnored(source) == {}
\* changed_symbol_missing_from_candidate: deleted definitions and module scopes.
MissingSymbols(source) == ChangedSymbols(source) \ Defined(source)

\* The snapshot: types, changed nodes and edges, and whether completeness is 1.
Snapshot(source, types) ==
  [types |-> types,
   changed |-> ChangedSymbols(source) \intersect Defined(source),
   edges |-> UNION {EdgesOf(source, AsRead(s)) : s \in ResolvedStatements(source)}]
Complete(source) ==
  /\ ChangeComplete(source)
  /\ Parsed(source) = Eligible(source)
  /\ \A s \in Statements(source) : Outcome(source, s) # "unresolved"
  /\ MissingSymbols(source) = {}
=============================================================================
