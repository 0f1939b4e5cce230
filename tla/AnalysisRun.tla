---------------------------- MODULE AnalysisRun ----------------------------
(***************************************************************************)
(* lou.application.analysis over the SQL store of                          *)
(* lou.application.persistence: one repository, requests that may be       *)
(* identical (the same deduplication key), and clients (API threads, CLI   *)
(* processes) that each run their request to the end themselves.  Every    *)
(* transaction and every stage is a step.  The variants ...AdoptsQueued,   *)
(* ...WhateverBaseline, ...Anyway, ...Unguarded and ...Returns are         *)
(* deliberately wrong and used by no specification.                        *)
(***************************************************************************)
EXTENDS Integers, FiniteSets

CONSTANTS
  None,
  Clients,
  Keys,          \* deduplication keys of the requests
  Workloads,     \* what may be selected in this repository
  Faults,        \* subset of {"crash", "stage", "store", "telemetry"}
  MaxEdits,      \* bound on the edits of the workload definitions
  MaxRequests    \* bound on the requests of one client

ASSUME AnalysisAssumption ==
  /\ Faults \subseteq {"crash", "stage", "store", "telemetry"}
  /\ MaxEdits \in Nat /\ MaxRequests \in Nat
  /\ None \notin Keys /\ None \notin {"passed", "failed", "inconclusive"}

VARIABLES
  status,       \* analysis_runs: key -> status
  rows,         \* what is recorded for the run of a key
  registered,   \* workloads: workload -> hash of its definition, or None
  edition,      \* which edition the definition files on disk are
  pc, key,      \* where each client is, and the request it serves
  chosen, todo, \* the selected workloads, and those still to be registered
  adding,       \* [workload, edition] about to be inserted
  measured,     \* a verdict that is not recorded yet
  ending,       \* the status it is about to finish with
  sent, reply   \* reply: [key, status]

stored == <<status, rows, registered, edition>>
client == <<pc, key, chosen, todo, adding, measured, ending, sent, reply>>
vars == <<stored, client>>

Registry == INSTANCE RunRegistry

Terminal == {"succeeded", "failed", "inconclusive"}
Verdicts == {"passed", "failed", "inconclusive"}
NoRows == [forecast |-> FALSE, prediction |-> FALSE, context |-> FALSE, decision |-> FALSE,
           baseline |-> None, candidate |-> None, observed |-> {}]

Goto(c, label) == pc' = [pc EXCEPT ![c] = label]

Answer(c, answer) ==
  /\ reply' = [reply EXCEPT ![c] = [key |-> key[c], status |-> answer]]
  /\ key' = [key EXCEPT ![c] = None]
  /\ chosen' = [chosen EXCEPT ![c] = {}]
  /\ todo' = [todo EXCEPT ![c] = {}]
  /\ adding' = [adding EXCEPT ![c] = None]
  /\ measured' = [measured EXCEPT ![c] = None]
  /\ ending' = [ending EXCEPT ![c] = None]
  /\ Goto(c, "idle")
  /\ UNCHANGED sent

\* The client only moves on, or on to its end.
Onward(c, label) == Goto(c, label) /\ UNCHANGED <<key, chosen, todo, adding, measured, ending, sent, reply>>
End(c, with) ==
  /\ ending' = [ending EXCEPT ![c] = with]
  /\ Goto(c, "finish")
  /\ UNCHANGED <<key, chosen, todo, adding, measured, sent, reply>>

Record(c, row) ==
  /\ rows' = [rows EXCEPT ![key[c]] = row]
  /\ UNCHANGED <<status, registered, edition>>
Row(c) == rows[key[c]]

Init ==
  /\ status = [k \in Keys |-> "absent"] /\ rows = [k \in Keys |-> NoRows]
  /\ registered = [w \in Workloads |-> None] /\ edition = 0
  /\ pc = [c \in Clients |-> "idle"] /\ key = [c \in Clients |-> None]
  /\ chosen = [c \in Clients |-> {}] /\ todo = [c \in Clients |-> {}]
  /\ adding = [c \in Clients |-> None] /\ measured = [c \in Clients |-> None]
  /\ ending = [c \in Clients |-> None] /\ sent = [c \in Clients |-> 0]
  /\ reply = [c \in Clients |-> [key |-> None, status |-> "none"]]

\* Somebody edits the workload definitions in the repository.
Edit ==
  /\ edition < MaxEdits
  /\ edition' = edition + 1
  /\ UNCHANGED <<status, rows, registered, client>>

-----------------------------------------------------------------------------
(* A request up to its run.                                                *)

Begin(c) ==
  /\ pc[c] = "idle" /\ sent[c] < MaxRequests
  /\ \E k \in Keys : key' = [key EXCEPT ![c] = k]
  /\ sent' = [sent EXCEPT ![c] = @ + 1]
  /\ Goto(c, "create")
  /\ UNCHANGED <<stored, chosen, todo, adding, measured, ending, reply>>

\* create_or_get(): the unique key makes one request the run's owner; the
\* others are told the status of the run that exists.
Reused(s) == IF s = "queued" THEN "running" ELSE s

CreateAdoptsQueued(c) ==
  /\ pc[c] = "create"
  /\ \/ /\ status[key[c]] \in {"absent", "queued"}
        /\ status' = [status EXCEPT ![key[c]] = "queued"]
        /\ Onward(c, "start")
     \/ /\ status[key[c]] \notin {"absent", "queued"}
        /\ Answer(c, status[key[c]])
        /\ UNCHANGED status
  /\ UNCHANGED <<rows, registered, edition>>

Create(c) ==
  /\ pc[c] = "create"
  /\ \/ /\ status[key[c]] = "absent"
        /\ status' = [status EXCEPT ![key[c]] = "queued"]
        /\ Onward(c, "start")
     \/ /\ status[key[c]] # "absent"
        /\ Answer(c, Reused(status[key[c]]))
        /\ UNCHANGED status
  /\ UNCHANGED <<rows, registered, edition>>

Start(c) ==
  /\ pc[c] = "start" /\ status[key[c]] = "queued"
  /\ status' = [status EXCEPT ![key[c]] = "running"]
  /\ Onward(c, "inspect")
  /\ UNCHANGED <<rows, registered, edition>>

-----------------------------------------------------------------------------
(* The stages.                                                             *)

\* inspect() and select(); a prediction comes with the context or does not.
Inspect(c) ==
  /\ pc[c] = "inspect"
  /\ \E ws \in SUBSET Workloads :
       chosen' = [chosen EXCEPT ![c] = ws] /\ todo' = [todo EXCEPT ![c] = ws]
  /\ \E label \in {"forecast", "register"} : Goto(c, label)
  /\ UNCHANGED <<stored, key, adding, measured, ending, sent, reply>>

\* record_prediction(): its evidence, then its row.
Forecast(c) ==
  /\ pc[c] = "forecast"
  /\ Record(c, [Row(c) EXCEPT !.forecast = TRUE])
  /\ Onward(c, "prediction")

Prediction(c) ==
  /\ pc[c] = "prediction"
  /\ Record(c, [Row(c) EXCEPT !.prediction = TRUE])
  /\ Onward(c, "register")

\* record_context() registers the workloads one by one; one that is registered
\* with another definition fails the run.
Register(c) ==
  /\ pc[c] = "register" /\ todo[c] # {}
  /\ \E w \in todo[c] :
       CASE registered[w] = None ->
              /\ adding' = [adding EXCEPT ![c] = [workload |-> w, edition |-> edition]]
              /\ Goto(c, "insert")
              /\ UNCHANGED <<todo, ending>>
         [] registered[w] = edition ->
              /\ todo' = [todo EXCEPT ![c] = @ \ {w}]
              /\ UNCHANGED <<pc, adding, ending>>
         [] OTHER ->
              /\ ending' = [ending EXCEPT ![c] = "failed"]
              /\ Goto(c, "finish")
              /\ UNCHANGED <<todo, adding>>
  /\ UNCHANGED <<stored, key, chosen, measured, sent, reply>>

\* The insert, unless another run's came first.
Insert(c) ==
  /\ pc[c] = "insert"
  /\ LET w == adding[c].workload IN
     \/ /\ registered[w] = None
        /\ registered' = [registered EXCEPT ![w] = adding[c].edition]
        /\ todo' = [todo EXCEPT ![c] = @ \ {w}]
        /\ adding' = [adding EXCEPT ![c] = None]
        /\ Goto(c, "register")
        /\ UNCHANGED <<key, chosen, measured, ending, sent, reply>>
     \/ registered[w] # None /\ End(c, "failed") /\ UNCHANGED registered
  /\ UNCHANGED <<status, rows, edition>>

ContextReturns(c) ==
  /\ pc[c] = "register" /\ todo[c] = {}
  /\ Record(c, [Row(c) EXCEPT !.context = TRUE])
  /\ IF chosen[c] = {} THEN Answer(c, "inconclusive") ELSE Onward(c, "baseline")

Context(c) ==
  /\ pc[c] = "register" /\ todo[c] = {}
  /\ Record(c, [Row(c) EXCEPT !.context = TRUE])
  /\ IF chosen[c] = {} THEN End(c, "inconclusive") ELSE Onward(c, "baseline")

\* measure_baseline() and measure_candidate().
Measure(c) ==
  /\ pc[c] \in {"baseline", "candidate"}
  /\ \E v \in Verdicts : measured' = [measured EXCEPT ![c] = v]
  /\ Goto(c, IF pc[c] = "baseline" THEN "record_baseline" ELSE "record_candidate")
  /\ UNCHANGED <<stored, key, chosen, todo, adding, ending, sent, reply>>

RecordBaseline(c) ==
  /\ pc[c] = "record_baseline"
  /\ Record(c, [Row(c) EXCEPT !.baseline = measured[c]])
  /\ Onward(c, "observe_baseline")

RecordCandidate(c) ==
  /\ pc[c] = "record_candidate"
  /\ Record(c, [Row(c) EXCEPT !.candidate = measured[c]])
  /\ Onward(c, "observe_candidate")

\* _record_runtime_evidence(): what the store refuses is lost, nothing else.
Observes(c, phase) ==
  \/ Record(c, [Row(c) EXCEPT !.observed = @ \union {phase}])
  \/ "telemetry" \in Faults /\ UNCHANGED stored

Observe(c) ==
  \/ pc[c] = "observe_baseline" /\ Observes(c, "baseline") /\ Onward(c, "judge_baseline")
  \/ pc[c] = "observe_candidate" /\ Observes(c, "candidate") /\ Onward(c, "judge_candidate")

\* Only a baseline that passed is compared with, and only a conclusive
\* candidate is decided about.
JudgeWhateverBaseline(c) ==
  /\ \/ pc[c] = "judge_baseline" /\ Onward(c, "candidate")
     \/ pc[c] = "judge_candidate" /\ IF measured[c] = "inconclusive" THEN End(c, "inconclusive")
                                     ELSE Onward(c, "decide")
  /\ UNCHANGED stored

Judge(c) ==
  /\ \/ pc[c] = "judge_baseline" /\ IF measured[c] # "passed" THEN End(c, "inconclusive")
                                    ELSE Onward(c, "candidate")
     \/ pc[c] = "judge_candidate" /\ IF measured[c] = "inconclusive" THEN End(c, "inconclusive")
                                     ELSE Onward(c, "decide")
  /\ UNCHANGED stored

Decide(c) ==
  /\ pc[c] = "decide"
  /\ Record(c, [Row(c) EXCEPT !.decision = TRUE])
  /\ End(c, "succeeded")

\* finish(): only a running run is finalized.
FinishUnguarded(c) ==
  /\ pc[c] = "finish"
  /\ status' = [status EXCEPT ![key[c]] = ending[c]]
  /\ Answer(c, ending[c])
  /\ UNCHANGED <<rows, registered, edition>>

FinishAnyway(c) ==
  /\ pc[c] = "finish"
  /\ status' = IF status[key[c]] = "running" THEN [status EXCEPT ![key[c]] = ending[c]] ELSE status
  /\ Answer(c, ending[c])
  /\ UNCHANGED <<rows, registered, edition>>

Finish(c) ==
  /\ pc[c] = "finish"
  /\ \/ /\ status[key[c]] = "running"
        /\ status' = [status EXCEPT ![key[c]] = ending[c]]
        /\ Answer(c, ending[c])
     \/ /\ status[key[c]] # "running"
        /\ Answer(c, IF status[key[c]] = ending[c] THEN ending[c] ELSE "error")
        /\ UNCHANGED status
  /\ UNCHANGED <<rows, registered, edition>>

-----------------------------------------------------------------------------
(* Faults.                                                                 *)

\* A stage raises: the run is finished as failed.
StageRaises(c) ==
  /\ "stage" \in Faults /\ pc[c] \in {"inspect", "baseline", "candidate", "decide"}
  /\ End(c, "failed")
  /\ UNCHANGED stored

\* The store raises before it commits.  Outside the stages nobody handles it.
StoreRaises(c) ==
  /\ "store" \in Faults
  /\ \/ pc[c] \in {"create", "start"} /\ Answer(c, "error")
     \/ /\ pc[c] \in {"forecast", "prediction", "register", "insert", "record_baseline",
                      "record_candidate"}
        /\ End(c, "failed")
     \/ /\ pc[c] = "finish"
        /\ IF ending[c] = "failed" THEN Answer(c, "error") ELSE End(c, "failed")
  /\ UNCHANGED stored

\* The connection is lost after finish() committed: the run is finished a
\* second time, as failed.
FinishUnacknowledged(c) ==
  /\ "store" \in Faults /\ pc[c] = "finish" /\ ending[c] # "failed"
  /\ status[key[c]] = "running"
  /\ status' = [status EXCEPT ![key[c]] = ending[c]]
  /\ End(c, "failed")
  /\ UNCHANGED <<rows, registered, edition>>

Crash(c) ==
  /\ "crash" \in Faults /\ pc[c] # "idle"
  /\ Answer(c, "none")
  /\ UNCHANGED stored

Serve(c) ==
  \/ Create(c) \/ Start(c) \/ Inspect(c) \/ Forecast(c) \/ Prediction(c) \/ Register(c)
  \/ Insert(c) \/ Context(c) \/ Measure(c) \/ RecordBaseline(c) \/ RecordCandidate(c)
  \/ Observe(c) \/ Judge(c) \/ Decide(c) \/ Finish(c)
  \/ StageRaises(c) \/ StoreRaises(c) \/ FinishUnacknowledged(c)

Next == Edit \/ \E c \in Clients : Begin(c) \/ Serve(c) \/ Crash(c)

Spec == Init /\ [][Next]_vars

-----------------------------------------------------------------------------
(* Properties.                                                             *)

Driving(c) == pc[c] \notin {"idle", "create"}

TypeOK ==
  /\ \A k \in Keys :
       /\ status[k] \in {"absent", "queued", "running"} \union Terminal
       /\ rows[k].baseline \in Verdicts \union {None}
       /\ rows[k].candidate \in Verdicts \union {None}
  /\ \A w \in Workloads : registered[w] \in 0..MaxEdits \union {None}
  /\ \A c \in Clients :
       /\ pc[c] # "idle" <=> key[c] # None
       /\ todo[c] \subseteq chosen[c]
       /\ pc[c] = "insert" => adding[c].workload \in todo[c] /\ adding[c].edition <= edition
       /\ pc[c] = "finish" <=> ending[c] # None

\* One client at a time drives a run, so that identical concurrent requests do
\* not measure twice ("identical immutable inputs reuses the same run").
OneDriver ==
  \A c, d \in Clients : Driving(c) /\ Driving(d) /\ key[c] = key[d] => c = d

\* What a terminal status says is in the database: a succeeded run has a
\* context, a passed baseline, a conclusive candidate and a decision; an
\* inconclusive one has a context, is undecided, and lacks a comparison.
StatusMatchesEvidence ==
  \A k \in Keys : LET r == rows[k] IN
    /\ status[k] = "succeeded" =>
         r.context /\ r.decision /\ r.baseline = "passed" /\ r.candidate \in {"passed", "failed"}
    /\ status[k] = "inconclusive" =>
         /\ r.context /\ ~r.decision
         /\ r.baseline # "passed" \/ r.candidate = "inconclusive"

\* A terminal answer is the run's status for good, also when finalizing failed
\* half way.
AnswersFinal ==
  \A c \in Clients : reply[c].status \in Terminal => status[reply[c].key] = reply[c].status

\* The service uses its store as the reference repository allows.
ImplementsRegistry == Registry!Spec

\* No run is left behind: one that has not ended is driven by somebody, or the
\* client that drove it was told of an error of the store, or died.  (That
\* client's latest answer is its only one when it sends one request.)
NoRunLeftBehind ==
  \A k \in Keys : status[k] \in {"queued", "running"} =>
    \E c \in Clients : \/ Driving(c) /\ key[c] = k
                       \/ reply[c].key = k /\ reply[c].status \in {"error", "none"}

-----------------------------------------------------------------------------
(* What the repository says and the code does not do.                      *)

\* "Duplicate requests return or resume the existing run": a request that is
\* told the run is running is not told so of a run nobody runs.
RunningIsDriven ==
  [][\A c \in Clients :
       pc[c] = "create" /\ pc'[c] = "idle" /\ reply'[c].status = "running"
         => \E d \in Clients : Driving(d) /\ key[d] = key[c]]_vars
=============================================================================
