---------------------------- MODULE Remediation ----------------------------
(***************************************************************************)
(* Durable remediation: lou.application.remediation_runs drives the stages *)
(* of the orchestrator for one remediation request and stores a snapshot   *)
(* and an audit row after each.  Several executors (API threads, CLI       *)
(* processes) may serve the same request: there is no lease, only unique   *)
(* keys.  Each database transaction, and where a transaction reads before  *)
(* it writes under READ COMMITTED each half of it, is one action.          *)
(* The variants named ...Again, ...Anyway, ...Verified and ...Stopped are  *)
(* deliberately wrong and used by no specification.                        *)
(***************************************************************************)
EXTENDS OrchestratorStages

CONSTANTS
  Executors,
  Faults,       \* subset of {"crash", "step", "verifier", "abandon"}
  MaxRequests   \* bound on the requests one executor serves

ASSUME RemediationAssumption ==
  /\ Faults \subseteq {"crash", "step", "verifier", "abandon"} /\ MaxRequests \in Nat
  /\ None \notin States

VARIABLES
  run,        \* the agent_runs row: [status, snapshot]
  audit,      \* the remediation_attempts rows: [key, value]
  evidence,   \* the fix rows of verification_runs
  artifacts,  \* the patch_artifacts rows
  fixes,      \* how many fix commits verifiers have made
  pc,         \* where each executor is
  held,       \* the snapshot its loop continues from
  made,       \* the row it is about to store
  loaded,     \* the row its transaction has read
  cache,      \* the verdict its FixVerifier keeps: [attempt, patch, status, commit]
  sent,       \* how many requests it has begun
  reply       \* answer to its latest request

stored   == <<run, audit, evidence, artifacts, fixes>>
executor == <<pc, held, made, loaded, cache, sent, reply>>
vars     == <<stored, executor>>

Terminal == {"succeeded", "failed", "abandoned"}
NoRun == [status |-> "absent", snapshot |-> None]

\* _status_for.
StatusForVerified(s) ==
  IF s.stage = "stopped" /\ s.reason = "verified" THEN "succeeded" ELSE "running"

StatusForStopped(s) == IF s.stage = "stopped" THEN "succeeded" ELSE "running"

StatusFor(s) ==
  IF s.stage # "stopped" THEN "running"
  ELSE IF s.reason = "verified" THEN "succeeded" ELSE "abandoned"

\* _attempt_for: the key is what the stage decided, the value also holds the
\* provider's answer, whose elapsed_ms differs from call to call.  (A step that
\* a budget ends before its call is treated as if it had called.)
Transition(e, previous, current) ==
  [status |-> StatusFor(current), snapshot |-> current,
   key |-> <<current.attempts, previous.stage, current.stage, current.cursor,
             Len(current.outcomes), current.reason, current.failure>>,
   value |-> <<current.patch, IF previous.stage \in {"diagnose", "patch"}
                              THEN <<e, sent[e]>> ELSE None>>]

\* _save_failure.
Failure(previous) ==
  [status |-> "failed", snapshot |-> previous,
   key |-> <<"failure", previous.attempts, previous.stage>>, value |-> <<None, None>>]

-----------------------------------------------------------------------------
(* One request: execute() and then _persist_patch_artifact().              *)

Goto(e, label) == pc' = [pc EXCEPT ![e] = label]

Answer(e, answer) ==
  /\ reply' = [reply EXCEPT ![e] = answer]
  /\ held' = [held EXCEPT ![e] = None]
  /\ made' = [made EXCEPT ![e] = None]
  /\ loaded' = [loaded EXCEPT ![e] = None]
  /\ cache' = [cache EXCEPT ![e] = None]
  /\ Goto(e, "idle")
  /\ UNCHANGED sent

Init ==
  /\ run = NoRun /\ audit = {} /\ evidence = {} /\ artifacts = {} /\ fixes = 0
  /\ pc = [e \in Executors |-> "idle"]
  /\ held = [e \in Executors |-> None]
  /\ made = [e \in Executors |-> None]
  /\ loaded = [e \in Executors |-> None]
  /\ cache = [e \in Executors |-> None]
  /\ sent = [e \in Executors |-> 0]
  /\ reply = [e \in Executors |-> "none"]

Begin(e) ==
  /\ pc[e] = "idle" /\ sent[e] < MaxRequests
  /\ sent' = [sent EXCEPT ![e] = @ + 1]
  /\ reply' = [reply EXCEPT ![e] = "none"]
  /\ Goto(e, "create")
  /\ UNCHANGED <<stored, held, made, loaded, cache>>

\* create_or_get() and _restore_state(): the first request inserts a queued row
\* without a snapshot; a later one continues from the snapshot, is told the
\* terminal result, or fails because there is no snapshot yet.
RestoredAgain(row) == Start
Restored(row) == row.snapshot

CreateOrGet(e) ==
  /\ pc[e] = "create"
  /\ \/ /\ run.status = "absent"
        /\ run' = [status |-> "queued", snapshot |-> None]
        /\ held' = [held EXCEPT ![e] = Start]
        /\ Goto(e, "snapshot")
        /\ UNCHANGED <<audit, evidence, artifacts, fixes, made, loaded, cache, sent, reply>>
     \/ /\ run.status # "absent" /\ run.snapshot = None
        /\ Answer(e, "error")
        /\ UNCHANGED stored
     \/ /\ run.status # "absent" /\ run.snapshot # None
        /\ held' = [held EXCEPT ![e] = IF run.status \in Terminal THEN run.snapshot
                                       ELSE Restored(run)]
        /\ Goto(e, IF run.status \in Terminal \/ run.snapshot.stage = "stopped"
                   THEN "artifact" ELSE "step")
        /\ UNCHANGED <<stored, made, loaded, cache, sent, reply>>

\* save_snapshot(); nobody else can have moved a row without a snapshot.
SaveSnapshot(e) ==
  /\ pc[e] = "snapshot"
  /\ run' = [status |-> "running", snapshot |-> held[e]]
  /\ Goto(e, "step")
  /\ UNCHANGED <<audit, evidence, artifacts, fixes, held, made, loaded, cache, sent, reply>>

ToStore(e, row) ==
  /\ made' = [made EXCEPT ![e] = row]
  /\ Goto(e, "load")
  /\ UNCHANGED <<run, audit, artifacts, held, loaded, sent, reply>>

\* step() in every stage but verify works in memory.  Without the fault
\* "abandon" the provider answers with a patch.
Step(e) ==
  /\ pc[e] = "step" /\ held[e].stage # "verify"
  /\ \E s \in Steps(held[e], {}) :
       /\ "abandon" \in Faults
            \/ s.failure \notin {"diagnose_abandoned", "patch_abandoned", "patch_missing"}
       /\ ToStore(e, Transition(e, held[e], s))
  /\ UNCHANGED <<evidence, fixes, cache>>

\* FixVerifier.verify: one run of the patch judges all its workloads and is
\* cached for this attempt and patch; a commit made by another run is another
\* commit.  Without a commit the result names the candidate, commit 0.
Cached(e) == cache[e] # None /\ cache[e].attempt = held[e].attempts
                             /\ cache[e].patch = held[e].patch

Judgements(e) ==
  IF Cached(e) THEN {cache[e]}
  ELSE [attempt : {held[e].attempts}, patch : {held[e].patch}, status : {"passed"},
        commit : {fixes + 1}]
       \union [attempt : {held[e].attempts}, patch : {held[e].patch},
               status : {"failed", "inconclusive"}, commit : {0, fixes + 1}]

Verdict(e, j) ==
  [workload |-> Requested(held[e]), status |-> j.status, own |-> TRUE,
   attempt |-> j.attempt, patch |-> j.patch, commit |-> j.commit]

\* PersistedFixVerifier.verify: the verdict is stored before it is returned.
\* The row is unique per analysis run, workload and phase, since every caller
\* leaves the attempt column at 1: a second one raises, which ends the attempt.
Taken(e) == \E r \in evidence : r.workload = Requested(held[e])

RecordedAnyway(e, s, r) ==
  /\ evidence' = IF Taken(e) THEN evidence ELSE evidence \union {r}
  /\ \E tick \in Ticks : ToStore(e, Transition(e, held[e], Judged(s, r, tick)))

Recorded(e, s, r) ==
  /\ evidence' = IF Taken(e) THEN evidence ELSE evidence \union {r}
  /\ \E tick \in Ticks :
       ToStore(e, Transition(e, held[e], IF Taken(e) THEN Unverified(s, tick)
                                                      ELSE Judged(s, r, tick)))

Verified(e, s) ==
  \/ \E j \in Judgements(e) :
       /\ j.commit \in Commits
       /\ Recorded(e, s, Verdict(e, j))
       /\ cache' = [cache EXCEPT ![e] = j]
       /\ fixes' = IF j.commit > fixes THEN j.commit ELSE fixes
  \/ /\ "verifier" \in Faults
     /\ \E tick \in Ticks : ToStore(e, Transition(e, held[e], Unverified(s, tick)))
     /\ UNCHANGED <<evidence, cache, fixes>>

StepVerify(e) ==
  /\ pc[e] = "step" /\ held[e].stage = "verify"
  /\ \E s \in {Elapse(held[e], tick) : tick \in Ticks} :
       \/ ~BudgetCheck(s) /\ Verified(e, s)
       \/ /\ BudgetCheck(s)
          /\ ToStore(e, Transition(e, held[e], Halt(s)))
          /\ UNCHANGED <<evidence, cache, fixes>>

\* step() raised something it does not catch.
StepRaises(e) ==
  /\ pc[e] = "step" /\ "step" \in Faults
  /\ ToStore(e, Failure(held[e]))
  /\ UNCHANGED <<evidence, fixes, cache>>

\* persist_stage() reads the row and refuses to reopen a completed one.
Reopens(e) == run.status \in Terminal /\ made[e].status # run.status

PersistLoad(e) ==
  /\ pc[e] = "load"
  /\ \/ Reopens(e) /\ Answer(e, "error")
     \/ /\ ~Reopens(e)
        /\ loaded' = [loaded EXCEPT ![e] = run]
        /\ Goto(e, "store")
        /\ UNCHANGED <<held, made, cache, sent, reply>>
  /\ UNCHANGED stored

\* An audit row with this key and another value rolls the transaction back.
Conflicts(e) == \E row \in audit : row.key = made[e].key /\ row.value # made[e].value

\* The UPDATE names only the columns that differ from the row that was read.
Updated(e) ==
  [status |-> IF made[e].status # loaded[e].status THEN made[e].status ELSE run.status,
   snapshot |-> IF made[e].snapshot # loaded[e].snapshot THEN made[e].snapshot
                ELSE run.snapshot]

PersistStore(e) ==
  /\ pc[e] = "store"
  /\ \/ Conflicts(e) /\ Answer(e, "error") /\ UNCHANGED <<run, audit>>
     \/ /\ ~Conflicts(e)
        /\ run' = Updated(e)
        /\ audit' = audit \union {[key |-> made[e].key, value |-> made[e].value]}
        /\ held' = [held EXCEPT ![e] = made[e].snapshot]
        /\ Goto(e, IF made[e].status = "failed" \/ made[e].snapshot.stage = "stopped"
                   THEN "artifact" ELSE "step")
        /\ made' = [made EXCEPT ![e] = None]
        /\ loaded' = [loaded EXCEPT ![e] = None]
        /\ UNCHANGED <<cache, sent, reply>>
  /\ UNCHANGED <<evidence, artifacts, fixes>>

\* _persist_patch_artifact() for the patch of the returned state.
Retain(e) ==
  /\ pc[e] = "artifact"
  /\ artifacts' = artifacts \union ({held[e].patch} \ {None})
  /\ Answer(e, "ok")
  /\ UNCHANGED <<run, audit, evidence, fixes>>

Crash(e) ==
  /\ pc[e] # "idle" /\ "crash" \in Faults
  /\ Answer(e, "crashed")
  /\ UNCHANGED stored

Serve(e) ==
  \/ CreateOrGet(e) \/ SaveSnapshot(e) \/ Step(e) \/ StepVerify(e) \/ StepRaises(e)
  \/ PersistLoad(e) \/ PersistStore(e) \/ Retain(e)

Next == \E e \in Executors : Begin(e) \/ Serve(e) \/ Crash(e)

Spec == Init /\ [][Next]_vars

\* A request is one straight loop in one thread; each of its calls is bounded.
\* The first request arrives.
FairSpec == Spec /\ \A e \in Executors : WF_vars(Serve(e)) /\ WF_vars(Begin(e))

-----------------------------------------------------------------------------
(* Properties.                                                             *)

Snapshots == States \union {None}
Statuses == {"absent", "queued", "running"} \union Terminal
TypeOK ==
  /\ run.status \in Statuses /\ run.snapshot \in Snapshots
  /\ evidence \subseteq Results /\ artifacts \subseteq Patches /\ fixes \in Commits
  /\ \A e \in Executors :
       /\ held[e] \in Snapshots
       /\ sent[e] \in 0..MaxRequests
       /\ pc[e] \in {"step", "load", "store", "artifact"} => held[e] # None
       /\ pc[e] \in {"load", "store"} <=> made[e] # None
       /\ pc[e] = "store" <=> loaded[e] # None
       /\ cache[e] # None => cache[e].commit \in 0..fixes

\* Every verdict a stored snapshot rests on was stored as evidence first,
\* whichever executor stored the snapshot and whoever crashed in between
\* (PersistedFixVerifier).
EvidenceBacked ==
  run.snapshot # None => Range(run.snapshot.results) \subseteq evidence

\* What a terminal status says is in the store.  A succeeded run has stored passing
\* evidence for every planned workload, of one attempt at one patch on one fix commit:
\* not a mixture of what two executors, or a run before and after a crash, verified.
\* And every terminal run has an audit row saying why it ended so (persist_stage
\* stores both or neither).
TerminalBacked ==
  /\ run.status = "succeeded" =>
       \E patch \in Patches, commit \in Commits, attempt \in 1..MaxAttempts : \A w \in Workloads :
         [workload |-> w, status |-> "passed", own |-> TRUE, attempt |-> attempt,
          patch |-> patch, commit |-> commit] \in evidence
  /\ run.status = "succeeded" => \E row \in audit : Len(row.key) = 7 /\ row.key[6] = "verified"
  /\ run.status = "failed" => \E row \in audit : Len(row.key) = 3
  /\ run.status = "abandoned" =>
       \E row \in audit : Len(row.key) = 7 /\ row.key[3] = "stopped" /\ row.key[6] # "verified"

\* The stored snapshot of a request served by one executor at a time goes
\* through the stages of the loop in memory, however often the executor crashes
\* and the request is repeated.
Orch == INSTANCE Orchestrator
  WITH state <- IF run.snapshot = None THEN Start ELSE run.snapshot
ImplementsOrchestrator == Orch!Spec

\* A run that is worked on ends unless its executor dies: budgets, attempts and
\* failures all lead to a terminal status.
WorkEnds ==
  \A e \in Executors : pc[e] \in {"snapshot", "step"} ~>
    run.status \in Terminal \/ reply[e] = "crashed"

-----------------------------------------------------------------------------
(* What the repository says and the code does not do.                      *)

\* "a completed remediation run cannot be reopened": nor changed into another
\* completed run.
NotReopened == [][run.status \in Terminal => run'.status = run.status]_vars

\* "The system can resume safely after a process restart at every stage
\* boundary": when nobody works on a run, a request can resume it.
AlwaysResumable ==
  run.status # "absent" /\ (\A e \in Executors : pc[e] = "idle") => run.snapshot # None

\* "a process restart resumes from each stage without recreating prior
\* verification evidence": a patch all of whose workloads have passed, on one
\* commit, is not abandoned.
PassedIsNotAbandoned ==
  run.status = "abandoned" =>
    ~ \E commit \in Commits : \A w \in Workloads : \E r \in evidence :
        /\ r.workload = w /\ r.status = "passed"
        /\ r.patch = run.snapshot.patch /\ r.commit = commit

\* "For every accepted patch" fix evidence is persisted "before the decision
\* stage receives a verdict".
AcceptedHasEvidence ==
  run.snapshot # None =>
    (run.snapshot.stage = "decide" /\ run.snapshot.accepted /\ run.snapshot.pending = "none"
       => \E r \in evidence : r.patch = run.snapshot.patch)

\* "duplicate/resume/concurrent agent-run requests are idempotent".
RequestsIdempotent == \A e \in Executors : reply[e] # "error"
=============================================================================
