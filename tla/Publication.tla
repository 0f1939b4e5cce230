---------------------------- MODULE Publication ----------------------------
(***************************************************************************)
(* lou.application.publication: dry runs and pull requests for one         *)
(* remediation run.  A plan is identified by the run and the hash of the   *)
(* evidence report, so here by the version of the evidence; the first      *)
(* record stored for a plan is its outcome.  Clients are API threads and   *)
(* CLI processes; every database session and the call of the GitHub CLI is *)
(* a step of its own.  The variants named ...AtAnyLevel, ...OwnStatus and  *)
(* ...Optimistic are deliberately wrong and                                *)
(* used by no specification.                                               *)
(***************************************************************************)
EXTENDS Integers, Sequences, FiniteSets

CONSTANTS
  None,
  Clients,
  Faults,        \* subset of {"crash", "timeout", "refused"}
  MaxEvidence,   \* bound on the evidence report's versions
  MaxRequests    \* bound on the requests of one client

Plans == 0..MaxEvidence

\* The snapshot is empty, mid-loop, or stopped: not verified ("declined"), or
\* verified with a decision below open_pr (written "generate_patch") or open_pr.
Unfinished == {"unstarted", "unfinished"}
Finished == {"declined", "generate_patch", "open_pr"}

\* What may be recorded for a plan: published outcomes refer to a pull request.
Statuses == {"dry_run", "published", "denied", "failed"}
Outcomes == [status : Statuses, reference : Nat \union {None}]

ASSUME PublicationAssumption ==
  /\ Faults \subseteq {"crash", "timeout", "refused"}
  /\ MaxEvidence \in Nat /\ MaxRequests \in Nat
  /\ None \notin Plans /\ None \notin Unfinished \union Finished
  /\ None \notin Outcomes /\ None \notin Nat

VARIABLES
  remediation,  \* what the snapshot of the agent_runs row says
  granted,      \* history: whether it ever said open_pr
  evidence,     \* version of the evidence report
  records,      \* publication_attempts: plan -> [status, reference] or None
  pulls,        \* the pull requests at GitHub: [plan, open]
  pc, op,       \* where each client is, and what it serves
  seen,         \* the snapshot its plan was made from
  plan,         \* the plan it made
  outcome,      \* what it is about to record
  sent,
  reply         \* [status, plan] of its latest request

stored == <<remediation, granted, evidence, records, pulls>>
client == <<pc, op, seen, plan, outcome, sent, reply>>
vars == <<stored, client>>

DryRunAllowed(s) == s \in {"generate_patch", "open_pr"}

PublishAllowedAtAnyLevel(s) == DryRunAllowed(s)
PublishAllowed(s) == DryRunAllowed(s) /\ s = "open_pr"

\* What is answered about no plan.
Silence == [status |-> "none", plan |-> None]
Error == [status |-> "error", plan |-> None]

Goto(c, label) == pc' = [pc EXCEPT ![c] = label]

Answer(c, answer) ==
  /\ reply' = [reply EXCEPT ![c] = answer]
  /\ seen' = [seen EXCEPT ![c] = None]
  /\ plan' = [plan EXCEPT ![c] = None]
  /\ outcome' = [outcome EXCEPT ![c] = None]
  /\ Goto(c, "idle")
  /\ UNCHANGED <<op, sent>>

ToSave(c, status, reference) ==
  /\ outcome' = [outcome EXCEPT ![c] = [status |-> status, reference |-> reference]]
  /\ Goto(c, "save")

Recorded(p) == [status |-> records[p].status, plan |-> p]

Init ==
  /\ remediation = "unstarted" /\ granted = FALSE /\ evidence = 0
  /\ records = [p \in Plans |-> None] /\ pulls = <<>>
  /\ pc = [c \in Clients |-> "idle"] /\ op = [c \in Clients |-> "none"]
  /\ seen = [c \in Clients |-> None] /\ plan = [c \in Clients |-> None]
  /\ outcome = [c \in Clients |-> None] /\ sent = [c \in Clients |-> 0]
  /\ reply = [c \in Clients |-> Silence]

-----------------------------------------------------------------------------
(* Around the service.                                                     *)

\* An executor stores the snapshot of its stage.  persist_stage() refuses to
\* reopen a completed run, but judges by the row as its transaction read it,
\* without a lock: of any number of executors, one that read the row while it was
\* running replaces whatever it says by now, a finished snapshot included
\* (Remediation has the two halves of the transaction; NotReopened there).
Remediate ==
  /\ remediation' \in (Unfinished \union Finished) \ {"unstarted"}
  /\ granted' = (granted \/ remediation' = "open_pr")
  /\ UNCHANGED <<evidence, records, pulls, client>>

\* A verification bundle joins what the report is read from.
Measure ==
  /\ evidence < MaxEvidence
  /\ evidence' = evidence + 1
  /\ UNCHANGED <<remediation, granted, records, pulls, client>>

\* A reviewer closes a pull request.
Close ==
  /\ \E i \in DOMAIN pulls : pulls[i].open /\ pulls' = [pulls EXCEPT ![i].open = FALSE]
  /\ UNCHANGED <<remediation, granted, evidence, records, client>>

-----------------------------------------------------------------------------
(* One request.                                                            *)

Begin(c) ==
  /\ pc[c] = "idle" /\ sent[c] < MaxRequests
  /\ sent' = [sent EXCEPT ![c] = @ + 1]
  /\ \E o \in {"dry_run", "publish"} : op' = [op EXCEPT ![c] = o]
  /\ Goto(c, "run")
  /\ UNCHANGED <<stored, seen, plan, outcome, reply>>

\* _plan() reads the run in one session; an empty snapshot is an error.
ReadRun(c) ==
  /\ pc[c] = "run"
  /\ \/ remediation = "unstarted" /\ Answer(c, Error)
     \/ /\ remediation # "unstarted"
        /\ seen' = [seen EXCEPT ![c] = remediation]
        /\ Goto(c, "report")
        /\ UNCHANGED <<op, plan, outcome, sent, reply>>
  /\ UNCHANGED stored

\* ... and the evidence report in the next one.
ReadReport(c) ==
  /\ pc[c] = "report"
  /\ plan' = [plan EXCEPT ![c] = evidence]
  /\ IF op[c] = "dry_run"
     THEN ToSave(c, IF DryRunAllowed(seen[c]) THEN "dry_run" ELSE "denied", None)
     ELSE IF PublishAllowed(seen[c]) THEN Goto(c, "existing") /\ UNCHANGED outcome
     ELSE ToSave(c, "denied", None)
  /\ UNCHANGED <<stored, op, seen, sent, reply>>

\* _existing().
LookUp(c) ==
  /\ pc[c] = "existing"
  /\ IF records[plan[c]] # None THEN Answer(c, Recorded(plan[c]))
     ELSE Goto(c, "call") /\ UNCHANGED <<op, seen, plan, outcome, sent, reply>>
  /\ UNCHANGED stored

\* gh pr create; the branch of a remediation run has one open pull request.
Creates(c) ==
  /\ \A i \in DOMAIN pulls : ~pulls[i].open
  /\ pulls' = Append(pulls, [plan |-> plan[c], open |-> TRUE])

CallOptimistic(c) ==
  /\ pc[c] = "call"
  /\ \/ Creates(c) /\ ToSave(c, "published", Len(pulls'))
     \/ UNCHANGED pulls /\ ToSave(c, "published", Len(pulls))
  /\ UNCHANGED <<remediation, granted, evidence, records, op, seen, plan, sent, reply>>

Call(c) ==
  /\ pc[c] = "call"
  /\ \/ Creates(c) /\ ToSave(c, "published", Len(pulls'))
     \/ "timeout" \in Faults /\ Creates(c) /\ ToSave(c, "failed", None)
     \/ /\ "refused" \in Faults \/ \E i \in DOMAIN pulls : pulls[i].open
        /\ UNCHANGED pulls
        /\ ToSave(c, "failed", None)
  /\ UNCHANGED <<remediation, granted, evidence, records, op, seen, plan, sent, reply>>

\* _save(): the record that is there is the answer.
SaveRead(c) ==
  /\ pc[c] = "save"
  /\ IF records[plan[c]] # None THEN Answer(c, Recorded(plan[c]))
     ELSE Goto(c, "insert") /\ UNCHANGED <<op, seen, plan, outcome, sent, reply>>
  /\ UNCHANGED stored

\* The insert, unless another client's came first: the unique key raises what
\* nobody catches.
SaveInsertOwnStatus(c) ==
  /\ pc[c] = "insert"
  /\ records' = IF records[plan[c]] = None THEN [records EXCEPT ![plan[c]] = outcome[c]]
                ELSE records
  /\ Answer(c, [status |-> outcome[c].status, plan |-> plan[c]])
  /\ UNCHANGED <<remediation, granted, evidence, pulls>>

SaveInsert(c) ==
  /\ pc[c] = "insert"
  /\ \/ records[plan[c]] # None /\ Answer(c, Error) /\ UNCHANGED records
     \/ /\ records[plan[c]] = None
        /\ records' = [records EXCEPT ![plan[c]] = outcome[c]]
        /\ Answer(c, [status |-> outcome[c].status, plan |-> plan[c]])
  /\ UNCHANGED <<remediation, granted, evidence, pulls>>

Crash(c) ==
  /\ pc[c] # "idle" /\ "crash" \in Faults
  /\ Answer(c, Silence)
  /\ UNCHANGED stored

Next ==
  \/ Remediate \/ Measure \/ Close
  \/ \E c \in Clients :
       Begin(c) \/ ReadRun(c) \/ ReadReport(c) \/ LookUp(c) \/ Call(c)
         \/ SaveRead(c) \/ SaveInsert(c) \/ Crash(c)

Spec == Init /\ [][Next]_vars

-----------------------------------------------------------------------------
(* Properties.                                                             *)

TypeOK ==
  /\ remediation \in Unfinished \union Finished /\ evidence \in Plans
  /\ granted \in BOOLEAN
  /\ \A p \in Plans : records[p] # None =>
       records[p].status \in Statuses
         /\ (records[p].reference # None <=> records[p].status = "published")
  /\ \A c \in Clients :
       /\ pc[c] \in {"report", "existing", "call", "save", "insert"} <=> seen[c] # None
       /\ pc[c] \in {"existing", "call", "save", "insert"} <=> plan[c] # None
       /\ pc[c] \in {"save", "insert"} <=> outcome[c] # None

\* A pull request exists only for a run whose stored snapshot said, at some
\* time, verified with an open_pr decision: whatever was read before executors
\* moved the run on, or back, and acted on after, neither a decision that allows
\* a dry run only nor a mixture of two reads opens one.
PullsAuthorized == pulls # <<>> => granted

\* An accepted request is answered with the recorded outcome, so that two
\* answers about one plan agree ("repeated publish is idempotent").
AnswersRecorded ==
  \A c \in Clients : reply[c].plan # None =>
    records[reply[c].plan] # None /\ records[reply[c].plan].status = reply[c].status

\* A published outcome refers to a pull request made for its own plan.
PublishedNamesItsPull ==
  \A p \in Plans : records[p] # None /\ records[p].status = "published" =>
    records[p].reference \in DOMAIN pulls /\ pulls[records[p].reference].plan = p

-----------------------------------------------------------------------------
(* What the repository says and the code does not do.                      *)

\* "explicit trusted publish may proceed" when the run is verified with an
\* open_pr decision: it is not answered by an earlier dry run or denial.
PublishProceeds ==
  [][\A c \in Clients : pc[c] = "existing" /\ pc'[c] = "idle" /\ reply'[c] # Silence
       => reply'[c].status \in {"published", "failed"}]_vars

\* "Generated only after independent verification", says the pull request's
\* body: the run it was opened for is on record as verified with an open_pr
\* decision.  An executor that read the row before another one finished it
\* overwrites that record.
PullsStillBacked == pulls # <<>> => remediation = "open_pr"

\* "Trusted publisher failed safely": a plan recorded as failed has no pull
\* request.
FailedSafely ==
  \A p \in Plans : records[p] # None /\ records[p].status = "failed" =>
    \A i \in DOMAIN pulls : pulls[i].plan # p
=============================================================================
