----------------------------- MODULE Deployment -----------------------------
(***************************************************************************)
(* The staging deployment loop of one release ID: clients of the API or    *)
(* the CLI run DeploymentService.release/observe/rollback concurrently     *)
(* against a shared hash-chained journal (lou.deployment.service,          *)
(* lou.deployment.adapters) and an external rollout controller.  Every     *)
(* read of the journal, every write to it and every controller call is a   *)
(* step of its own: the code holds no lock and no transaction across them. *)
(* Release IDs share nothing in the journal, so one is enough.             *)
(* StatusPausedFirst, ConfirmedWhateverStatus, AlreadyCreated,             *)
(* AppendReadLastSequence, ClaimedByNobody,                                *)
(* ContinueUnrecorded, SettledAlike and SettledOnlyForDeploy are           *)
(* deliberately wrong and used by no specification: each is a plausible    *)
(* bug some property must reject.                                          *)
(***************************************************************************)
EXTENDS Sequences, FiniteSets, CanaryPolicy

CONSTANTS
  Clients,      \* API worker threads and CLI processes
  Releases,     \* immutable release inputs: records [commit, requested_by]
  Canaries,     \* observe() payloads: [window, observation, policy, runs, traces]
  RunFacts,     \* recorded verification runs: id -> [status, commit]
  TraceFacts,   \* recorded traces owned by one run: id -> [count, commit]
  Backend,      \* "sql" (unique (release_id, sequence)) or "file" (JSONL append)
  Faults,       \* subset of {"crash", "controller", "lookup"}
  MaxRequests   \* bound on the requests one client sends

ASSUME DeploymentAssumption ==
  /\ Backend \in {"sql", "file"}
  /\ Faults \subseteq {"crash", "controller", "lookup"}
  /\ MaxRequests \in Nat
  /\ \A r \in Releases : r = [commit |-> r.commit, requested_by |-> r.requested_by]

VARIABLES
  journal,    \* the stored records of the release, in sequence order
  commands,   \* commands that took effect at the controller, oldest first
  pc,         \* where each client is in its request
  request,    \* the request each client is serving
  pending,    \* the record each client is about to append
  base,       \* what _append read: the next sequence and the previous hash
  sent,       \* number of requests each client has begun
  reply       \* answer to each client's latest request

vars == <<journal, commands, pc, request, pending, base, sent, reply>>

-----------------------------------------------------------------------------
(* Records, the hash chain and what get() derives from a journal.          *)

Outcomes == {"promoted", "paused", "rolled_back"}
Events   == {"released", "validated", "observed"} \union Outcomes
NoHash   == <<>>
Idle     == [kind |-> "none"]
NoRecord == [event |-> "none"]
NoBase   == [sequence |-> 0, prev |-> NoHash]

\* An evidence body carries a fresh uuid, so the request that made it and its
\* event stand for its SHA-256.  Two release bodies may be equal, but a journal
\* holds two only where the JSONL chain is broken already.
HashOf(record) == <<record.by, record.nth, record.event>>

ChainIntact(records) ==
  \A i \in DOMAIN records :
    records[i].prev = IF i = 1 THEN NoHash ELSE HashOf(records[i - 1])

EventsOf(records) == {records[i].event : i \in DOMAIN records}

\* The precedence of _status: what happened, not what happened last.
StatusPausedFirst(records) ==
  LET events == EventsOf(records) IN
  IF "rolled_back" \in events THEN "rolled_back"
  ELSE IF "paused" \in events THEN "paused"
  ELSE IF "promoted" \in events THEN "promoted" ELSE "released"

Status(records) ==
  LET events == EventsOf(records) IN
  IF "rolled_back" \in events THEN "rolled_back"
  ELSE IF "promoted" \in events THEN "promoted"
  ELSE IF "paused" \in events THEN "paused"
  ELSE "released"

Stored(records) == records[1].release

ConfirmedWhateverStatus(release, claimed) ==
  {id \in claimed \intersect DOMAIN RunFacts : RunFacts[id].commit = release.commit}

\* _confirmed_verifications and _confirmed_traces keep only the claims that a
\* readable store confirms for this exact release.
ConfirmedRuns(release, claimed) ==
  {id \in claimed \intersect DOMAIN RunFacts :
     RunFacts[id].status = "passed" /\ RunFacts[id].commit = release.commit}

ConfirmedTraces(release, claimed) ==
  {id \in claimed \intersect DOMAIN TraceFacts :
     TraceFacts[id].count > 0 /\ TraceFacts[id].commit = release.commit}

\* The subsets of claims whose lookup does not hit a database error.
Readable(claimed) == IF "lookup" \in Faults THEN SUBSET claimed ELSE {claimed}

Body(c, event, release, decision, runs, traces) ==
  [event |-> event, by |-> c, nth |-> sent[c], release |-> release,
   decision |-> decision, runs |-> runs, traces |-> traces, prev |-> NoHash]

-----------------------------------------------------------------------------
(* Control helpers.                                                        *)

Goto(c, label) == pc' = [pc EXCEPT ![c] = label]

Finish(c, answer) ==
  /\ reply'   = [reply EXCEPT ![c] = answer]
  /\ request' = [request EXCEPT ![c] = Idle]
  /\ pending' = [pending EXCEPT ![c] = NoRecord]
  /\ base'    = [base EXCEPT ![c] = NoBase]
  /\ Goto(c, "idle")

\* The HTTP handlers and CLI commands map every DeploymentConflictError to one
\* answer, whatever raised it.
Conflict(c) ==
  /\ Finish(c, IF request[c].kind = "deploy" THEN "deployment_conflict"
                                             ELSE "release_not_found")
  /\ UNCHANGED <<journal, commands, sent>>

Prepare(c, record) == pending' = [pending EXCEPT ![c] = record]

-----------------------------------------------------------------------------
(* The service.                                                            *)

Init ==
  /\ journal = <<>> /\ commands = <<>>
  /\ pc = [c \in Clients |-> "idle"]
  /\ request = [c \in Clients |-> Idle]
  /\ pending = [c \in Clients |-> NoRecord]
  /\ base = [c \in Clients |-> NoBase]
  /\ sent = [c \in Clients |-> 0]
  /\ reply = [c \in Clients |-> "none"]

\* create_deployment / deploy: release() and then observe().
BeginDeploy(c) ==
  /\ pc[c] = "idle" /\ sent[c] < MaxRequests
  /\ \E release \in Releases, canary \in Canaries :
       request' = [request EXCEPT ![c] = [kind |-> "deploy", release |-> release,
                                          canary |-> canary]]
  /\ sent' = [sent EXCEPT ![c] = @ + 1]
  /\ Goto(c, "create")
  /\ UNCHANGED <<journal, commands, pending, base, reply>>

\* rollback_deployment / deploy-rollback.
BeginRollback(c) ==
  /\ pc[c] = "idle" /\ sent[c] < MaxRequests
  /\ request' = [request EXCEPT ![c] = [kind |-> "rollback"]]
  /\ sent' = [sent EXCEPT ![c] = @ + 1]
  /\ Goto(c, "require")
  /\ UNCHANGED <<journal, commands, pending, base, reply>>

\* The release ID is free, or belongs to exactly these release inputs.
Available(release) ==
  journal # <<>> => ChainIntact(journal) /\ Stored(journal) = release

\* create() reads the journal: a new release is appended, a different one is a
\* conflict, the same one goes on with observe() if a released event is there
\* and calls the controller again if not.
AlreadyCreated == journal # <<>>
AlreadyReleased == "released" \in EventsOf(journal)

CreateGet(c) ==
  LET release == request[c].release IN
  /\ pc[c] = "create"
  /\ \/ ~Available(release) /\ Conflict(c)
     \/ /\ Available(release)
        /\ \/ /\ AlreadyReleased
              /\ Goto(c, "require") /\ UNCHANGED pending
           \/ /\ ~AlreadyReleased
              /\ Goto(c, IF journal = <<>> THEN "read" ELSE "control")
              /\ Prepare(c, Body(c, "release", release, None, {}, {}))
        /\ UNCHANGED <<journal, commands, request, base, sent, reply>>

\* get() finds a release and its chain verifies; _require() asks no more.
Found == journal # <<>> /\ ChainIntact(journal)

\* append() first reads the journal and compares the evidence with its release.
\* The fresh evidence id cannot be in it yet.
Matches(release) == Found /\ Stored(journal).commit = release.commit

AppendGet(c) ==
  /\ pc[c] = "get"
  /\ \/ ~Matches(pending[c].release) /\ Conflict(c)
     \/ /\ Matches(pending[c].release)
        /\ Goto(c, "read")
        /\ UNCHANGED <<journal, commands, request, pending, base, sent, reply>>

\* _append() reads it again for the next sequence and the previous hash.
AppendReadLastSequence(c) ==
  /\ pc[c] = "read"
  /\ base' = [base EXCEPT ![c] = [sequence |-> Len(journal) - 1, prev |-> NoHash]]
  /\ Goto(c, "write")
  /\ UNCHANGED <<journal, commands, request, pending, sent, reply>>

AppendRead(c) ==
  /\ pc[c] = "read"
  /\ base' = [base EXCEPT ![c] =
                [sequence |-> Len(journal),
                 prev |-> IF journal = <<>> THEN NoHash ELSE HashOf(journal[Len(journal)])]]
  /\ Goto(c, "write")
  /\ UNCHANGED <<journal, commands, request, pending, sent, reply>>

\* The unique constraint rejects a sequence that is taken; the JSONL backend
\* ignores the sequence it is given.
ClaimedByNobody(c) == FALSE
Claimed(c) == Backend = "sql" /\ base[c].sequence < Len(journal)

AppendWrite(c) ==
  /\ pc[c] = "write"
  /\ \/ Claimed(c) /\ Conflict(c)
     \/ /\ ~Claimed(c)
        /\ journal' = Append(journal, [pending[c] EXCEPT !.prev = base[c].prev])
        /\ base' = [base EXCEPT ![c] = NoBase]
        /\ Goto(c, IF pending[c].event = "release" THEN "control" ELSE "result")
        /\ UNCHANGED <<commands, request, pending, sent, reply>>

\* append() reads back what it returns, and the request goes on from there:
\* release() to observe(), validation to the decision, the decision to the
\* controller, the outcome to the caller.
ContinueUnrecorded(event) ==
  CASE event = "released" -> "require" [] event \in {"validated", "observed"} -> "control"

Continue(event) ==
  CASE event = "released"  -> "require"
    [] event = "validated" -> "get"
    [] event = "observed"  -> "control"

Observed(c) ==
  LET canary == request[c].canary IN
  Body(c, "observed", pending[c].release,
       EvaluateCanary(canary.window, canary.observation, canary.policy,
                      pending[c].runs, pending[c].traces),
       {}, pending[c].traces)

AppendResult(c) ==
  LET event == pending[c].event IN
  /\ pc[c] = "result"
  /\ \/ ~ChainIntact(journal) /\ Conflict(c)
     \/ /\ ChainIntact(journal) /\ event \in Outcomes
        /\ Finish(c, "ok")
        /\ UNCHANGED <<journal, commands, sent>>
     \/ /\ ChainIntact(journal) /\ event \notin Outcomes
        /\ Goto(c, Continue(event))
        /\ IF event = "validated" THEN Prepare(c, Observed(c)) ELSE UNCHANGED pending
        /\ UNCHANGED <<journal, commands, request, base, sent, reply>>

\* _require() at the head of observe() and rollback(), with their early returns
\* and observe()'s lookups, whose answers stay in local variables.
SettledAlike(kind) == Status(journal) \in {"promoted", "rolled_back"}
SettledOnlyForDeploy(kind) == kind = "deploy" /\ Status(journal) \in {"promoted", "rolled_back"}

Settled(kind) ==
  Status(journal) \in IF kind = "deploy" THEN {"promoted", "rolled_back"} ELSE {"rolled_back"}

Require(c) ==
  /\ pc[c] = "require"
  /\ \/ ~Found /\ Conflict(c)
     \/ /\ Found
        /\ Settled(request[c].kind)
        /\ Finish(c, "ok")
        /\ UNCHANGED <<journal, commands, sent>>
     \/ /\ Found
        /\ request[c].kind = "deploy" /\ ~Settled("deploy")
        /\ \E runs \in Readable(request[c].canary.runs),
              traces \in Readable(request[c].canary.traces) :
             Prepare(c, Body(c, "validated", Stored(journal), None,
                             ConfirmedRuns(Stored(journal), runs),
                             ConfirmedTraces(Stored(journal), traces)))
        /\ Goto(c, "get")
        /\ UNCHANGED <<journal, commands, request, base, sent, reply>>
     \/ /\ Found
        /\ request[c].kind = "rollback" /\ ~Settled("rollback")
        /\ Prepare(c, Body(c, "rolled_back", Stored(journal), "rollback", {}, {}))
        /\ Goto(c, "control")
        /\ UNCHANGED <<journal, commands, request, base, sent, reply>>

\* The controller command a pending record stands for, and the event that
\* records its success.
CommandOf(record) == IF record.event = "release" THEN "release" ELSE record.decision

EventAfter(command) ==
  CASE command = "release"  -> "released"
    [] command = "promote"  -> "promoted"
    [] command = "pause"    -> "paused"
    [] command = "rollback" -> "rolled_back"

Issue(c) ==
  commands' = Append(commands, [command |-> CommandOf(pending[c]), by |-> c, nth |-> sent[c],
                                release |-> pending[c].release])

Control(c) ==
  /\ pc[c] = "control"
  /\ Issue(c)
  /\ Prepare(c, Body(c, EventAfter(CommandOf(pending[c])), pending[c].release,
                     pending[c].decision, {}, {}))
  /\ Goto(c, "get")
  /\ UNCHANGED <<journal, request, base, sent, reply>>

\* A non-zero exit or a timeout of the controller call: its effect is unknown.
ControlFails(c) ==
  /\ pc[c] = "control" /\ "controller" \in Faults
  /\ Issue(c) \/ UNCHANGED commands
  /\ Finish(c, "error")
  /\ UNCHANGED <<journal, sent>>

\* The process serving the request dies between two steps.
Crash(c) ==
  /\ pc[c] # "idle" /\ "crash" \in Faults
  /\ Finish(c, "crashed")
  /\ UNCHANGED <<journal, commands, sent>>

Serve(c) ==
  \/ CreateGet(c) \/ AppendGet(c) \/ AppendRead(c) \/ AppendWrite(c)
  \/ AppendResult(c) \/ Require(c) \/ Control(c) \/ ControlFails(c)

Next ==
  \E c \in Clients : BeginDeploy(c) \/ BeginRollback(c) \/ Serve(c) \/ Crash(c)

Spec == Init /\ [][Next]_vars

-----------------------------------------------------------------------------
(* Properties.                                                             *)

RequestId(record) == <<record.by, record.nth>>

Labels == {"idle", "create", "get", "read", "write", "result", "require", "control"}
Hashes == {NoHash} \union (Clients \X Nat \X (Events \union {"release"}))
Records ==
  [event : Events \union {"release"}, by : Clients, nth : Nat, release : Releases,
   decision : Decisions \union {None}, runs : SUBSET DOMAIN RunFacts,
   traces : SUBSET DOMAIN TraceFacts, prev : Hashes]
Commands ==
  [command : {"release"} \union Decisions, by : Clients, nth : Nat, release : Releases]
Requests ==
  {Idle} \union [kind : {"rollback"}]
         \union [kind : {"deploy"}, release : Releases, canary : Canaries]
Replies == {"none", "ok", "deployment_conflict", "release_not_found", "error", "crashed"}

TypeOK ==
  /\ journal \in Seq(Records)
  /\ commands \in Seq(Commands)
  /\ pc \in [Clients -> Labels]
  /\ request \in [Clients -> Requests]
  /\ pending \in [Clients -> Records \union {NoRecord}]
  /\ base \in [Clients -> [sequence : Nat, prev : Hashes]]
  /\ sent \in [Clients -> 0..MaxRequests]
  /\ reply \in [Clients -> Replies]

\* The chain of the database journal verifies in every state, however the
\* appends of concurrent requests interleave: the hash read by _append is that
\* of the record in front of the sequence the unique constraint grants.
SqlChainIntact == Backend = "sql" => ChainIntact(journal)

\* No failure leaves a false promotion (M8.4): a promoted record is preceded by
\* the promote decision of the same request, and that by its validation record
\* naming verification runs which the store holds as passed for the commit of
\* the journalled release.
PromotionBacked ==
  \A i \in DOMAIN journal : journal[i].event = "promoted" =>
    \E j \in 1..(i - 1) :
      /\ journal[j].event = "observed" /\ journal[j].decision = "promote"
      /\ RequestId(journal[j]) = RequestId(journal[i])
      /\ journal[j].traces # {}
      /\ \E k \in 1..(j - 1) :
           /\ journal[k].event = "validated" /\ journal[k].runs # {}
           /\ RequestId(journal[k]) = RequestId(journal[j])
           /\ \A id \in journal[k].runs : RunFacts[id].status = "passed"
                                         /\ RunFacts[id].commit = Stored(journal).commit

\* The intended transition is recorded before the controller is touched: every
\* promotion or pause that took effect can be audited in the journal, even if
\* its request died before recording the outcome.
IntentRecorded ==
  \A k \in DOMAIN commands : commands[k].command \in {"promote", "pause"} =>
    \E i \in DOMAIN journal :
      /\ journal[i].event = "observed" /\ journal[i].decision = commands[k].command
      /\ RequestId(journal[i]) = RequestId(commands[k])

\* The controller is never told to promote or pause what it was not told to
\* release before, although observe() itself does not look for the released
\* event and another client may have left release() half done.
ReleasedFirst ==
  \A k \in DOMAIN commands : commands[k].command \in {"promote", "pause"} =>
    \E i \in 1..(k - 1) : commands[i].command = "release"
                         /\ commands[i].release.commit = commands[k].release.commit

\* An accepted deploy ends with an outcome in the journal and an accepted
\* rollback with a rollback, whichever early return answered it.
OkMeansRecorded ==
  [][\A c \in Clients : pc[c] # "idle" /\ pc'[c] = "idle" /\ reply'[c] = "ok" =>
       Status(journal) \in IF request[c].kind = "deploy" THEN Outcomes ELSE {"rolled_back"}]_vars

\* The lifecycle that the journal as a whole implements.
Lifecycle ==
  INSTANCE ReleaseLifecycle WITH
    status  <- IF journal = <<>> THEN "absent" ELSE Status(journal),
    intents <- {journal[i].decision : i \in {k \in DOMAIN journal : journal[k].event = "observed"}}

LifecycleSpec == Lifecycle!Spec

-----------------------------------------------------------------------------
(* One client at a time: crashes, controller failures and retries, but no  *)
(* races.                                                                  *)

Alone == Cardinality(Clients) = 1
AllIdle == \A c \in Clients : pc[c] = "idle"
LastCommand == commands[Len(commands)].command

\* Retries leave no duplicate outcome record: at most one promoted and one
\* rolled_back record.
SingleOutcome ==
  \A i, j \in DOMAIN journal :
    journal[i].event \in {"promoted", "rolled_back"} /\ journal[i].event = journal[j].event => i = j

AloneSingleOutcome == Alone => SingleOutcome

\* After an accepted request the controller was last told what the journal
\* says, with two exceptions.  A rollback whose controller call failed after
\* taking effect leaves a promoted journal, which the next deploy reports as
\* promoted.  A release rolled back before its released event was recorded is
\* released once more by the next deploy of it.
AloneAgreement ==
  Alone /\ AllIdle /\ "ok" \in {reply[c] : c \in Clients} =>
    LET status == Status(journal) IN
    /\ status = "promoted" => LastCommand \in {"promote", "rollback"}
    /\ status = "paused" => LastCommand = "pause"
    /\ status = "rolled_back" =>
         \/ LastCommand = "rollback"
         \/ LastCommand = "release" /\
            \A i, j \in DOMAIN journal :
              journal[i].event = "released" /\ journal[j].event = "rolled_back" => j < i

-----------------------------------------------------------------------------
(* What the repository says and racing or dying requests do not keep.      *)

\* "A manual rollback ... supersedes promotion": with every request answered
\* and the journal rolled back, the controller was not last told to promote.
RollbackSupersedes ==
  AllIdle /\ journal # <<>> /\ Status(journal) = "rolled_back" /\ commands # <<>> =>
    LastCommand # "promote"

\* "Release was not found" is only said of a release the journal does not hold.
NotFoundIsHonest ==
  [][\A c \in Clients : pc[c] # "idle" /\ pc'[c] = "idle" /\ reply'[c] = "release_not_found" =>
       journal = <<>>]_vars

\* "Deployment retries are idempotent by release ID and commit SHA": the
\* controller's release takes effect at most once.
ReleasedOnce ==
  \A i, j \in DOMAIN commands :
    commands[i].command = "release" /\ commands[j].command = "release"
    /\ commands[i].release = commands[j].release => i = j

\* A release ID belongs to one set of immutable inputs: the controller is only
\* ever given the release the journal holds.
ControllerServesStored ==
  \A k \in DOMAIN commands : commands[k].release = Stored(journal)

\* "Append one record; reject a sequence another writer already claimed."
ChainAlwaysIntact == ChainIntact(journal)
=============================================================================
