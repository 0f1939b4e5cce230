# Lou: a TLA+ development

Lou analyses a change to a repository, predicts its impact, measures base and
candidate in containers, decides how much autonomy the evidence allows, lets a
model propose a patch, verifies the patch independently, optionally publishes
it, and drives a staging release through a canary. This directory holds TLA+
models of its stateful core and of the algorithms that choose what is measured
and what a measurement means, the TLC runs that check them on small instances,
and TLAPS proofs about them. Paths below are relative to `src/backend/`.

## 1. Inventory

| component | state it keeps | operations | talks to | what is hard |
|---|---|---|---|---|
| Canary policy (`lou/deployment/policy.py`) | none | `evaluate_canary` | called by the deployment loop | missing values, thresholds, rule order |
| Deployment loop (`lou/deployment/service.py`, `adapters.py`, `apps/api/main.py`, `apps/cli/main.py`) | hash-chained journal per release (JSONL or the `deployment_journal` table), the rollout controller | release, observe, rollback, status, report | verification and trace lookups, the controller, API threads and CLI processes concurrently | read-check-act across transactions, duplicate sequences, crashes around the controller call |
| Remediation orchestrator (`lou/agents/orchestration.py`) | `OrchestrationState`, one JSON snapshot | start, step, run | provider adapter, patch validation, verifier, autonomy rules | budgets hit in any stage, duplicate patches, evidence of several attempts |
| Autonomy rules (`lou/decision/autonomy.py`, `lou/scoring/`) | none | `decide_autonomy` | orchestrator, fixture decision adapter | evidence that belongs to another patch, attempt or commit |
| Remediation execution (`lou/application/remediation_runs.py`, `remediation.py`, `lou/persistence/repositories.py`) | `agent_runs`, `remediation_attempts`, `verification_runs` rows | execute (create or resume), persist_stage, record_verification | orchestrator; several executors may hold one run | crash between two transactions, concurrent executors, unique keys |
| Provider call (`lou/agents/provider.py`) | one daemon thread and one queue per try | call, retries, fallback | provider client | late answers racing a timeout and a retry |
| Publication (`lou/application/publication.py`) | `publication_attempts`, unique plan id | dry_run, publish | remediation snapshot, evidence report, GitHub publisher | crash between the push and its record, concurrent publishers |
| Analysis service (`lou/application/analysis.py`, `persistence.py`, `lou/persistence/repositories.py`, `in_memory.py`) | `analysis_runs` and everything recorded for a run | run, transitions, telemetry | repository intelligence, measurement, decision, store | crash anywhere, duplicate requests, partial recording |
| Fix verification and measurement (`lou/verification/`, `lou/sandbox/`, `lou/loadtest/`) | git worktrees, containers, image tags, artifacts; `FixVerifier` cache | verify, compare, run_phase, run_sandbox, run_k6_experiment | git, docker, k6, other runs on the same daemon | which commit and patch a verdict belongs to; tool failures and noise that look like regressions; cleanup on every path |
| Command runner (`lou/execution/runner.py`) | child process, two reader threads | run_command | docker, git, pytest, k6 | timeout, process tree, bounded output |
| Repository intelligence (`lou/repository/`, `lou/analyzers/`) | a graph per inspection; reads the workload manifest of the working tree | changes, symbols, graph, traversal, workloads | git | what was not read must show as incomplete; limits in every stage; the manifest is read again later |
| Prediction (`lou/prediction/`, `lou/scoring/`) | none | predict, evaluate | analysis service | arithmetic at boundaries |
| Patch validation and context (`lou/agents/patch_validation.py`, `context.py`) | none | validate_patch, build_context_bundle | orchestrator | parsing; three budgets spent in one pass |
| Telemetry (`lou/telemetry/`) | exporter buffers | TelemetryPort, correlation, sanitising | OTLP collector | best effort, bounded |
| Reporting (`lou/reporting.py`) | none | read | the database, artifacts | hashing of artifacts |
| Live adapters and fixture composition (`lou/application/live.py`, `remediation_fixture.py`) | artifacts on disk | wiring | everything above | composition |

Correctness, per component: the canary policy never promotes on missing
evidence; the deployment journal verifies, promotions are backed and the
lifecycle only moves forward; the orchestrator stops within its bounds and says
"verified" only of a patch whose every workload passed on one commit; the
execution service neither loses nor reopens a run; publication writes one pull
request; the analysis run reaches one terminal state and its evidence is complete
when it says so; a validation plan that claims complete evidence leaves out nothing
that the change reaches; a provider's answer stays within its call and every call is
answered; a decided measurement is what an undisturbed one would have said, and
what a run leaves in the daemon is accounted for.

## 2. Plan

The most important behaviour first: what is deployed, then what decides that a
patch is good, then what stores and publishes it.

| step | modules | state |
|---|---|---|
| 1 | `CanaryPolicy`, `CanaryEvaluations`, `Deployment`, `ReleaseLifecycle`, `DeploymentProofs` | done |
| 2 | `AutonomyRules`, `OrchestratorStages`, `Orchestrator`, `OrchestratorProofs` | done |
| 3 | `Remediation`, which drives `OrchestratorStages` over the durable store and implements `Orchestrator` | done |
| 4 | `Publication`; `AnalysisRun`, which implements `RunRegistry` | done |
| 5 | `RepositoryGraph`, `ImpactTraversal`, `WorkloadPlan`, composed by `Impact` | done |
| 6 | `EvidenceBundle`, `ProviderCall` | done |
| 7 | `Verdicts`, `Measurement` | done |
| 8 | `ImpactProofs`: the search is exact; `ProviderProofs`: late outcomes stay within their call, and not all threads of a call are lost; `AnalysisProofs`: one driver per run, statuses backed by what is recorded, runs left behind, the refinement of `RunRegistry` | done |
| 9 | `PublicationProofs`; `RemediationProofs`: evidence and terminal rows, the refinement of `Orchestrator`; the rest of the invariants of `Deployment` and `Orchestrator` | done |
| 10 | `MeasurementProofs`: decided verdicts, earned fixes, what is left in the daemon; the canary policy for every policy (in `DeploymentProofs`) | done |
| 11 | proofs about the workload plan (`NoFalseCertainty`, `SelectionRepeats`), the context bundle (`NothingThatFitsIsOmitted`) and repeated canary evaluations (`OnlyEvidenceHelps`) | done |
| 12 | score thresholds of prediction and autonomy, `validate_patch`, the poll loop and readers of `run_command` | if it proves worth a model |

Modules that are proved about declare no RECURSIVE operator; parameters are
CONSTANTS with a named assumption, one action stands for one operation, and
faults are members of a constant set `Faults` so that a run chooses which happen.

## 3. Modules

`CanaryPolicy` is `evaluate_canary` as a pure operator; an absent optional field
is `None`. `CanaryEvaluations` evaluates one release again and again: between two
evaluations evidence is lost (`Lose`) or time passes (`Wait`), so that monotonicity
is an action property.

`Deployment` models one release ID (release IDs share nothing in the journal).
`journal` is the stored record sequence, `commands` what took effect at the
controller, and each client has a program counter (`pc`), the request it serves,
the record it is about to append (`pending`) and what `_append` read (`base`).
Each read of the journal, each write and each controller call is one action,
because the code holds no lock and no transaction across them. `CreateGet` is
`create()`'s read, `AppendGet` `append()`'s, `AppendRead` and `AppendWrite` are
the two halves of `_append()`, `AppendResult` is the read-back, `Require` is
`_require()` with the early returns and lookups after it, `Control` and
`ControlFails` are the adapter call. `Crash` ends a request between two steps.
The SHA-256 of a record is its identity: the request that made it and its event,
which are unique because evidence bodies carry a fresh uuid.

`ReleaseLifecycle` is the abstract promise: absent, released, paused, promoted,
rolled back, forward only, with a pause or a promotion after a recorded decision.
`Deployment` implements it (`LifecycleSpec`): the status is `_status` of the
journal and the decisions are those of its observed records.

`AutonomyRules` is `decide_autonomy`: identity disagreements decline the action,
every other gate lowers a ceiling. The scores of `lou/scoring` are data: `Assessed`
is the ceiling their gates leave for a patch when so many workloads passed.

`OrchestratorStages` is `step()`. A stage is an operator from a snapshot to the
set of snapshots it may return, with one operator per stage (`BuildContext`,
`Diagnose`, `Propose`, `Validate`, `Verify`, `Decide`), `Halt` for a budget and
`Finish` for `_finish()`. A patch is a model value and stands for its hash;
`Valid` are the patches `validate_patch` accepts and `Foreign` those whose
artifact names another run. A verification result keeps what the decision
compares: workload, status, patch, attempt, commit, and `own`, whether it answers
the request. `Orchestrator` runs these stages on one snapshot in memory.

`Remediation` runs the same stages from `execute()`: `run`, `audit`, `evidence`
and `artifacts` are the tables; an executor holds a snapshot (`held`), the row it
is about to store (`made`) and the row its transaction has read (`loaded`).
`CreateOrGet` and `SaveSnapshot` are the two transactions that create a run,
`Step`, `StepVerify` and `StepRaises` the call of `step()` (which reads the clock and
compares the budgets before it calls the verifier), `PersistLoad` and
`PersistStore` the read and the write of `persist_stage()` (READ COMMITTED, no row
lock; the ORM's UPDATE names only changed columns: `Updated`). `StepVerify`
includes the `FixVerifier` cache and `PersistedFixVerifier`, which stores the
verdict first and meets the unique key (`Taken`). `Retain` is
`_persist_patch_artifact()`.

`Publication` models one remediation run. A plan is identified by the run and the
hash of its evidence report, so by the version of the evidence. `ReadRun` and
`ReadReport` are the two sessions of `_plan()`, `LookUp` is `_existing()`, `Call`
is `gh pr create`, `SaveRead` and `SaveInsert` are the halves of `_save()`. `Remediate`
is an executor that stores a stage; since `persist_stage()` judges by a row it read
without a lock, a finished snapshot is not final, and `granted` remembers whether the
stored one ever said open_pr. GitHub is external: one open pull request per branch,
`gh` may be refused or may time out after it took effect.

`AnalysisRun` models the analysis service on one repository: `status` and `rows`
per deduplication key, the registered workload definitions, and clients that run
a request themselves. Every transaction of `SqlAnalysisStore` and every port call
is an action; `Register` and `Insert` are the read and the insert of a workload
definition; `StageRaises`, `StoreRaises` and `FinishUnacknowledged` are the error
paths of `run()` and `_finish()`. `RunRegistry` is the in-memory repository, which
its documentation calls the reference behaviour; `AnalysisRun` implements it.

`RepositoryGraph` is what the commits say, stage by stage: `FilePairs` of the diff,
which sides of them are read (`ReadSide`) and which scopes changed
(`ChangedSymbols`), which files are parsed (`Parsed`), and what each statement of a
parsed file does to the graph (`Outcome`): an edge, an unresolved relationship that
lowers the completeness, or nothing. A statement is a record of its kind, the two
nodes, and how the visitors take it: as it stands, noticed but computed, passed over
without a trace (`Noticed`), or taken for another (`AsRead`); the comment there lists
which statements are passed over or misread. What git prints and what an AST
contains is data. Completeness is a product of ratios that is only ever compared
with 1, so the model keeps that (`Complete`).

`ImpactTraversal` is the bounded breadth-first search, one loop round a step:
`AddStart`, `PopLeft`, `Visit`, `Finish`. Node numbers stand for identifiers, which
sort. `WorkloadPlan` is `plan_validation_workloads`: `Ordered` is `sorted()`, by
counting how many entries are before one, and `Rounds` the plan after each `Consider`
of the loop. `Impact` composes the three as `inspect` (`BuildGraph`, `Search`,
`PlanWorkloads`, which stores `Recording`) and `select` (`Select`); each of the two
reads the manifest, which `Edit` may change in between. Its properties compare a plan with `Truth`, the
graph of every scope the diff touches and every statement the visitors notice for what
it is, read or not; `TruthOf` all statements is the whole program.

`EvidenceBundle` is `build_context_bundle`: `Offered` is what it goes through, in
order, and `Additions` the bundle after each offer, with three budgets. `ProviderCall` is `AgentAdapter`: one thread and one queue per
try. `Begin`, `Return` and `Deliver` are the closure: it reads the variable that
holds the queue when it starts the provider's call (`AnswerTarget`) and again when
that raised (`ErrorTarget`), by which time the adapter may be in a later try.
`Take`, `Expire` and `RetryOr` are the adapter's side. `Build` and `NextCall` are
the orchestrator's stages around it.

`Verdicts` is the aggregation of samples, `compare_candidate`, `_phase_bundle` and
`FixVerifier._compare`; ratios and the variance coefficient are compared without
dividing. `Measurement` runs the phases of several runs against one Docker daemon:
`images` by tag, `untagged` images that lost their tag while something used them,
`containers`, `worktrees`, and per run the phase, the place in it and what was
measured. `Enter` and `Leave` are the worktree (with the git timeouts, which in the
fix phase raise out of `verify()`), `Build` the base image `lou-ev007-runtime:v1`,
which stays, and the image of the worktree, `RunSandbox` a check or a k6 attempt in a
container, `StartApp` and `RemoveApp` the application, `RemoveImage` the
`docker image rm --force`, which takes only the tag from an image that another run
uses; an exception moves a run to its next finally clause (`Unwind`, `UnwindToApp`).
Equal worktrees are taken to give the same image, from the build cache. Steps no
other run can interfere with are joined. A world says what the code of each phase
would show undisturbed; faults are members of `Faults`. Five variables are history:
`lost`, `unready` and `stale` (containers not created or removed in time, applications
that never answered, tags of failed builds and removals), `shared` (tags that two runs
held at once) and `unstarted` (checks whose container did not start).

Each `MC` module only gives constants their values. Operators named as variants
in a module's header are deliberately wrong forms of the definition they precede;
no specification uses them, and each shows that a property can fail.

## 4. Runs

| run | question | bounds |
|---|---|---|
| `canary_policy` | can missing, stale or thin evidence, or the mere passing of time, help a release? | every combination of present and absent fields, with a value on each side of every threshold |
| `deployment_race` | do chain, backing, intent, order and lifecycle survive races, crashes and controller failures? | 2 clients with one request each, 2 releases of one ID, canaries that promote, pause, roll back and that name unconfirmed runs, SQL journal |
| `deployment_alone` | without races, does a retried release end with one outcome and an agreeing controller? | 1 client, 3 requests, crashes, controller and lookup failures, JSONL journal |
| `orchestrator` | does the loop end, stop at budgets, report each attempt, and say "verified" only of what is? | 2 workloads, 2 attempts, 4 patches (2 good, 1 invalid, 1 foreign), 2 commits of which one descends, verdicts of all kinds, budgets of 0 and 1, fair |
| `remediation_race` | what do two executors of one request leave behind? | 2 executors, 1 workload, 2 patches, 2 attempts, 2 fix commits, raising stages |
| `remediation_restart` | do crashes and repeated requests leave the loop as it is in memory, and does work end? | 1 executor, 3 requests, 2 workloads, 1 valid and 1 rejected patch, 2 attempts, 4 fix commits, clock ticks up to beyond the time budget, crashes, raising stages, a failing verifier, a provider that gives up, fair |
| `publication` | does only a run that was on record as verified open_pr get a pull request, and a plan one outcome? | 2 clients, 2 requests each, 2 versions of the report, snapshots that are overwritten, crashes, timeouts, refusals, closed pull requests |
| `analysis_run` | is a run driven by one client, finalized on every path, and does its status fit its rows? | 2 clients, 2 keys, 1 workload with 2 editions, all faults |
| `impact` | is the search exact, and does a plan say so when it rests on less than everything? | 9 nodes of all seven types, renames, deletions and unreadable files, one statement of each kind dynamic or unread at a time, limits of every kind on both sides of what is needed, manifests with and without a criterion over what is selected, 1 edit of the manifest |
| `provider_call` | do late answers stay within their call, is every call answered, does the bundle leave out only what does not fit? | 2 calls with one retry each, providers that hang, answer late, raise or answer for another run, 3 budgets, fair |
| `measurement` | is a decided verdict that of an undisturbed measurement, and what is left behind? | 1 analysis and 1 remediation of the same commits, 1 check, k6 with a warmup and 2 repetitions, 8 worlds, 4 editions of the manifest, 1 fault, after which any of the other samples of a load test may be disturbed too |
| `find_rollback_supersedes` | is a rollback really superior to a racing promotion? no | 2 clients, no faults |

Why these bounds suffice for the questions: the races of the deployment loop, of
`persist_stage`, `_save` and `create_or_get` are between one read and one write of
two actors, so two actors and one request each reach every interleaving of them;
retries need more requests of one actor, which `deployment_alone` and
`remediation_restart` give. Two attempts are the least at which evidence of one
attempt can be taken for another's and at which a patch can be repeated; a second
workload is the least at which a plan can be partly covered. A budget of 0 with
usages 0 and 1 reaches at, under and over the limit. A second call of a provider is
the least at which an answer can be late for its call, one retry the least at which
it can be late for its try. Two runs share a tag; a second repetition is the least
at which samples scatter, and it lets the host disturb both, so that they agree on a
wrong latency (the case `Shows` is about). One fault is the run's limit, within which
there are 1.8 million states: each property is about what a single failure of the
tools, a single edit or one disturbed load test may do. Combinations of faults are
left to the theorems of section 6, which hold for any number of them.

Named bounds: `MaxRequests` (requests per client or executor), `MaxEvidence`
(versions of a report), `MaxEdits` (editions of the workload definitions or of the
manifest), `MaxCalls` (calls of one orchestration), `MaxFaults` (faults and edits of
one behaviour of `Measurement`).
`MaxAttempts`, `MaxWall`, `MaxTokens` and `MaxCost` are the code's own limits; a
counter beyond its limit stays one beyond it (`Capped`), since nothing reads how
far. `CHECK_DEADLOCK FALSE` appears where a system really stops: requests are
bounded, and the remediation loop ends.

Symmetry is used only in runs without liveness properties.

The type invariants of `Orchestrator`, `Remediation`, `Publication` and `AnalysisRun`
describe the state for the reader and are not among the properties of the runs (the
first is proved); the one of `Deployment` is both.

What the properties rule out, in words: a promoted record without its decision,
traces and passed verification runs (`PromotionBacked`); a promotion at the
controller that the journal does not announce (`IntentRecorded`) or that precedes
the release (`ReleasedFirst`); a rollback answered "ok" because of an earlier
promotion (`OkMeansRecorded`); a "verified" that rests on another patch, attempt
or commit (`VerifiedIsVerified`), or a terminal row or audit entry that does
(`TerminalBacked`); a pull-request decision against the evidence
(`OpenPRNeverRefuted`); a reason that is not the cause of the stop, or a budget that
stops nothing (`ReasonHonest`); a snapshot that rests on verdicts nobody stored
(`EvidenceBacked`); a pull request for a run that never was on
record as open_pr (`PullsAuthorized`); two answers about one plan that differ (`AnswersRecorded`); two clients measuring one run (`OneDriver`); a run left running
by a path that returns (`NoRunLeftBehind`); a status without its rows
(`StatusMatchesEvidence`); a plan that is called complete although a file, a computed
route or a deleted definition escaped the graph (`NoFalseCertainty`); a diagnosis that
comes late and is taken for the patch (`AnswersOwn`); a verdict that another run,
which removed the shared image, a timeout or visibly scattered samples have decided
(`DecidedIsUndisturbed`); a "passed" for a fix that only moved the regression
(`FixEarned`); a container, an image or a tag that stays for another reason than those
named below (`NothingElseLeft`).

The three properties of `Measurement` are about the code as it is, and say where it
falls short. The reference of the first two is what the code of each phase does, under
the commands each phase was run with and with a check whose container did not start
counted as failed: the code does not tell these cases apart, which is what
`SameDefinitions` and `ToolFailureIsInconclusive` below are violated by, and a start
failure in the candidate phase can earn a fix its "passed". They speak of runs whose
samples show what disturbed them (`Shows`): of each observed load test the samples
scatter beyond `maximum_variance_cv`, or their median is right. Where a host slows all
samples alike, or the threshold is too large for one of them to show, the code decides
by the wrong latency, and nothing is claimed. `NothingElseLeft` lists all that stays:
the base image; containers that were not created or removed in time, and applications
that never answered; tags of builds and removals that failed; and images without a
tag, where a run removed the tag while another run of the same commit, or one of those
containers, used the image.

### Disagreements between code and documents

The run `find_rollback_supersedes` gives a counterexample; `PROJECT.json` quotes the
text. The modules also state, at their end, properties which TLC finds violated in
the same way, when they are added to a run of their module, but which no listed run
repeats. `M2` and `M8` are the specifications
`docs/lou_readme_split/docs/specs/M2_AI_REMEDIATION_LOOP.md` and
`M8_STAGING_AND_PRODUCTION_LOOP.md` of the repository.

| property | what is said | what the code does |
|---|---|---|
| `Deployment!ControllerServesStored` | `service.py:83`: another commit under a release ID is a conflict | two racing first requests both pass the check; `_append` reads the journal again, so the second appends its own release record behind the first and has its own commit released |
| `Deployment!SingleOutcome` | M8:86 "Test retries produce one logical release and no duplicate outcome records." | two racing observes both promote and both record |
| `Deployment!ReleasedOnce` | `FULL_PLATFORM_SPEC_M2_M10.md:240` "Deployment retries are idempotent by release ID and commit SHA." | a crash between the controller's release and the released record repeats the release |
| `Deployment!NotFoundIsHonest` | `apps/api/main.py:445` answers "Release was not found." | every conflict of a rollback, a lost append race too, is that answer |
| `Deployment!ChainAlwaysIntact` | `service.py:156` "reject a sequence another writer already claimed" | the JSONL journal ignores the sequence |
| `Orchestrator!VerifiedIsNotDeclined` | `lou/decision/autonomy.py:39` "Supply final fix-attempt results from the independent verifier" | `_finish()` decides over the results of every attempt, so a second attempt that verifies its patch is finished as "verified" with the decision report |
| `Orchestrator!FailedOnlyReports` | M2:192, the maximum action after failed verification is report | a failed workload lowers the ceiling to generate_patch only |
| `Remediation!PassedIsNotAbandoned` | M2:221 "Done when a process restart resumes from each stage without recreating prior verification evidence." | after a crash between evidence and snapshot the resumed verification violates the unique key, and the passed patch is abandoned |
| `Remediation!NotReopened` | `repositories.py:663` "a completed remediation run cannot be reopened" | two executors that both read before either wrote |
| `Remediation!AlwaysResumable` | M2:278, resume at every stage boundary | a crash between the run's insert and its first snapshot |
| `Remediation!AcceptedHasEvidence` | M2:186, `models.py:113`, evidence per accepted patch and attempt | no caller sets the attempt, so a second attempt's row violates the unique key |
| `Remediation!RequestsIdempotent` | M2:264, concurrent requests are idempotent | the loser of an audit-key race is answered with an error |
| `Publication!PublishProceeds` | M2:195, an explicit trusted publish may proceed | a dry run of the same evidence shares its plan id and is the recorded outcome |
| `Publication!FailedSafely` | `publication.py:93` "Trusted publisher failed safely" | `gh pr create` may time out after it opened the pull request |
| `Publication!PullsStillBacked` | `publication.py:134`, the body of the pull request: "Generated only after independent verification." | an executor that read the row before another one finished it overwrites the snapshot (`NotReopened`), so a run may have its pull request and no longer be on record as verified |
| `Impact!UnsupportedShows` | `docs/hackathon/team/engineer-1/README.md:135` "Broken or unsupported syntax lowers completeness" (unchecked there) | decorators on a receiver that the same file does not bind to FastAPI or APIRouter, and `include_router` of an imported router, are passed over without a diagnostic (`graph.py:470`, `graph.py:533`, `graph.py:627`): a route is missing and the completeness stays 1 |
| `Impact!EmptyIsNotIncomplete` | `docs/hackathon/team/engineer-1/README.md:126` "Empty results and incomplete results are different states." | a search cut by the node limit keeps the graph's completeness, so its plan may be `complete_no_applicable` |
| `Impact!RecordedIsMeasured` | `live.py:141` records the plan of the analysis | `select` reads the manifest again and may plan other workloads; without an edit too, if a criterion is over `selected_workload_ids` (`workloads.py:30`), which the first plan has replaced by its selection (`live.py:130`) |
| `ProviderCall!EachTryItsOwnOutcome` | `provider.py` counts a retry for each failed try | a late outcome of the first try is taken for the second's |
| `Measurement!NoiseIsNoRegression` | `FULL_PLATFORM_SPEC_M2_M10.md:34` "excessive variance must never be represented as a regression" | a candidate with a failing check and scattered latency gets a runtime-regression finding (`compare.py:178`) |
| `Measurement!ToolFailureIsInconclusive` | M2:268 "tool failure is inconclusive" | `docker start` that fails exits non-zero and counts as a failed test (`checks.py:57`), in the candidate a regression, in the baseline or the fix a difference |
| `Measurement!SameDefinitions` | `live.py:354`, the plan identity of baseline and candidate | the identity compares ids, not commands, which are read in each phase (`live.py:280`) |
| `Measurement!AppRemoved` | `docs/hackathon/team/engineer-3/README.md` "Cleanup must not depend on a successful command exit." | an application that never becomes ready is started outside of the try that removes it (`runtime.py:246`) |
| `AnalysisRun!RunningIsDriven` | `docs/hackathon/team/engineer-4/README.md:147`, `analysis.py:211`, duplicates return or resume the run | a run whose client died is reported as running and never resumed |

## 5. Fairness

Liveness is checked in three runs, each under weak fairness of what one process
does for itself, never of faults, of other processes or of arriving requests
(with one exception named below).

- `Orchestrator!FairSpec`: weak fairness of `Next`. `run()` loops on `step()`;
  provider calls have a timeout and verification commands are killed at theirs.
- `Remediation!FairSpec`: weak fairness of `Serve(e)`, and of `Begin(e)`, the
  arrival of a bounded number of requests. `WorkEnds` starts from an executor
  that is already working and allows its crash.

- `ProviderCall!FairSpec`: weak fairness of the adapter's own steps. Its one wait is
  `queue.get(timeout)`, which returns; nothing is assumed of the provider's threads,
  which may hang for ever.

`Crash` is never fair, and no property relies on it happening or not.

## 6. Proofs

TLAPS proves the following for every value of the constants that satisfies the
modules' assumptions (any number of clients, releases, requests, patches,
workloads and attempts, any budgets, any graph and search limits, any providers).

| theorem | states |
|---|---|
| `DeploymentProofs!TypeCorrect` | `Spec => []TypeOK` |
| `DeploymentProofs!SqlChainCorrect` | `Spec => []SqlChainIntact` |
| `DeploymentProofs!IntentCorrect` | `Spec => []IntentRecorded` |
| `DeploymentProofs!PromotionCorrect` | `Spec => []PromotionBacked` |
| `DeploymentProofs!LifecycleCorrect` | `Spec => LifecycleSpec`, the refinement |
| `DeploymentProofs!ReleasedCorrect` | `Spec => []ReleasedFirst` |
| `DeploymentProofs!AcceptedCorrect` | `Spec => OkMeansRecorded`, an action property |
| `DeploymentProofs!AloneOutcomeCorrect` | `Spec => []AloneSingleOutcome`, for finitely many clients |
| `DeploymentProofs!AloneAgreementCorrect` | `Spec => []AloneAgreement`, for finitely many clients |
| `DeploymentProofs!WeakerEvidence` | `evaluate_canary` promotes or rolls back on weaker evidence only what it does on all of it |
| `DeploymentProofs!WaitingPromotes` | the same evidence observed later only turns a pause into a promotion |
| `DeploymentProofs!EvidenceHelpsCorrect` | `EvaluationSpec => OnlyEvidenceHelps`, an action property of repeated evaluations |
| `OrchestratorProofs!SnapshotCorrect` | `Spec => []TypeOK` |
| `OrchestratorProofs!VerifiedCorrect` | `Spec => []VerifiedIsVerified` |
| `OrchestratorProofs!AttemptsCorrect` | `Spec => []EveryAttemptReported` |
| `OrchestratorProofs!OpenPRCorrect` | `Spec => []OpenPRNeverRefuted` |
| `OrchestratorProofs!OnceCorrect` | `Spec => []NoPatchVerifiedTwice` |
| `OrchestratorProofs!ReasonCorrect` | `Spec => []ReasonHonest` |
| `RemediationProofs!EvidenceCorrect` | `Spec => []EvidenceBacked` |
| `RemediationProofs!TerminalCorrect` | `Spec => []TerminalBacked` |
| `RemediationProofs!OrchestratorCorrect` | `Spec => ImplementsOrchestrator`, the refinement of `Orchestrator` by one executor |
| `PublicationProofs!TypeCorrect` | `Spec => []TypeOK` |
| `PublicationProofs!PullsCorrect` | `Spec => []PullsAuthorized` |
| `PublicationProofs!AnswersCorrect` | `Spec => []AnswersRecorded` |
| `PublicationProofs!PublishedCorrect` | `Spec => []PublishedNamesItsPull` |
| `ImpactProofs!ExactCorrect` | `ImpactSpec => []SearchExact` |
| `ImpactProofs!DistancesCorrect` | `ImpactSpec => []ShortestDistances` |
| `ImpactProofs!SelectionCorrect` | `ImpactSpec => []SelectionRepeats` |
| `ImpactProofs!CertaintyCorrect` | `ImpactSpec => []NoFalseCertainty` |
| `ProviderProofs!AnswersCorrect` | `Spec => []AnswersOwn` |
| `ProviderProofs!StuckCorrect` | `Spec => []FewThreadsStuck` |
| `ProviderProofs!BundleCorrect` | `Spec => []NothingThatFitsIsOmitted` |
| `AnalysisProofs!OneDriverCorrect` | `Spec => []OneDriver` |
| `AnalysisProofs!EvidenceCorrect` | `Spec => []StatusMatchesEvidence` |
| `AnalysisProofs!FinalCorrect` | `Spec => []AnswersFinal` |
| `AnalysisProofs!LeftBehindCorrect` | `Spec => []NoRunLeftBehind`, for one request of each client |
| `AnalysisProofs!RegistryCorrect` | `Spec => ImplementsRegistry`, the refinement of `RunRegistry` |
| `MeasurementProofs!LeftCorrect` | `Spec => []NothingElseLeft` |
| `MeasurementProofs!DecidedCorrect` | `Spec => []DecidedIsUndisturbed` |
| `MeasurementProofs!EarnedCorrect` | `Spec => []FixEarned` |

*Deployment.* `TypeOK` alone is not inductive: what an action appends is
`pending`, so `Phases` adds what `pending` may be at each label. `ChainInv` adds to
`SqlChainIntact` that a client at `write` whose `base` names the next sequence also
holds the hash of the last record: the journal only grows, so a stale base names a
sequence that is taken, and the unique constraint refuses it. That is the whole
reason the chain survives, and it is why the JSONL journal, which has no such
constraint, is excluded. `HistoryInv` relates the clients to the journal: a client
that is about to record an outcome has its observed record in the journal, that
one has its validated record before it, and a command at the controller has its
intent recorded. The refinement needs it to show that a status change follows a
recorded decision; journals only grow, so statuses only move forward.

`CommissionInv` is why nothing is promoted before it is released: a client comes to
`observe()` only behind its own release command or behind a released record, whose
writer had commanded the release; the first record of a journal never changes, and
`append()` takes only a record of the journal's commit, so the command and what is
promoted later name the same commit. An "ok" has two sources: the early return of
`_require()`, which has just read the status, and the read-back of an outcome's own
append; `Manuals` adds that a rollback has nothing else to append. `SoleInv` is for
one client: what it read of the journal still holds when it acts on it, since nobody
else writes, and what it is about to record is what it last told the controller. The
same statements with two clients are the violated `SingleOutcome` of section 4.

*Orchestrator.* `Sound` is the inductive invariant: `Ordered` says what has
happened in an attempt when a stage is reached (no patch is accepted before it is
validated, an accepted patch is valid, verdicts exist only for an accepted patch,
`verify` has a workload left), `Counted` relates the attempts to the reported ones
stage by stage, and `Honest` is the two properties of a stopped snapshot. `Running`
is `Sound` before the loop stops; one lemma per stage shows that it is kept, and
`DecideSound` that stopping makes `Honest` true. The heart is `PassedAgreement`: a
decision above report means no result disagrees, so every result names one commit,
and since a result's commit is not absent it is a descendant.

`NoPatchVerifiedTwice` and `ReasonHonest` need a second invariant, `CompleteInv`, about
what the fields of a snapshot say of each other: `Resulted` (the results of a patch are
those of one attempt, and the patch under verification has none of an earlier one),
`Reported` (a patch that is seen was reported, but for that of the attempt under way,
which is why a repeated patch was reported before), `Concluded` (an attempt without a
complaint has passed what it verified, and is decided about when that is the whole
plan), `Budgeted` (what is recorded of an exceeded budget is true and stays true).

*Remediation.* The lemmas about the stages are those of the loop, taken from
`OrchestratorProofs` through an instance whose `state` is the stored snapshot. To the
prover the instance's operators are other symbols, so `SameData`, `SameSteps`,
`OrchSteps` and `OrchAnswers` show that they are the same. `RemediationInv` says of each
executor (`Serving`) that the snapshot it holds, and the row it is about to store, are
sound and rest on stored verdicts (`Backed`), and that the audit key it will write fits
the status (`Explains`); evidence is never deleted, so this survives any step of
another executor (`Apart`). Two executors that both read before either wrote may leave a
row mixed from the columns of both; `StoreInv` is stated column by column and
therefore holds of such a row too: its snapshot is one that was backed, its status one
whose audit row exists. For a success `VerifiedProof` takes from the loop that a snapshot
that stopped as `verified` has a passing verdict for the whole plan, of one attempt at
one patch on one commit, and from `Backed` that all of them are stored.

The refinement of `Orchestrator` is for a single executor (two of them break it: that is
`NotReopened` in section 4). `AloneInv` says that what the executor goes on from is what
is stored, that the row it loaded is the current one, so that the UPDATE is not mixed,
and that what it is about to store is one stage further, or the unchanged snapshot of a
stage that raised. Then storing is a step of the loop, and everything else, crashes and
new requests too, a stutter. The verdict of `PersistedFixVerifier`, cached or not, is
one that the verifier of the loop may answer (`StepVerifyAsked`).

*Publication.* `PublishInv` carries what was checked to where it is used: a client that
looks for a pull request or opens one read `open_pr`, so that was once on record
(`granted`), though it may be overwritten by now; between the sessions it holds its plan and its
outcome, and a published outcome names a pull request of its own plan. Pull requests
only grow in number and records are final (`Kept`), so what was true of them when they
were made stays true, whoever else publishes.

*Search.* `SearchInv` says that the queue is sorted by distance and spans at most one
step (`Sorted`), that the node whose steps are taken is the least distant open one
(`Expanding`), that every distance is that of a path (`Founded`) and that, unless the
limit cut the search, a node found is pending, at the depth, or has all its steps found
(`Covered`). The limit needs care: a truncated search is full, so nothing is found after
it, and a changed node that never became a start cannot turn up later at a positive
distance (`Starts`). `ExactCorrect` then compares the search with `Within`, which is a
recursive function: `WithinEquations` shows that its equations have a solution, and
`SmallestOf`, that a set of numbers has a smallest (from the library's
`NatLessThanWellFounded` and `WFMin`), replaces induction by a smallest
counterexample. What is found lies within the depth even in a search that was cut
(`FoundIsWithin`).

*Workload plan.* `PlanInv` says that the graph is the one of the two commits, that what
is recorded is `Recording` of the manifest that was read, and that a selection made
without an edit is the plan of the stored context; with `SearchInv` it is inductive
(`PipelineCorrect`). The rest is about the operators. `Ordered` is a list of all entries
(`OrderedEntries`): what is before an entry is fewer than what is before a later one
(`BeforeOrders`, `PlacesDiffer`), so the counts are distinct and fill the places. The
rounds have a solution (`RoundsEquations`, from `Iteration`, which builds a recursive
function up to each bound), the selection only grows, and an id is in it exactly if its
own round took it (`RoundsKeep`). An entry that applies is therefore selected or omitted
for the budget (`ApplicableAccounted`).

`SelectionRepeats`: the second plan sees other selected ids than the first, namely what
the first selected. What is selected applied already (`SelectedApplies`), so these ids
make no other entry match; the entry that the second plan takes in a round is the one
the first took in it, by a smallest round that differs (`PlanRepeats`). The property
excludes the criteria that break it, `LooksBack`.

`NoFalseCertainty`: complete evidence means that every scope the diff touches is a
changed node of the graph (`TouchedIsChanged`) and every statement that is noticed for
what it is an edge of it (`SaidIsRead`), so what the change reaches by such statements
within the depth is reached in the graph (`WithinIsRead`), and by `ExactCorrect` in a search that was not
cut; a context with more in it matches more (`MatchesMore`), and what matches is
accounted for. This is where the classification of `Outcome` matters: a noticed
statement that cannot be resolved lowers the completeness. One that the extraction
passes over lowers nothing, so a route on an imported router or a call through an
import inside a function is outside of what the property, and the code, promise
(`UnsupportedShows`).

*Provider call.* `CallInv` adds to `AnswersOwn` that a try is launched once (`Fresh`),
that what it did is known from its return on and never changes (`Returned`), and that
a queue holds what some try of its own call did (`Queued`), whichever that is.
`Filled` adds that a queue that holds something has a thread of its call that is done:
when a call is answered, one of its threads has ended, so at most `max_retries` hang.

*Context bundle.* The bundle of a call is `Bundle` of its evidence (`BundleKept`), so
`NothingThatFitsIsOmitted` is about that function. `Accepts` are the offers that fitted
in their round; after each round the bundle holds exactly the accepted ones so far, its
counts are theirs and within the budget, and every other is named as omitted
(`AdditionsHold`, `AdditionsCount`). The counts only grow (`AdditionsGrow`), so what did
not fit when it was offered does not fit in the end (`StillDoesNotFit`). Were a rejected
item counted, as in the variant `AddCountsFirst`, that last step would fail.

*Analysis.* `RunInv` adds to the three properties what is recorded when a client reaches
a stage (`Progress`): a client that judges a measurement is the one whose verdict the row
holds, and one that is about to finish has recorded what its status will say, or the run
has already ended and only `failed` is left to say, which is refused. `OneDriver` is both
a result and the reason: `DriverStep` shows that a step which touches only the rows and
the status of its own run disturbs nobody, because whoever else drives a run drives
another one. `RegistryStep` needs only that a client at the end of its run holds a terminal
status: then every change of a status is one of `_ALLOWED`, whoever makes it.
`LeftInv`: only a client that drove a run can leave it, and then it died or was told
`error`. The theorem is for one request of each client because `NoRunLeftBehind` looks
for that answer among the latest ones; any number of clients may still send requests
for the same key.

*Measurement.* `LeftInv` says who will clean up: a container that is not accounted for
is the application of a run between its start and the finally clause that removes it
(`Attended`), and a tag that is neither the base image's nor that of a failure is held by
a run between its build and the finally clause that removes it (`Holds`); runs of the same
commits share a tag, so "a run" need not be the one that built it. `ApartInv` is about the
images without a tag: two runs that hold one tag came to do so by a build, which recorded
it (`shared`), so where a run is alone with its tag only a container that is accounted for
can keep the image (`ApartStep`). `FaithfulInv` follows what a run has measured by the
place it is at: which checks are done and how many samples are taken (`Underway`), what is
kept of the earlier phases (`Past`), that each check said what the code does under its
command, or that its container did not start or its command failed (`Credible`), that the
query counts are those of the code (`Sampled`), and that the phase was entered with the
fixture's commands and a patch that applied (`Entered`). A phase of which an exception
took something away has a `stop`, and is never compared. So a comparison that is decided
is between phases none of whose commands failed (`Agreeing`), with all their samples, and
with `Shows` those it looks at scatter or have the right median (`SameComparison`).
`FixEarned` adds what an undisturbed comparison says: medians of equal samples are that
sample (`MedianConstant`), a ratio of doubled values is the ratio (`TwiceAsMuch`), so it
fails exactly if the code is worse (`RegressedIsWorse`). `Shows` is part of the two
properties, run by run, and assumes nothing of the constants: `maximum_variance_cv` may be
chosen badly, and then more runs do not show what disturbed them.

*Canary policy.* `EvaluateCanary` is a function, so `WeakerEvidence` and
`WaitingPromotes` need no invariant: they are about every policy, window and observation,
and any number of pieces of evidence lost at once. For `OnlyEvidenceHelps` it is enough
that evidence keeps its shape (`EvaluationInv`) and that a loss is weaker evidence
(`LossIsWeaker`).

The assumptions are those the modules declare: `DeploymentAssumption` (the
backend, the faults, the shape of a release), `AutonomyAssumption` (a plan without
repetitions, `None` is no patch and no commit, ceilings from 0 to 3),
`EvaluationsAssumption` (evidence as the contracts type it), `OrchestratorAssumption`
(limits and usages are natural numbers, at least one attempt), `TraversalAssumption` and
`ImpactAssumption` (node identifiers are ordered like numbers; `Readable`: definitions
are nodes, in eligible files, and a call of what no file defines names no node;
`Declarable`: a registry has finitely many entries, whose ids are ordered),
`ProviderAssumption` (at least one call, at most three retries, budgets are natural
numbers; `Offerable`: no record is offered twice), `AnalysisAssumption` (`None` is neither a key nor a verdict),
`RemediationAssumption` (`None` is no snapshot), `PublicationAssumption`,
`VerdictAssumption` (at least one repetition, thresholds are natural numbers) and
`MeasurementAssumption` (what the code does is measured in natural numbers, `None` is no
samples). TLC evaluates them in the runs. Four theorems have a hypothesis of their own,
named in the table: finitely many clients (without it their number, which `Alone` speaks
of, has no meaning), one request of each client, one executor.

Only model-checked: liveness, which is beyond the prover (`Terminates`, `WorkEnds`,
`EveryCallAnswered`), and the counterexample `RollbackSupersedes`. Every
safety property that a passing run checks is also a theorem. Three of them
(`SearchExact`, `SelectionRepeats`, `NothingThatFitsIsOmitted`) rest on what a loop
computes over a list or to a depth of any length; the loops are recursive functions over
a range of numbers, and a smallest counterexample does what induction would. No module
here declares a RECURSIVE operator.

## 7. Not modelled

- **Command runner**: `Measurement` has what a command may end in; the poll loop, the
  kill of the process group and the two reader threads are not modelled. They touch
  no state but the child, and every outcome they can produce is allowed.
- **Parsing** of git output, Python syntax, k6 scenarios, summaries and diffs
  (`patch_validation.py`, the visitors of `graph.py`): conversions without state. The
  models take what they read off a file as data, in every combination of resolved,
  unresolved and unread.
- **Prediction** (`lou/prediction/`): floating-point scores that decide nothing in
  the modelled flow; the prediction is recorded (`Forecast` in `AnalysisRun`).
- **Telemetry export, reporting, wiring**: I/O. That refused telemetry does not fail
  an analysis is in `AnalysisRun` (`Observe`); the report's hash is `Publication`'s
  version. Writing the graph artifact is not modelled.
- **Liveness of a measurement**: every command has a timeout, but the readiness poll of
  the application is one step here, so that a run ends is not stated.
- **Within the modelled parts**: the float arithmetic of the scores (`Assessed`),
  the wording of reasons and evidence (and so criteria over `selection_reasons`, which
  match it, and whose values the first plan replaces too, `live.py:131`), timestamps other than the canary deadline,
  cancellation of an analysis (no caller cancels; `RunRegistry` allows it).
- **Several remediation runs of one analysis**: `Remediation` has one request. Two of
  them (other limits, another provider, a force token) share the evidence of their analysis:
  `verification_runs` has one row per analysis, workload, phase and attempt
  (`models.py:114`), and no caller sets the attempt, so the fix evidence of the second
  violates the key of the first. The models have that collision between executors and
  attempts of one request (`Taken`, `AcceptedHasEvidence`), where it does the same.
- **Frontend, containers, demo scripts**: no state of the system.
