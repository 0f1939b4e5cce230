-------------------------- MODULE DeploymentProofs --------------------------
(***************************************************************************)
(* Proofs about Deployment for any number of clients, releases, payloads   *)
(* and requests: the policy decides no better on less evidence; the journal *)
(* of every back end stays a chain; and it can be trusted, no command      *)
(* without its recorded decision or its earlier release, no promotion      *)
(* without its recorded evidence, no accepted request without its record,  *)
(* and a status that follows ReleaseLifecycle.  A client that works alone  *)
(* also leaves one outcome, and a controller that was last told what the   *)
(* journal says.                                                           *)
(***************************************************************************)
EXTENDS Deployment, CanaryEvaluations, FiniteSetTheorems, TLAPS

\* What a client is about to append, by its place in the request: it carries
\* the client's own request number, and only decided or manual transitions
\* reach the controller.
Phases ==
  \A c \in Clients :
    /\ pc[c] = "create" => request[c].kind = "deploy"
    /\ pc[c] \in {"get", "read", "write", "result", "control"} =>
         /\ pending[c] \in Records
         /\ pending[c].by = c /\ pending[c].nth = sent[c]
         /\ pending[c].event \notin {"release", "released", "validated"} =>
              pending[c].decision \in Decisions
         /\ pending[c].event \in Outcomes =>
              pending[c].event = EventAfter(pending[c].decision)
    /\ pc[c] \in {"get", "result"} => pending[c].event # "release"
    /\ pc[c] = "control" => pending[c].event \in {"release", "observed", "rolled_back"}

TypeInv == TypeOK /\ Phases

\* A policy decision is one of the three the contract knows.
LEMMA DecisionType ==
  ASSUME NEW w, NEW o, NEW p, NEW runs, NEW traces
  PROVE  /\ EvaluateCanary(w, o, p, runs, traces) \in Decisions
         /\ EvaluateCanary(w, o, p, runs, traces) = "promote" => runs # {} /\ traces # {}
BY DEF EvaluateCanary, Decisions, Promotable

\* Evidence that lacks a measurement, is older, rests on fewer samples or is no longer
\* linked to a run or a trace, and is otherwise the same.
Weaker(w, o) ==
  /\ w.validation_passed = o.validation_passed
  /\ w.telemetry_available => o.telemetry_available
  /\ w.telemetry_age_seconds = None \/ w.telemetry_age_seconds >= o.telemetry_age_seconds
  /\ o.telemetry_age_seconds = None => w.telemetry_age_seconds = None
  /\ w.sample_count <= o.sample_count
  /\ w.error_rate \in {None, o.error_rate} /\ w.latency_ms \in {None, o.latency_ms}
  /\ w.observed_at = o.observed_at

\* "No missing value may be treated as healthy", for every policy, window and observation:
\* evaluate_canary promotes, or rolls back, on weaker evidence only what it promotes, or
\* rolls back, on the whole of it.
THEOREM WeakerEvidence ==
  ASSUME NEW window, NEW policy, NEW o, NEW w, NEW runs, NEW traces,
         NEW fewerRuns \in SUBSET runs, NEW fewerTraces \in SUBSET traces, Weaker(w, o),
         o.telemetry_age_seconds \in Int \union {None}, w.telemetry_age_seconds \in Int \union {None},
         {o.sample_count, w.sample_count, window.minimum_samples} \subseteq Int,
         {policy.minimum_samples, policy.telemetry_max_age_seconds} \subseteq Int
  PROVE  \A decision \in {"promote", "rollback"} :
           EvaluateCanary(window, w, policy, fewerRuns, fewerTraces) = decision =>
             EvaluateCanary(window, o, policy, runs, traces) = decision
<1>1. Usable(window, w, policy) =>
        /\ Usable(window, o, policy) /\ w.error_rate = o.error_rate /\ w.latency_ms = o.latency_ms
  BY DEF Usable, Weaker
<1>2. Usable(window, w, policy) => (Breached(w, policy) <=> Breached(o, policy))
  BY <1>1 DEF Breached
<1>3. Promotable(window, w, fewerRuns, fewerTraces) => Promotable(window, o, runs, traces)
  BY DEF Promotable, Weaker
<1>4. w.validation_passed = o.validation_passed
  BY DEF Weaker
<1>5. QED BY <1>1, <1>2, <1>3, <1>4 DEF EvaluateCanary

\* Waiting neither excuses a breach nor invents one, and a promotion does not lapse: the
\* same evidence observed later only turns a pause of evaluate_canary into a promotion.
THEOREM WaitingPromotes ==
  ASSUME NEW window, NEW policy, NEW o, NEW at \in Int, NEW runs, NEW traces,
         {o.observed_at, window.deadline_at} \subseteq Int, at >= o.observed_at,
         o = [validation_passed |-> o.validation_passed, telemetry_available |-> o.telemetry_available,
              telemetry_age_seconds |-> o.telemetry_age_seconds, sample_count |-> o.sample_count,
              error_rate |-> o.error_rate, latency_ms |-> o.latency_ms, observed_at |-> o.observed_at]
  PROVE  LET before == EvaluateCanary(window, o, policy, runs, traces)
             after == EvaluateCanary(window, [o EXCEPT !.observed_at = at], policy, runs, traces)
         IN  after = before \/ (before = "pause" /\ after = "promote")
<1>1. PICK later : later = [o EXCEPT !.observed_at = at]
  OBVIOUS
<1>2. /\ later.validation_passed = o.validation_passed
      /\ later.telemetry_available = o.telemetry_available
      /\ later.telemetry_age_seconds = o.telemetry_age_seconds
      /\ later.sample_count = o.sample_count
      /\ later.error_rate = o.error_rate /\ later.latency_ms = o.latency_ms
      /\ later.observed_at = at
  BY <1>1
<1>3. /\ Usable(window, later, policy) <=> Usable(window, o, policy)
      /\ Breached(later, policy) <=> Breached(o, policy)
      /\ Promotable(window, o, runs, traces) => Promotable(window, later, runs, traces)
  BY <1>2 DEF Usable, Breached, Promotable
<1>4. QED BY <1>1, <1>2, <1>3 DEF EvaluateCanary

\* The evidence of every evaluation has the shape the contracts give it.
EvaluationInv == evidence \in Evidence /\ verdict = Evaluate(evidence)

LEMMA EvaluationBegins == EvaluationInit => EvaluationInv
BY EvaluationsAssumption DEF EvaluationInit, EvaluationInv

\* What was lost: some measurement of the observation, or some of the links.
LEMMA LossIsWeaker ==
  ASSUME EvaluationInv, Lose
  PROVE  /\ evidence' \in Evidence
         /\ evidence'.window = evidence.window /\ evidence'.policy = evidence.policy
         /\ evidence'.runs \subseteq evidence.runs /\ evidence'.traces \subseteq evidence.traces
         /\ Weaker(evidence'.observation, evidence.observation)
<1> DEFINE o == evidence.observation
<1>1. /\ evidence \in Evidence
      /\ Weaker(o, o)
  BY DEF EvaluationInv, Evidence, Weaker
<1>2. CASE \E fewer \in SUBSET evidence.runs : evidence' = [evidence EXCEPT !.runs = fewer]
  BY <1>1, <1>2 DEF Evidence
<1>3. CASE \E fewer \in SUBSET evidence.traces : evidence' = [evidence EXCEPT !.traces = fewer]
  BY <1>1, <1>3 DEF Evidence
<1>4. CASE LessSeen
  <2>1. CASE evidence' = [evidence EXCEPT !.observation.telemetry_available = FALSE]
    BY <1>1, <2>1 DEF Evidence, Weaker
  <2>2. CASE evidence' = [evidence EXCEPT !.observation.error_rate = None]
    BY <1>1, <2>2 DEF Evidence, Weaker
  <2>3. CASE evidence' = [evidence EXCEPT !.observation.latency_ms = None]
    BY <1>1, <2>3 DEF Evidence, Weaker
  <2>4. CASE evidence' = [evidence EXCEPT !.observation.telemetry_age_seconds = None]
    BY <1>1, <2>4 DEF Evidence, Weaker
  <2>5. CASE \E age \in Ages :
               /\ o.telemetry_age_seconds # None /\ age >= o.telemetry_age_seconds
               /\ evidence' = [evidence EXCEPT !.observation.telemetry_age_seconds = age]
    BY <1>1, <2>5, EvaluationsAssumption DEF Evidence, Weaker
  <2>6. CASE \E fewer \in 0..o.sample_count :
               evidence' = [evidence EXCEPT !.observation.sample_count = fewer]
    BY <1>1, <2>6 DEF Evidence, Weaker
  <2>7. QED BY <1>4, <2>1, <2>2, <2>3, <2>4, <2>5, <2>6 DEF LessSeen
<1>5. QED BY <1>2, <1>3, <1>4 DEF Lose

LEMMA LossNeverHelps ==
  ASSUME EvaluationInv, Lose
  PROVE  /\ verdict' = "promote" => verdict = "promote"
         /\ verdict' = "rollback" => verdict = "rollback"
<1>1. /\ verdict = Evaluate(evidence) /\ verdict' = Evaluate(evidence')
      /\ evidence \in Evidence /\ evidence' \in Evidence
  BY LossIsWeaker DEF EvaluationInv, Lose
<1>2. /\ {evidence.observation.sample_count, evidence'.observation.sample_count,
          evidence.window.minimum_samples} \subseteq Int
      /\ {evidence.policy.minimum_samples, evidence.policy.telemetry_max_age_seconds} \subseteq Int
      /\ evidence.observation.telemetry_age_seconds \in Int \union {None}
      /\ evidence'.observation.telemetry_age_seconds \in Int \union {None}
  BY <1>1 DEF Evidence
<1>3. \A decision \in {"promote", "rollback"} :
        EvaluateCanary(evidence.window, evidence'.observation, evidence.policy,
                       evidence'.runs, evidence'.traces) = decision =>
          EvaluateCanary(evidence.window, evidence.observation, evidence.policy,
                         evidence.runs, evidence.traces) = decision
  BY <1>2, LossIsWeaker, WeakerEvidence
<1>4. QED BY <1>1, <1>3, LossIsWeaker DEF Evaluate

LEMMA WaitOnlyPromotes ==
  ASSUME EvaluationInv, Wait
  PROVE  /\ evidence' \in Evidence
         /\ verdict' = verdict \/ (verdict = "pause" /\ verdict' = "promote")
<1> DEFINE o == evidence.observation
<1>1. PICK at \in Instants : /\ at >= o.observed_at
                             /\ evidence' = [evidence EXCEPT !.observation.observed_at = at]
  BY DEF Wait
<1>2. evidence \in Evidence /\ at \in Nat
  BY EvaluationsAssumption DEF EvaluationInv
<1>3. /\ evidence' \in Evidence
      /\ evidence'.window = evidence.window /\ evidence'.policy = evidence.policy
      /\ evidence'.runs = evidence.runs /\ evidence'.traces = evidence.traces
      /\ evidence'.observation = [o EXCEPT !.observed_at = at]
  BY <1>1, <1>2 DEF Evidence
<1>4. /\ at \in Int /\ {o.observed_at, evidence.window.deadline_at} \subseteq Int
      /\ o = [validation_passed |-> o.validation_passed,
              telemetry_available |-> o.telemetry_available,
              telemetry_age_seconds |-> o.telemetry_age_seconds,
              sample_count |-> o.sample_count, error_rate |-> o.error_rate,
              latency_ms |-> o.latency_ms, observed_at |-> o.observed_at]
  BY <1>2 DEF Evidence
<1>5. LET before == EvaluateCanary(evidence.window, o, evidence.policy, evidence.runs, evidence.traces)
          after == EvaluateCanary(evidence.window, [o EXCEPT !.observed_at = at], evidence.policy,
                                  evidence.runs, evidence.traces)
      IN  after = before \/ (before = "pause" /\ after = "promote")
  BY <1>1, <1>4, WaitingPromotes
<1>6. verdict = Evaluate(evidence) /\ verdict' = Evaluate(evidence')
  BY DEF EvaluationInv, Wait
<1>7. QED BY <1>3, <1>5, <1>6 DEF Evaluate

LEMMA EvaluationGoesOn ==
  ASSUME EvaluationInv, [EvaluationNext]_evaluationVars
  PROVE  EvaluationInv'
<1>1. CASE Lose
  BY <1>1, LossIsWeaker DEF EvaluationInv, Lose, Evaluate
<1>2. CASE Wait
  BY <1>2, WaitOnlyPromotes DEF EvaluationInv, Wait, Evaluate
<1>3. CASE UNCHANGED evaluationVars
  BY <1>3 DEF EvaluationInv, evaluationVars, Evaluate
<1>4. QED BY <1>1, <1>2, <1>3 DEF EvaluationNext

\* However often one release is evaluated, whatever is lost and however long it waits:
\* losing evidence never helps it, and time only turns a pause of evaluate_canary into a
\* promotion.
THEOREM EvidenceHelpsCorrect == EvaluationSpec => OnlyEvidenceHelps
<1>1. EvaluationInv /\ [EvaluationNext]_evaluationVars =>
        [/\ Lose => /\ verdict' = "promote" => verdict = "promote"
                    /\ verdict' = "rollback" => verdict = "rollback"
         /\ Wait => verdict' = verdict \/ (verdict = "pause" /\ verdict' = "promote")]_evaluationVars
  BY LossNeverHelps, WaitOnlyPromotes
<1>2. QED BY <1>1, EvaluationBegins, EvaluationGoesOn, PTL DEF EvaluationSpec, OnlyEvidenceHelps

LEMMA TypeInit == Init => TypeInv
<1>1. ASSUME Init PROVE TypeOK
  BY <1>1, DeploymentAssumption
  DEF Init, TypeOK, Labels, Requests, Replies, Hashes, NoRecord, NoBase, NoHash, Idle
<1>2. ASSUME Init PROVE Phases
  BY <1>2 DEF Init, Phases
<1>3. QED BY <1>1, <1>2 DEF TypeInv

\* A client that leaves its request, for whatever reason, stays well typed.
LEMMA TypeFinish ==
  ASSUME TypeInv, NEW c \in Clients, NEW answer \in Replies, Finish(c, answer),
         journal' = journal, sent' = sent, commands' \in Seq(Commands)
  PROVE  TypeInv'
<1>1. TypeOK'
  BY DEF TypeInv, TypeOK, Finish, Goto, Labels, Requests, Idle, NoBase, Hashes
<1>2. Phases'
  BY DEF TypeInv, TypeOK, Finish, Goto, Phases, Labels
<1>3. QED BY <1>1, <1>2 DEF TypeInv

LEMMA TypeConflict ==
  ASSUME TypeInv, NEW c \in Clients, Conflict(c)
  PROVE  TypeInv'
BY TypeFinish DEF Conflict, TypeInv, TypeOK, Replies

\* Control passes to another point of the same request, with a record made
\* for it where one is needed.
LEMMA TypePrepare ==
  ASSUME TypeInv, NEW c \in Clients, NEW label \in Labels, Goto(c, label),
         NEW event \in Events \union {"release"}, NEW release \in Releases,
         NEW decision \in Decisions \union {None},
         NEW runs \in SUBSET DOMAIN RunFacts, NEW traces \in SUBSET DOMAIN TraceFacts,
         Prepare(c, Body(c, event, release, decision, runs, traces)),
         label # "create",
         event \notin {"release", "released", "validated"} => decision \in Decisions,
         event \in Outcomes => event = EventAfter(decision),
         label \in {"get", "result"} => event # "release",
         label = "control" => event \in {"release", "observed", "rolled_back"},
         commands' \in Seq(Commands), UNCHANGED <<journal, request, base, sent, reply>>
  PROVE  TypeInv'
<1> DEFINE body == Body(c, event, release, decision, runs, traces)
<1>1. body \in Records /\ body.by = c /\ body.nth = sent[c] /\ body.event = event
      /\ body.decision = decision
  BY DEF TypeInv, TypeOK, Body, Records, Hashes
<1>2. TypeOK'
  BY <1>1 DEF TypeInv, TypeOK, Goto, Prepare
<1>3. Phases'
  BY <1>1 DEF TypeInv, TypeOK, Goto, Prepare, Phases
<1>4. QED BY <1>2, <1>3 DEF TypeInv

\* The record that is being appended moves on unchanged.
LEMMA TypeMove ==
  ASSUME TypeInv, NEW c \in Clients, NEW label \in Labels, Goto(c, label),
         label # "create",
         label \in {"get", "read", "write", "result", "control"} =>
           pc[c] \in {"get", "read", "write", "result"},
         label \in {"get", "result"} => pending[c].event # "release",
         label = "control" => pending[c].event \in {"release", "observed", "rolled_back"},
         journal' \in Seq(Records), base' \in [Clients -> [sequence : Nat, prev : Hashes]],
         UNCHANGED <<commands, request, pending, sent, reply>>
  PROVE  TypeInv'
<1>1. TypeOK'
  BY DEF TypeInv, TypeOK, Goto
<1>2. Phases'
  BY DEF TypeInv, TypeOK, Goto, Phases
<1>3. QED BY <1>1, <1>2 DEF TypeInv

\* Beginning a request: nothing is pending yet.
LEMMA TypeBegin ==
  ASSUME TypeInv, NEW c \in Clients, BeginDeploy(c) \/ BeginRollback(c)
  PROVE  TypeInv'
<1>1. sent' \in [Clients -> 0..MaxRequests]
  <2>1. sent[c] \in 0..MaxRequests /\ sent[c] < MaxRequests /\ MaxRequests \in Nat
    BY DeploymentAssumption DEF TypeInv, TypeOK, BeginDeploy, BeginRollback
  <2>2. sent[c] + 1 \in 0..MaxRequests
    BY <2>1
  <2>3. sent' = [sent EXCEPT ![c] = sent[c] + 1]
    BY DEF BeginDeploy, BeginRollback
  <2>4. QED BY <2>2, <2>3 DEF TypeInv, TypeOK
<1>2. \E new \in Requests : request' = [request EXCEPT ![c] = new]
  <2>1. CASE BeginDeploy(c)
    <3>1. PICK release \in Releases, canary \in Canaries :
            request' = [request EXCEPT ![c] = [kind |-> "deploy", release |-> release,
                                               canary |-> canary]]
      BY <2>1 DEF BeginDeploy
    <3>2. [kind |-> "deploy", release |-> release, canary |-> canary] \in Requests
      BY DEF Requests
    <3>3. QED BY <3>1, <3>2
  <2>2. CASE BeginRollback(c)
    <3>1. [kind |-> "rollback"] \in Requests
      BY DEF Requests
    <3>2. QED BY <2>2, <3>1 DEF BeginRollback
  <2>3. QED BY <2>1, <2>2
<1>3. request' \in [Clients -> Requests]
  BY <1>2 DEF TypeInv, TypeOK
<1>4. TypeOK'
  BY <1>1, <1>3 DEF TypeInv, TypeOK, BeginDeploy, BeginRollback, Goto, Labels
<1>5. Phases'
  BY DEF TypeInv, TypeOK, BeginDeploy, BeginRollback, Goto, Phases
<1>6. QED BY <1>4, <1>5 DEF TypeInv

\* The release of a deploy request, and of the first journal record.
LEMMA ReleaseTypes ==
  ASSUME TypeInv
  PROVE  /\ \A c \in Clients : request[c].kind = "deploy" => request[c].release \in Releases
         /\ journal # <<>> => Stored(journal) \in Releases
<1>1. ASSUME NEW c \in Clients, request[c].kind = "deploy" PROVE request[c].release \in Releases
  <2>1. request[c] \in Requests
    BY DEF TypeInv, TypeOK
  <2>2. CASE request[c] = Idle
    BY <1>1, <2>2 DEF Idle
  <2>3. CASE request[c] \in [kind : {"rollback"}]
    BY <1>1, <2>3
  <2>4. CASE request[c] \in [kind : {"deploy"}, release : Releases, canary : Canaries]
    BY <2>4
  <2>5. QED BY <2>1, <2>2, <2>3, <2>4 DEF Requests
<1>2. ASSUME journal # <<>> PROVE journal[1] \in Records
  BY <1>2 DEF TypeInv, TypeOK
<1>3. QED BY <1>1, <1>2 DEF Stored, Records

LEMMA TypeCreate ==
  ASSUME TypeInv, NEW c \in Clients, CreateGet(c)
  PROVE  TypeInv'
<1> DEFINE release == request[c].release
<1>1. CASE Conflict(c)
  BY <1>1, TypeConflict
<1>2. CASE Goto(c, "require") /\ UNCHANGED <<journal, commands, request, pending, base, sent, reply>>
  BY <1>2, TypeMove DEF Labels, TypeInv, TypeOK
<1>3. CASE /\ Goto(c, IF journal = <<>> THEN "read" ELSE "control")
           /\ Prepare(c, Body(c, "release", release, None, {}, {}))
           /\ UNCHANGED <<journal, commands, request, base, sent, reply>>
  <2>1. release \in Releases
    BY ReleaseTypes DEF CreateGet, TypeInv, Phases
  <2>2. PICK label \in {"read", "control"} : Goto(c, label)
    BY <1>3
  <2>3. /\ label \in Labels /\ label # "create" /\ label \notin {"get", "result"}
        /\ "release" \in Events \union {"release"} /\ "release" \notin Outcomes
        /\ None \in Decisions \union {None}
        /\ {} \in SUBSET DOMAIN RunFacts /\ {} \in SUBSET DOMAIN TraceFacts
        /\ commands' \in Seq(Commands)
    BY <1>3 DEF Labels, Outcomes, TypeInv, TypeOK
  <2>4. QED BY <1>3, <2>1, <2>2, <2>3, TypePrepare
<1>4. QED BY <1>1, <1>2, <1>3 DEF CreateGet

LEMMA TypeAppend ==
  ASSUME TypeInv, NEW c \in Clients, AppendGet(c) \/ AppendRead(c) \/ AppendWrite(c)
  PROVE  TypeInv'
<1>1. CASE Conflict(c)
  BY <1>1, TypeConflict
<1>2. CASE AppendGet(c) /\ ~Conflict(c)
  BY <1>2, TypeMove DEF AppendGet, Labels, TypeInv, TypeOK
<1>3. CASE AppendRead(c)
  <2>1. Len(journal) \in Nat
        /\ (IF journal = <<>> THEN NoHash ELSE HashOf(journal[Len(journal)])) \in Hashes
    <3>1. CASE journal = <<>>
      BY <3>1 DEF Hashes
    <3>2. CASE journal # <<>>
      <4>1. journal[Len(journal)] \in Records
        BY <3>2 DEF TypeInv, TypeOK
      <4>2. HashOf(journal[Len(journal)]) \in Hashes
        BY <4>1 DEF Records, Hashes, HashOf
      <4>3. QED BY <3>2, <4>2 DEF TypeInv, TypeOK
    <3>3. QED BY <3>1, <3>2
  <2>2. base' \in [Clients -> [sequence : Nat, prev : Hashes]]
    BY <1>3, <2>1 DEF AppendRead, TypeInv, TypeOK
  <2>3. QED BY <1>3, <2>2, TypeMove DEF AppendRead, Labels, TypeInv, TypeOK
<1>4. CASE AppendWrite(c) /\ ~Conflict(c)
  <2> DEFINE record == [pending[c] EXCEPT !.prev = base[c].prev]
  <2>1. record \in Records
    <3>1. pending[c] \in Records
      BY <1>4 DEF AppendWrite, TypeInv, Phases
    <3>2. base[c].prev \in Hashes
      BY DEF TypeInv, TypeOK
    <3>3. QED BY <3>1, <3>2 DEF Records
  <2>2. journal' = Append(journal, record) /\ base' = [base EXCEPT ![c] = NoBase]
    BY <1>4 DEF AppendWrite
  <2>3. journal' \in Seq(Records)
    BY <2>1, <2>2 DEF TypeInv, TypeOK
  <2>4. NoBase \in [sequence : Nat, prev : Hashes]
    BY DEF NoBase, Hashes
  <2>5. base' \in [Clients -> [sequence : Nat, prev : Hashes]]
    BY <2>2, <2>4 DEF TypeInv, TypeOK
  <2>6. CASE pending[c].event = "release"
    BY <1>4, <2>3, <2>5, <2>6, TypeMove DEF AppendWrite, Labels
  <2>7. CASE pending[c].event # "release"
    BY <1>4, <2>3, <2>5, <2>7, TypeMove DEF AppendWrite, Labels
  <2>8. QED BY <2>6, <2>7
<1>5. QED BY <1>1, <1>2, <1>3, <1>4

\* The record of a decision, as the transition from validation makes it.
LEMMA TypeResult ==
  ASSUME TypeInv, NEW c \in Clients, AppendResult(c)
  PROVE  TypeInv'
<1> DEFINE event == pending[c].event
<1>1. CASE Conflict(c)
  BY <1>1, TypeConflict
<1>2. CASE Finish(c, "ok") /\ UNCHANGED <<journal, commands, sent>>
  BY <1>2, TypeFinish DEF TypeInv, TypeOK, Replies
<1>3. CASE /\ event \notin Outcomes /\ Goto(c, Continue(event))
           /\ IF event = "validated" THEN Prepare(c, Observed(c)) ELSE UNCHANGED pending
           /\ UNCHANGED <<journal, commands, request, base, sent, reply>>
  <2>1. /\ pc[c] = "result" /\ pending[c] \in Records
        /\ event \in {"released", "validated", "observed"}
    BY <1>3 DEF AppendResult, TypeInv, Phases, Records, Events
  <2>2. CASE event # "validated"
    <3>1. Continue(event) \in {"require", "control"} /\ (Continue(event) = "control" => event = "observed")
      BY <2>1, <2>2 DEF Continue
    <3>2. journal' \in Seq(Records) /\ base' \in [Clients -> [sequence : Nat, prev : Hashes]]
      BY <1>3 DEF TypeInv, TypeOK
    <3>3. QED BY <1>3, <2>1, <2>2, <3>1, <3>2, TypeMove DEF Labels
  <2>3. CASE event = "validated"
    <3> DEFINE canary == request[c].canary
               decision == EvaluateCanary(canary.window, canary.observation, canary.policy,
                                          pending[c].runs, pending[c].traces)
    <3>1. Goto(c, "get")
      BY <1>3, <2>3 DEF Continue
    <3>2. Prepare(c, Body(c, "observed", pending[c].release, decision, {}, pending[c].traces))
      BY <1>3, <2>3 DEF Observed
    <3>3. decision \in Decisions
      BY DecisionType
    <3>4. pending[c].release \in Releases /\ pending[c].traces \in SUBSET DOMAIN TraceFacts
      BY <2>1 DEF Records
    <3>5. /\ "get" \in Labels /\ "observed" \in Events \union {"release"}
          /\ "observed" \notin Outcomes /\ commands' \in Seq(Commands)
          /\ {} \in SUBSET DOMAIN RunFacts
      BY <1>3 DEF Labels, Events, Outcomes, TypeInv, TypeOK
    <3> HIDE DEF decision
    <3>6. QED BY <1>3, <3>1, <3>2, <3>3, <3>4, <3>5, TypePrepare
  <2>4. QED BY <2>2, <2>3
<1>4. QED BY <1>1, <1>2, <1>3 DEF AppendResult

LEMMA TypeRequire ==
  ASSUME TypeInv, NEW c \in Clients, Require(c)
  PROVE  TypeInv'
<1>1. CASE Conflict(c)
  BY <1>1, TypeConflict
<1>2. CASE Finish(c, "ok") /\ UNCHANGED <<journal, commands, sent>>
  BY <1>2, TypeFinish DEF TypeInv, TypeOK, Replies
<1> DEFINE confirmed(runs, traces) ==
      Body(c, "validated", Stored(journal), None, ConfirmedRuns(Stored(journal), runs),
           ConfirmedTraces(Stored(journal), traces))
<1>3. CASE /\ Found /\ Goto(c, "get")
           /\ \E runs \in Readable(request[c].canary.runs),
                 traces \in Readable(request[c].canary.traces) : Prepare(c, confirmed(runs, traces))
           /\ UNCHANGED <<journal, commands, request, base, sent, reply>>
  <2>1. PICK runs, traces : Prepare(c, confirmed(runs, traces))
    BY <1>3
  <2>2. /\ Stored(journal) \in Releases
        /\ ConfirmedRuns(Stored(journal), runs) \in SUBSET DOMAIN RunFacts
        /\ ConfirmedTraces(Stored(journal), traces) \in SUBSET DOMAIN TraceFacts
    BY <1>3, ReleaseTypes DEF Found, ConfirmedRuns, ConfirmedTraces
  <2>3. /\ "get" \in Labels /\ "validated" \in Events \union {"release"}
        /\ "validated" \notin Outcomes /\ commands' \in Seq(Commands)
        /\ None \in Decisions \union {None}
    BY <1>3 DEF Labels, Events, Outcomes, TypeInv, TypeOK
  <2>4. QED BY <1>3, <2>1, <2>2, <2>3, TypePrepare
<1>4. CASE /\ Found /\ Goto(c, "control")
           /\ Prepare(c, Body(c, "rolled_back", Stored(journal), "rollback", {}, {}))
           /\ UNCHANGED <<journal, commands, request, base, sent, reply>>
  <2>1. Stored(journal) \in Releases
    BY <1>4, ReleaseTypes DEF Found
  <2>2. /\ "control" \in Labels /\ "rolled_back" \in Events \union {"release"}
        /\ commands' \in Seq(Commands) /\ "rollback" \in Decisions
        /\ {} \in SUBSET DOMAIN RunFacts /\ {} \in SUBSET DOMAIN TraceFacts
        /\ EventAfter("rollback") = "rolled_back"
    BY <1>4 DEF Labels, Events, Outcomes, Decisions, EventAfter, TypeInv, TypeOK
  <2>3. QED BY <1>4, <2>1, <2>2, TypePrepare
<1>5. QED BY <1>1, <1>2, <1>3, <1>4 DEF Require

\* What reaches the controller is a release or a decision, and the event that
\* records it belongs to that command.
LEMMA CommandTypes ==
  ASSUME TypeInv, NEW c \in Clients, pc[c] = "control"
  PROVE  /\ CommandOf(pending[c]) \in {"release"} \union Decisions
         /\ EventAfter(CommandOf(pending[c])) \in {"released"} \union Outcomes
         /\ EventAfter(CommandOf(pending[c])) \in Outcomes =>
              /\ pending[c].decision \in Decisions
              /\ CommandOf(pending[c]) = pending[c].decision
         /\ pending[c] \in Records
<1>1. /\ pending[c] \in Records /\ pending[c].event \in {"release", "observed", "rolled_back"}
      /\ pending[c].event # "release" => pending[c].decision \in Decisions
  BY DEF TypeInv, Phases
<1>2. CASE pending[c].event = "release"
  BY <1>1, <1>2 DEF CommandOf, EventAfter, Outcomes
<1>3. CASE pending[c].event # "release"
  <2>1. pending[c].decision \in Decisions /\ CommandOf(pending[c]) = pending[c].decision
    BY <1>1, <1>3 DEF CommandOf
  <2>2. QED BY <1>1, <2>1 DEF EventAfter, Outcomes, Decisions
<1>4. QED BY <1>2, <1>3

LEMMA TypeIssue ==
  ASSUME TypeInv, NEW c \in Clients, pc[c] = "control", Issue(c)
  PROVE  commands' \in Seq(Commands)
<1>1. /\ CommandOf(pending[c]) \in {"release"} \union Decisions
      /\ pending[c].release \in Releases /\ sent[c] \in Nat
  BY CommandTypes DEF Records, TypeInv, TypeOK
<1>2. [command |-> CommandOf(pending[c]), by |-> c, nth |-> sent[c],
       release |-> pending[c].release] \in Commands
  BY <1>1 DEF Commands
<1>3. QED BY <1>2 DEF Issue, TypeInv, TypeOK

LEMMA TypeControl ==
  ASSUME TypeInv, NEW c \in Clients, Control(c)
  PROVE  TypeInv'
<1> DEFINE event == EventAfter(CommandOf(pending[c]))
<1>1. pc[c] = "control" /\ Goto(c, "get") /\ commands' \in Seq(Commands)
  BY TypeIssue DEF Control
<1>2. Prepare(c, Body(c, event, pending[c].release, pending[c].decision, {}, {}))
  BY DEF Control
<1>3. /\ event \in Events \union {"release"} /\ event # "release"
      /\ event \notin {"release", "released", "validated"} => pending[c].decision \in Decisions
      /\ event \in Outcomes => event = EventAfter(pending[c].decision)
      /\ pending[c].release \in Releases /\ pending[c].decision \in Decisions \union {None}
  BY <1>1, CommandTypes DEF Events, Outcomes, Records
<1>4. /\ "get" \in Labels
      /\ {} \in SUBSET DOMAIN RunFacts /\ {} \in SUBSET DOMAIN TraceFacts
      /\ UNCHANGED <<journal, request, base, sent, reply>>
  BY DEF Labels, Control
<1> HIDE DEF event
<1>5. QED BY <1>1, <1>2, <1>3, <1>4, TypePrepare

LEMMA TypeFailure ==
  ASSUME TypeInv, NEW c \in Clients, ControlFails(c) \/ Crash(c)
  PROVE  TypeInv'
<1>1. commands' \in Seq(Commands)
  BY TypeIssue DEF ControlFails, Crash, TypeInv, TypeOK
<1>2. QED BY <1>1, TypeFinish DEF ControlFails, Crash, Replies

LEMMA TypeNext == TypeInv /\ [Next]_vars => TypeInv'
<1>1. ASSUME TypeInv, NEW c \in Clients,
             BeginDeploy(c) \/ BeginRollback(c) \/ Serve(c) \/ Crash(c)
      PROVE  TypeInv'
  BY <1>1, TypeBegin, TypeCreate, TypeAppend, TypeResult, TypeRequire, TypeControl, TypeFailure
  DEF Serve
<1>2. ASSUME TypeInv, UNCHANGED vars PROVE TypeInv'
  BY <1>2 DEF TypeInv, TypeOK, Phases, vars
<1>3. QED BY <1>1, <1>2 DEF Next

\* Every variable keeps its type, whatever the clients do.
THEOREM TypeCorrect == Spec => []TypeOK
<1>1. TypeInv => TypeOK
  BY DEF TypeInv
<1>2. QED BY TypeInit, TypeNext, <1>1, PTL DEF Spec

-----------------------------------------------------------------------------
(* The hash chain of the database journal.                                 *)

LastHash(records) == IF records = <<>> THEN NoHash ELSE HashOf(records[Len(records)])

\* A client about to write holds the hash in front of its sequence: if nobody
\* wrote since, that is the hash of the last record.
BaseCurrent ==
  \A c \in Clients : pc[c] = "write" =>
    /\ base[c].sequence <= Len(journal)
    /\ base[c].sequence = Len(journal) => base[c].prev = LastHash(journal)

ChainInv == SqlChainIntact /\ BaseCurrent

\* Only a write changes the journal, and it appends the pending record.
LEMMA JournalStep ==
  ASSUME TypeInv, [Next]_vars, journal' # journal
  PROVE  \E c \in Clients : AppendWrite(c) /\ ~Conflict(c)
BY DEF Next, vars, BeginDeploy, BeginRollback, Serve, Crash, CreateGet, AppendGet, AppendRead,
       AppendWrite, AppendResult, Require, Control, ControlFails, Conflict

\* A client comes to its write from its read, and holds what it read until it
\* has written.
LEMMA BaseStep ==
  ASSUME TypeInv, [Next]_vars, NEW c \in Clients, pc'[c] = "write"
  PROVE  \/ base'[c] = [sequence |-> Len(journal), prev |-> LastHash(journal)] /\ journal' = journal
         \/ pc[c] = "write" /\ base'[c] = base[c]
<1>1. CASE UNCHANGED vars
  BY <1>1 DEF vars
<1>2. ASSUME NEW d \in Clients,
             BeginDeploy(d) \/ BeginRollback(d) \/ Serve(d) \/ Crash(d)
      PROVE  \/ base'[c] = [sequence |-> Len(journal), prev |-> LastHash(journal)]
                /\ journal' = journal
             \/ pc[c] = "write" /\ base'[c] = base[c]
  <2> USE DEF TypeInv, TypeOK, Goto
  <2>1. CASE BeginDeploy(d) \/ BeginRollback(d)
    BY <2>1 DEF BeginDeploy, BeginRollback
  <2>2. CASE CreateGet(d)
    BY <2>2 DEF CreateGet, Conflict, Finish
  <2>3. CASE AppendGet(d)
    BY <2>3 DEF AppendGet, Conflict, Finish
  <2>4. CASE AppendRead(d)
    BY <2>4 DEF AppendRead, LastHash
  <2>5. CASE AppendWrite(d)
    BY <2>5 DEF AppendWrite, Conflict, Finish
  <2>6. CASE AppendResult(d)
    <3>1. CASE Conflict(d) \/ Finish(d, "ok")
      BY <3>1 DEF Conflict, Finish
    <3>2. CASE Goto(d, Continue(pending[d].event)) /\ pending[d].event \notin Outcomes
               /\ UNCHANGED base
      <4>1. pending[d].event \in {"released", "validated", "observed"}
        BY <2>6, <3>2 DEF AppendResult, Phases, Records, Events
      <4>2. Continue(pending[d].event) # "write"
        BY <4>1 DEF Continue
      <4>3. QED BY <3>2, <4>2
    <3>3. QED BY <2>6, <3>1, <3>2 DEF AppendResult
  <2>7. CASE Require(d)
    BY <2>7 DEF Require, Conflict, Finish
  <2>8. CASE Control(d) \/ ControlFails(d) \/ Crash(d)
    BY <2>8 DEF Control, ControlFails, Crash, Finish
  <2>9. QED BY <1>2, <2>1, <2>2, <2>3, <2>4, <2>5, <2>6, <2>7, <2>8 DEF Serve
<1>3. QED BY <1>1, <1>2 DEF Next

\* Appending a record that continues the chain keeps it intact.
LEMMA ChainAppend ==
  ASSUME NEW records \in Seq(Records), NEW record \in Records, ChainIntact(records),
         record.prev = LastHash(records)
  PROVE  ChainIntact(Append(records, record))
<1> DEFINE longer == Append(records, record)
<1>1. SUFFICES ASSUME NEW i \in DOMAIN longer
               PROVE  longer[i].prev = IF i = 1 THEN NoHash ELSE HashOf(longer[i - 1])
  BY DEF ChainIntact
<1>2. CASE i = Len(records) + 1
  BY <1>2 DEF LastHash
<1>3. CASE i # Len(records) + 1
  <2>1. i \in DOMAIN records /\ longer[i] = records[i] /\ (i # 1 => longer[i - 1] = records[i - 1])
    BY <1>3
  <2>2. QED BY <2>1 DEF ChainIntact
<1>4. QED BY <1>2, <1>3

LEMMA ChainStep == TypeInv /\ TypeInv' /\ ChainInv /\ [Next]_vars => ChainInv'
<1> SUFFICES ASSUME TypeInv, TypeInv', ChainInv, [Next]_vars PROVE ChainInv'
  OBVIOUS
<1>1. CASE journal' = journal
  <2>1. SqlChainIntact'
    BY <1>1 DEF ChainInv, SqlChainIntact
  <2>2. BaseCurrent'
    BY <1>1, BaseStep DEF ChainInv, BaseCurrent, TypeInv, TypeOK
  <2>3. QED BY <2>1, <2>2 DEF ChainInv
<1>2. CASE journal' # journal
  <2>1. PICK c \in Clients : AppendWrite(c) /\ ~Conflict(c)
    BY <1>2, JournalStep
  <2> DEFINE record == [pending[c] EXCEPT !.prev = base[c].prev]
  <2>2. pc[c] = "write" /\ ~Claimed(c) /\ journal' = Append(journal, record)
    BY <2>1 DEF AppendWrite
  <2>3. pending[c] \in Records /\ base[c].prev \in Hashes /\ journal \in Seq(Records)
    BY <2>2 DEF TypeInv, TypeOK, Phases
  <2>4. record \in Records /\ record.prev = base[c].prev
    BY <2>3 DEF Records
  <2>5. SqlChainIntact'
    <3>1. SUFFICES ASSUME Backend = "sql" PROVE ChainIntact(Append(journal, record))
      BY <2>2 DEF SqlChainIntact
    <3>2. base[c].sequence = Len(journal)
      BY <2>2, <2>3, <3>1 DEF Claimed, ChainInv, BaseCurrent, TypeInv, TypeOK
    <3>3. record.prev = LastHash(journal)
      BY <2>2, <2>4, <3>2 DEF ChainInv, BaseCurrent
    <3>4. QED BY <2>3, <2>4, <3>1, <3>3, ChainAppend DEF ChainInv, SqlChainIntact
  <2>6. BaseCurrent'
    <3>1. SUFFICES ASSUME NEW d \in Clients, pc'[d] = "write"
                   PROVE  base'[d].sequence < Len(journal')
      BY DEF BaseCurrent, TypeInv, TypeOK
    <3>2. pc[d] = "write" /\ base'[d] = base[d]
      BY <1>2, <3>1, BaseStep
    <3>3. base[d].sequence <= Len(journal) /\ base[d].sequence \in Nat
      BY <3>2 DEF ChainInv, BaseCurrent, TypeInv, TypeOK
    <3>4. QED BY <2>2, <2>3, <3>2, <3>3
  <2>7. QED BY <2>5, <2>6 DEF ChainInv
<1>3. QED BY <1>1, <1>2

\* The chain of the database journal verifies in every reachable state, for any
\* number of racing, dying and failing requests.
THEOREM SqlChainCorrect == Spec => []SqlChainIntact
<1>1. Init => ChainInv
  BY DEF Init, ChainInv, SqlChainIntact, BaseCurrent, ChainIntact
<1>2. ChainInv => SqlChainIntact
  BY DEF ChainInv
<1>3. QED BY TypeInit, TypeNext, <1>1, ChainStep, <1>2, PTL DEF Spec

-----------------------------------------------------------------------------
(***************************************************************************)
(* What the journal can be trusted to say.                                 *)
(***************************************************************************)
\* One of the first records holds a request's decision.
DecidedIn(records, id, decision, last) ==
  \E j \in 1..last :
    /\ records[j].event = "observed" /\ records[j].decision = decision
    /\ RequestId(records[j]) = id

\* The store holds the runs as passed for the commit of the journal's release.
Confirmed(records, runs) ==
  \A id \in runs : RunFacts[id].status = "passed" /\ RunFacts[id].commit = Stored(records).commit

\* One of the first records holds a request's confirmed verification runs.
ValidatedIn(records, id, last) ==
  \E k \in 1..last :
    /\ records[k].event = "validated" /\ records[k].runs # {}
    /\ RequestId(records[k]) = id
    /\ Confirmed(records, records[k].runs)

\* Every outcome has its decision before it, every promotion its evidence.
RecordsBacked(records) ==
  \A j \in DOMAIN records :
    /\ records[j].event \in {"promoted", "paused"} =>
         /\ records[j].event = EventAfter(records[j].decision)
         /\ records[j].decision \in Decisions
         /\ DecidedIn(records, RequestId(records[j]), records[j].decision, j - 1)
    /\ records[j].event = "observed" /\ records[j].decision = "promote" =>
         /\ records[j].traces # {}
         /\ ValidatedIn(records, RequestId(records[j]), j - 1)

\* The same of the record a client is about to append.
Working == {"get", "read", "write", "result", "control"}

PendingBacked(c) ==
  LET record == pending[c] IN
  pc[c] \in Working =>
    /\ record.event # "release" \/ pc[c] = "control" => journal # <<>>
    /\ record.event = "validated" => Confirmed(journal, record.runs)
    /\ record.event = "observed" /\ record.decision = "promote" =>
         record.traces # {} /\ ValidatedIn(journal, <<c, sent[c]>>, Len(journal))
    /\ record.event \in {"promoted", "paused"} \union (IF pc[c] = "control" THEN {"observed"} ELSE {}) =>
         DecidedIn(journal, <<c, sent[c]>>, record.decision, Len(journal))
    /\ pc[c] = "result" =>
         \E i \in DOMAIN journal :
           /\ journal[i].event = record.event /\ journal[i].decision = record.decision
           /\ journal[i].runs = record.runs /\ RequestId(journal[i]) = <<c, sent[c]>>

HistoryInv ==
  /\ RecordsBacked(journal)
  /\ IntentRecorded
  /\ \A c \in Clients : PendingBacked(c)

-----------------------------------------------------------------------------
\* What a journal says it goes on saying when it grows.
LEMMA ConfirmedGrows ==
  ASSUME NEW records \in Seq(Records), NEW record \in Records, NEW runs,
         records # <<>>, Confirmed(records, runs)
  PROVE  Confirmed(Append(records, record), runs)
<1>1. Stored(Append(records, record)) = Stored(records)
  BY DEF Stored
<1>2. QED BY <1>1 DEF Confirmed

LEMMA DecidedGrows ==
  ASSUME NEW records \in Seq(Records), NEW record \in Records, NEW id, NEW decision,
         NEW last \in 0..Len(records), DecidedIn(records, id, decision, last)
  PROVE  DecidedIn(Append(records, record), id, decision, last)
<1>1. \A i \in 1..last : Append(records, record)[i] = records[i]
  OBVIOUS
<1>2. QED BY <1>1 DEF DecidedIn

LEMMA ValidatedGrows ==
  ASSUME NEW records \in Seq(Records), NEW record \in Records, NEW id,
         NEW last \in 0..Len(records), records # <<>>, ValidatedIn(records, id, last)
  PROVE  ValidatedIn(Append(records, record), id, last)
<1>1. \A i \in 1..last : Append(records, record)[i] = records[i]
  OBVIOUS
<1>2. QED BY <1>1, ConfirmedGrows DEF ValidatedIn

\* What was said in the first records was said in all of them.
LEMMA HistoryWidens ==
  ASSUME NEW records, NEW id, NEW decision, NEW last \in Nat, NEW later \in Nat, last <= later
  PROVE  /\ DecidedIn(records, id, decision, last) => DecidedIn(records, id, decision, later)
         /\ ValidatedIn(records, id, last) => ValidatedIn(records, id, later)
BY DEF DecidedIn, ValidatedIn

LEMMA HistoryGrows ==
  ASSUME NEW records \in Seq(Records), NEW record \in Records, NEW longer,
         longer = Append(records, record)
  PROVE  /\ \A id, decision : DecidedIn(records, id, decision, Len(records)) =>
                                DecidedIn(longer, id, decision, Len(longer))
         /\ records # <<>> =>
              \A id : ValidatedIn(records, id, Len(records)) => ValidatedIn(longer, id, Len(longer))
         /\ records # <<>> =>
              \A runs : Confirmed(records, runs) => Confirmed(longer, runs)
<1>1. /\ Len(records) \in Nat /\ Len(longer) \in Nat /\ Len(records) <= Len(longer)
      /\ Len(records) \in 0..Len(records)
  OBVIOUS
<1>2. ASSUME NEW id, NEW decision, DecidedIn(records, id, decision, Len(records))
      PROVE  DecidedIn(longer, id, decision, Len(longer))
  <2>1. DecidedIn(longer, id, decision, Len(records))
    BY <1>1, <1>2, DecidedGrows
  <2>2. QED BY <1>1, <2>1, HistoryWidens
<1>3. ASSUME NEW id, records # <<>>, ValidatedIn(records, id, Len(records))
      PROVE  ValidatedIn(longer, id, Len(longer))
  <2>1. ValidatedIn(longer, id, Len(records))
    BY <1>1, <1>3, ValidatedGrows
  <2>2. QED BY <1>1, <2>1, HistoryWidens
<1>4. ASSUME NEW runs, records # <<>>, Confirmed(records, runs) PROVE Confirmed(longer, runs)
  BY <1>4, ConfirmedGrows
<1>5. QED BY <1>2, <1>3, <1>4

-----------------------------------------------------------------------------
(* The acting client: how each action leaves its pending record backed.    *)

\* Any other client sees the journal grow and nothing else.
LEMMA BystanderBacked ==
  ASSUME TypeInv, TypeInv', HistoryInv, NEW c \in Clients,
         pc'[c] = pc[c], pending'[c] = pending[c], sent'[c] = sent[c],
         journal' = journal \/ \E record \in Records : journal' = Append(journal, record)
  PROVE  PendingBacked(c)'
<1>1. PendingBacked(c)
  BY DEF HistoryInv
<1>2. CASE journal' = journal
  BY <1>1, <1>2 DEF PendingBacked
<1>3. ASSUME NEW record \in Records, journal' = Append(journal, record) PROVE PendingBacked(c)'
  <2>1. journal \in Seq(Records) /\ Len(journal) \in Nat /\ Len(journal') = Len(journal) + 1
    BY <1>3 DEF TypeInv, TypeOK
  <2>2. \A id, decision :
          DecidedIn(journal, id, decision, Len(journal)) =>
            DecidedIn(journal', id, decision, Len(journal'))
    BY <1>3, <2>1, HistoryGrows
  <2>3. journal # <<>> =>
          /\ \A id : ValidatedIn(journal, id, Len(journal)) => ValidatedIn(journal', id, Len(journal'))
          /\ \A runs : Confirmed(journal, runs) => Confirmed(journal', runs)
    BY <1>3, <2>1, HistoryGrows
  <2>4. journal' # <<>> /\ \A i \in DOMAIN journal : i \in DOMAIN journal' /\ journal'[i] = journal[i]
    BY <1>3, <2>1
  <2>5. QED BY <1>1, <2>2, <2>3, <2>4 DEF PendingBacked, Working
<1>4. QED BY <1>2, <1>3

\* Leaving a request, or reaching a point where nothing is pending.
LEMMA NothingPending ==
  ASSUME NEW c \in Clients, pc'[c] \notin Working
  PROVE  PendingBacked(c)'
BY DEF PendingBacked

LEMMA FinishBacked ==
  ASSUME TypeInv, NEW c \in Clients, NEW answer, Finish(c, answer)
  PROVE  PendingBacked(c)'
BY NothingPending DEF Finish, Goto, TypeInv, TypeOK, Working

LEMMA CreateBacked ==
  ASSUME TypeInv, HistoryInv, NEW c \in Clients, BeginDeploy(c) \/ BeginRollback(c) \/ CreateGet(c)
  PROVE  PendingBacked(c)'
<1>1. CASE BeginDeploy(c) \/ BeginRollback(c)
  BY <1>1, NothingPending DEF BeginDeploy, BeginRollback, Goto, TypeInv, TypeOK, Working
<1>2. CASE CreateGet(c)
  <2>1. CASE Conflict(c)
    BY <2>1, FinishBacked DEF Conflict
  <2>2. CASE Goto(c, "require")
    BY <2>2, NothingPending DEF Goto, TypeInv, TypeOK, Working
  <2>3. CASE /\ Goto(c, IF journal = <<>> THEN "read" ELSE "control")
             /\ Prepare(c, Body(c, "release", request[c].release, None, {}, {}))
             /\ UNCHANGED journal
    BY <2>3 DEF PendingBacked, Goto, Prepare, Body, TypeInv, TypeOK
  <2>4. QED BY <1>2, <2>1, <2>2, <2>3 DEF CreateGet
<1>3. QED BY <1>1, <1>2

LEMMA AppendBacked ==
  ASSUME TypeInv, TypeInv', HistoryInv, NEW c \in Clients,
         AppendGet(c) \/ AppendRead(c) \/ AppendWrite(c)
  PROVE  PendingBacked(c)'
<1>1. PendingBacked(c)
  BY DEF HistoryInv
<1>2. CASE Conflict(c)
  BY <1>2, FinishBacked DEF Conflict
<1>3. CASE (AppendGet(c) \/ AppendRead(c)) /\ ~Conflict(c)
  BY <1>1, <1>3 DEF AppendGet, AppendRead, PendingBacked, Goto, TypeInv, TypeOK, Working
<1>4. CASE AppendWrite(c) /\ ~Conflict(c)
  <2> DEFINE record == [pending[c] EXCEPT !.prev = base[c].prev]
  <2>1. /\ pc[c] = "write" /\ journal' = Append(journal, record) /\ pending' = pending /\ sent' = sent
        /\ pc' = [pc EXCEPT ![c] = IF pending[c].event = "release" THEN "control" ELSE "result"]
    BY <1>4 DEF AppendWrite, Goto
  <2>2. /\ pending[c] \in Records /\ base[c].prev \in Hashes /\ journal \in Seq(Records)
        /\ RequestId(pending[c]) = <<c, sent[c]>>
    BY <2>1 DEF TypeInv, TypeOK, Phases, RequestId
  <2>3. /\ record \in Records /\ record.event = pending[c].event /\ record.runs = pending[c].runs
        /\ record.decision = pending[c].decision /\ RequestId(record) = <<c, sent[c]>>
    BY <2>2 DEF Records, RequestId
  <2>4. journal' # <<>> /\ Len(journal') \in DOMAIN journal' /\ journal'[Len(journal')] = record
        /\ Len(journal) \in Nat /\ Len(journal') = Len(journal) + 1
    BY <2>1, <2>2, <2>3
  <2>5. CASE pending[c].event = "release"
    BY <2>1, <2>4, <2>5 DEF PendingBacked, TypeInv, TypeOK
  <2>6. CASE pending[c].event # "release"
    <3>1. pc'[c] = "result" /\ pending'[c] = pending[c] /\ sent'[c] = sent[c]
      BY <2>1, <2>6 DEF TypeInv, TypeOK
    <3>2. journal # <<>>
      BY <1>1, <2>1, <2>6 DEF PendingBacked, Working
    <3>3. record \in Records /\ journal' = Append(journal, record) /\ journal \in Seq(Records)
      BY <2>1, <2>2, <2>3
    <3>4. /\ \A id, decision :
               DecidedIn(journal, id, decision, Len(journal)) =>
                 DecidedIn(journal', id, decision, Len(journal'))
          /\ \A id : ValidatedIn(journal, id, Len(journal)) =>
                 ValidatedIn(journal', id, Len(journal'))
          /\ \A runs : Confirmed(journal, runs) => Confirmed(journal', runs)
      <4> HIDE DEF record
      <4>1. QED BY <3>2, <3>3, HistoryGrows
    <3>5. \E i \in DOMAIN journal' :
             /\ journal'[i].event = pending[c].event /\ journal'[i].decision = pending[c].decision
             /\ journal'[i].runs = pending[c].runs /\ RequestId(journal'[i]) = <<c, sent[c]>>
      BY <2>3, <2>4
    <3>6. QED BY <1>1, <2>1, <2>4, <3>1, <3>4, <3>5 DEF PendingBacked, Working
  <2>7. QED BY <2>5, <2>6
<1>5. QED BY <1>2, <1>3, <1>4

LEMMA ResultBacked ==
  ASSUME TypeInv, HistoryInv, NEW c \in Clients, AppendResult(c)
  PROVE  PendingBacked(c)'
<1> DEFINE event == pending[c].event
<1>1. CASE Conflict(c) \/ Finish(c, "ok")
  BY <1>1, FinishBacked DEF Conflict
<1>2. CASE /\ event \notin Outcomes /\ Goto(c, Continue(event))
           /\ IF event = "validated" THEN Prepare(c, Observed(c)) ELSE UNCHANGED pending
           /\ UNCHANGED <<journal, commands, request, base, sent, reply>>
  <2>1. /\ pc[c] = "result" /\ pending[c] \in Records /\ journal \in Seq(Records)
        /\ event \in {"released", "validated", "observed"}
    BY <1>2 DEF AppendResult, TypeInv, TypeOK, Phases, Records, Events
  <2>2. PICK i \in DOMAIN journal :
          /\ journal[i].event = event /\ journal[i].decision = pending[c].decision
          /\ journal[i].runs = pending[c].runs /\ RequestId(journal[i]) = <<c, sent[c]>>
    BY <2>1 DEF HistoryInv, PendingBacked, Working
  <2>3. journal # <<>> /\ i \in 1..Len(journal)
    BY <2>1, <2>2
  <2>4. CASE event = "released"
    BY <1>2, <2>4, NothingPending DEF Continue, Goto, TypeInv, TypeOK, Working
  <2>5. CASE event = "observed"
    <3>1. /\ pc'[c] = "control" /\ pending'[c] = pending[c] /\ sent'[c] = sent[c]
          /\ journal' = journal
      BY <1>2, <2>5 DEF Continue, Goto, TypeInv, TypeOK
    <3>2. DecidedIn(journal, <<c, sent[c]>>, pending[c].decision, Len(journal))
      BY <2>2, <2>3, <2>5 DEF DecidedIn
    <3>3. PendingBacked(c)
      BY DEF HistoryInv
    <3>4. QED BY <2>1, <2>3, <2>5, <3>1, <3>2, <3>3 DEF PendingBacked, Working
  <2>6. CASE event = "validated"
    <3> DEFINE canary == request[c].canary
               decision == EvaluateCanary(canary.window, canary.observation, canary.policy,
                                          pending[c].runs, pending[c].traces)
    <3>1. /\ pc'[c] = "get" /\ sent'[c] = sent[c] /\ journal' = journal
          /\ pending'[c] = Observed(c)
      BY <1>2, <2>6 DEF Continue, Goto, Prepare, TypeInv, TypeOK
    <3>2. /\ pending'[c].event = "observed" /\ pending'[c].decision = decision
          /\ pending'[c].traces = pending[c].traces
      BY <3>1 DEF Observed, Body
    <3>3. decision = "promote" => pending[c].runs # {} /\ pending[c].traces # {}
      BY DecisionType
    <3>4. Confirmed(journal, pending[c].runs)
      BY <2>1, <2>6 DEF HistoryInv, PendingBacked, Working
    <3>5. pending[c].runs # {} => ValidatedIn(journal, <<c, sent[c]>>, Len(journal))
      BY <2>2, <2>3, <2>6, <3>4 DEF ValidatedIn
    <3> HIDE DEF decision
    <3>6. QED BY <2>3, <3>1, <3>2, <3>3, <3>5 DEF PendingBacked
  <2>7. QED BY <2>1, <2>4, <2>5, <2>6
<1>3. QED BY <1>1, <1>2 DEF AppendResult

LEMMA RequireBacked ==
  ASSUME TypeInv, HistoryInv, NEW c \in Clients, Require(c)
  PROVE  PendingBacked(c)'
<1>1. CASE Conflict(c) \/ Finish(c, "ok")
  BY <1>1, FinishBacked DEF Conflict
<1>2. CASE /\ Found /\ Goto(c, "get") /\ UNCHANGED journal
           /\ \E runs, traces :
                Prepare(c, Body(c, "validated", Stored(journal), None,
                                ConfirmedRuns(Stored(journal), runs),
                                ConfirmedTraces(Stored(journal), traces)))
  <2>1. PICK runs, traces :
          Prepare(c, Body(c, "validated", Stored(journal), None,
                          ConfirmedRuns(Stored(journal), runs),
                          ConfirmedTraces(Stored(journal), traces)))
    BY <1>2
  <2>2. /\ pc'[c] = "get" /\ journal' = journal /\ journal # <<>>
        /\ pending'[c].event = "validated"
        /\ pending'[c].runs = ConfirmedRuns(Stored(journal), runs)
    BY <1>2, <2>1 DEF Found, Goto, Prepare, Body, TypeInv, TypeOK
  <2>3. Confirmed(journal, ConfirmedRuns(Stored(journal), runs))
    BY DEF Confirmed, ConfirmedRuns
  <2>4. QED BY <2>2, <2>3 DEF PendingBacked
<1>3. CASE /\ Found /\ Goto(c, "control") /\ UNCHANGED journal
           /\ Prepare(c, Body(c, "rolled_back", Stored(journal), "rollback", {}, {}))
  <2>1. /\ pc'[c] = "control" /\ journal' = journal /\ journal # <<>>
        /\ pending'[c].event = "rolled_back"
    BY <1>3 DEF Found, Goto, Prepare, Body, TypeInv, TypeOK
  <2>2. QED BY <2>1 DEF PendingBacked
<1>4. QED BY <1>1, <1>2, <1>3 DEF Require

\* A promote or pause command comes from a recorded decision.
LEMMA CommandBacked ==
  ASSUME TypeInv, HistoryInv, NEW c \in Clients, pc[c] = "control",
         CommandOf(pending[c]) \in {"promote", "pause"}
  PROVE  /\ pending[c].event = "observed" /\ CommandOf(pending[c]) = pending[c].decision
         /\ DecidedIn(journal, <<c, sent[c]>>, pending[c].decision, Len(journal))
<1>1. /\ pending[c].event \in {"release", "observed", "rolled_back"}
      /\ pending[c].event = "rolled_back" => EventAfter(pending[c].decision) = "rolled_back"
  BY DEF TypeInv, Phases, Outcomes
<1>2. pending[c].event # "release" /\ CommandOf(pending[c]) = pending[c].decision
  BY DEF CommandOf
<1>3. pending[c].event # "rolled_back"
  BY <1>1, <1>2 DEF EventAfter
<1>4. QED BY <1>1, <1>2, <1>3 DEF HistoryInv, PendingBacked, Working

LEMMA ControlBacked ==
  ASSUME TypeInv, HistoryInv, NEW c \in Clients, Control(c)
  PROVE  PendingBacked(c)'
<1> DEFINE event == EventAfter(CommandOf(pending[c]))
<1>1. /\ pc[c] = "control" /\ pc'[c] = "get" /\ journal' = journal /\ sent'[c] = sent[c]
      /\ pending'[c].event = event /\ pending'[c].decision = pending[c].decision
  BY DEF Control, Goto, Prepare, Body, TypeInv, TypeOK
<1>2. journal # <<>> /\ event \in {"released"} \union Outcomes
  BY <1>1, CommandTypes DEF HistoryInv, PendingBacked, Working
<1>3. event \in {"promoted", "paused"} => CommandOf(pending[c]) \in {"promote", "pause"}
  BY <1>1, CommandTypes DEF EventAfter, Decisions
<1>4. event \in {"promoted", "paused"} =>
        DecidedIn(journal, <<c, sent[c]>>, pending[c].decision, Len(journal))
  BY <1>1, <1>3, CommandBacked
<1> HIDE DEF event
<1>5. event \in {"released", "promoted", "paused", "rolled_back"}
  BY <1>2 DEF Outcomes
<1>6. QED BY <1>1, <1>2, <1>4, <1>5 DEF PendingBacked

-----------------------------------------------------------------------------
(* Every step.                                                             *)

Acts(c) == BeginDeploy(c) \/ BeginRollback(c) \/ Serve(c) \/ Crash(c)

LEMMA ActorBacked ==
  ASSUME TypeInv, TypeInv', HistoryInv, NEW c \in Clients, Acts(c)
  PROVE  PendingBacked(c)'
<1>1. CASE BeginDeploy(c) \/ BeginRollback(c) \/ CreateGet(c)
  BY <1>1, CreateBacked
<1>2. CASE AppendGet(c) \/ AppendRead(c) \/ AppendWrite(c)
  BY <1>2, AppendBacked
<1>3. CASE AppendResult(c) \/ Require(c) \/ Control(c)
  BY <1>3, ResultBacked, RequireBacked, ControlBacked
<1>4. CASE ControlFails(c) \/ Crash(c)
  BY <1>4, FinishBacked DEF ControlFails, Crash
<1>5. QED BY <1>1, <1>2, <1>3, <1>4 DEF Acts, Serve

\* A step of one client leaves the others where they are.
LEMMA Bystander ==
  ASSUME TypeInv, NEW c \in Clients, Acts(c), NEW d \in Clients, d # c
  PROVE  /\ pc'[d] = pc[d] /\ pending'[d] = pending[d] /\ sent'[d] = sent[d]
         /\ request'[d] = request[d]
<1> USE DEF TypeInv, TypeOK, Goto
<1>1. CASE BeginDeploy(c) \/ BeginRollback(c)
  BY <1>1 DEF BeginDeploy, BeginRollback
<1>2. CASE CreateGet(c)
  BY <1>2 DEF CreateGet, Conflict, Finish, Prepare
<1>3. CASE AppendGet(c) \/ AppendRead(c) \/ AppendWrite(c)
  BY <1>3 DEF AppendGet, AppendRead, AppendWrite, Conflict, Finish
<1>4. CASE AppendResult(c)
  BY <1>4 DEF AppendResult, Conflict, Finish, Prepare
<1>5. CASE Require(c)
  BY <1>5 DEF Require, Conflict, Finish, Prepare
<1>6. CASE Control(c) \/ ControlFails(c) \/ Crash(c)
  BY <1>6 DEF Control, ControlFails, Crash, Finish, Prepare
<1>7. QED BY <1>1, <1>2, <1>3, <1>4, <1>5, <1>6 DEF Acts, Serve

\* The journal only grows, by the record the writing client had pending.
LEMMA JournalGrows ==
  ASSUME TypeInv, [Next]_vars, journal' # journal
  PROVE  \E c \in Clients, record \in Records :
           /\ pc[c] = "write" /\ journal' = Append(journal, record)
           /\ record = [pending[c] EXCEPT !.prev = base[c].prev]
           /\ pending[c] \in Records
<1>1. PICK c \in Clients : AppendWrite(c) /\ ~Conflict(c)
  BY JournalStep
<1> DEFINE record == [pending[c] EXCEPT !.prev = base[c].prev]
<1>2. pc[c] = "write" /\ journal' = Append(journal, record)
  BY <1>1 DEF AppendWrite
<1>3. pending[c] \in Records /\ base[c].prev \in Hashes
  BY <1>2 DEF TypeInv, TypeOK, Phases
<1>4. record \in Records
  BY <1>3 DEF Records
<1>5. QED BY <1>2, <1>3, <1>4

LEMMA RecordsStep ==
  ASSUME TypeInv, HistoryInv, [Next]_vars
  PROVE  RecordsBacked(journal')
<1>1. CASE journal' = journal
  BY <1>1 DEF HistoryInv
<1>2. CASE journal' # journal
  <2>1. PICK c \in Clients, record \in Records :
           /\ pc[c] = "write" /\ journal' = Append(journal, record)
           /\ record = [pending[c] EXCEPT !.prev = base[c].prev]
           /\ pending[c] \in Records
    BY <1>2, JournalGrows
  <2>2. /\ record.event = pending[c].event /\ record.decision = pending[c].decision
        /\ record.traces = pending[c].traces /\ RequestId(record) = <<c, sent[c]>>
    BY <2>1 DEF Records, RequestId, TypeInv, Phases
  <2>3. SUFFICES ASSUME NEW j \in DOMAIN journal'
                 PROVE  /\ journal'[j].event \in {"promoted", "paused"} =>
                            /\ journal'[j].event = EventAfter(journal'[j].decision)
                            /\ journal'[j].decision \in Decisions
                            /\ DecidedIn(journal', RequestId(journal'[j]), journal'[j].decision, j - 1)
                        /\ journal'[j].event = "observed" /\ journal'[j].decision = "promote" =>
                            /\ journal'[j].traces # {}
                            /\ ValidatedIn(journal', RequestId(journal'[j]), j - 1)
    BY DEF RecordsBacked
  <2>4. journal \in Seq(Records) /\ Len(journal') = Len(journal) + 1 /\ Len(journal) \in Nat
        /\ Len(journal) \in 0..Len(journal)
    BY <2>1 DEF TypeInv, TypeOK
  <2>5. CASE j = Len(journal) + 1
    <3>1. journal'[j] = record /\ j - 1 = Len(journal)
      BY <2>1, <2>4, <2>5
    <3>2. PendingBacked(c) /\ Phases
      BY DEF HistoryInv, TypeInv
    <3>3. ASSUME record.event \in {"promoted", "paused"}
          PROVE  /\ record.event = EventAfter(record.decision) /\ record.decision \in Decisions
                 /\ DecidedIn(journal', RequestId(record), record.decision, j - 1)
      <4>1. DecidedIn(journal, RequestId(record), record.decision, Len(journal))
        BY <2>1, <2>2, <3>2, <3>3 DEF PendingBacked, Working
      <4>2. DecidedIn(journal', RequestId(record), record.decision, Len(journal))
        BY <2>1, <2>4, <4>1, DecidedGrows
      <4>3. record.event = EventAfter(record.decision) /\ record.decision \in Decisions
        BY <2>1, <2>2, <3>2, <3>3 DEF Phases, Outcomes
      <4>4. QED BY <3>1, <4>2, <4>3
    <3>4. ASSUME record.event = "observed", record.decision = "promote"
          PROVE  record.traces # {} /\ ValidatedIn(journal', RequestId(record), j - 1)
      <4>1. record.traces # {} /\ journal # <<>>
            /\ ValidatedIn(journal, RequestId(record), Len(journal))
        BY <2>1, <2>2, <3>2, <3>4 DEF PendingBacked, Working
      <4>2. ValidatedIn(journal', RequestId(record), Len(journal))
        BY <2>1, <2>4, <4>1, ValidatedGrows
      <4>3. QED BY <3>1, <4>1, <4>2
    <3>5. QED BY <3>1, <3>3, <3>4
  <2>6. CASE j # Len(journal) + 1
    <3>1. j \in DOMAIN journal /\ journal'[j] = journal[j] /\ j - 1 \in 0..Len(journal)
          /\ journal # <<>>
      BY <2>1, <2>4, <2>6
    <3>2. RecordsBacked(journal)
      BY DEF HistoryInv
    <3>3. ASSUME NEW id, NEW decision, DecidedIn(journal, id, decision, j - 1)
          PROVE  DecidedIn(journal', id, decision, j - 1)
      BY <2>1, <2>4, <3>1, <3>3, DecidedGrows
    <3>4. ASSUME NEW id, ValidatedIn(journal, id, j - 1)
          PROVE  ValidatedIn(journal', id, j - 1)
      BY <2>1, <2>4, <3>1, <3>4, ValidatedGrows
    <3>5. QED BY <3>1, <3>2, <3>3, <3>4 DEF RecordsBacked
  <2>7. QED BY <2>5, <2>6
<1>3. QED BY <1>1, <1>2

\* A step issues no command, or that of a client under control.
LEMMA CommandStep ==
  ASSUME TypeInv, [Next]_vars
  PROVE  \/ commands' = commands
         \/ \E c \in Clients : pc[c] = "control" /\ Issue(c) /\ journal' = journal
<1>1. ASSUME NEW c \in Clients, Acts(c)
      PROVE  commands' = commands \/ (pc[c] = "control" /\ Issue(c) /\ journal' = journal)
  BY <1>1 DEF Acts, Serve, BeginDeploy, BeginRollback, Crash, CreateGet, AppendGet, AppendRead,
              AppendWrite, AppendResult, Require, Control, ControlFails, Conflict
<1>2. QED BY <1>1 DEF Next, vars, Acts

LEMMA IntentStep ==
  ASSUME TypeInv, TypeInv', HistoryInv, [Next]_vars
  PROVE  IntentRecorded'
<1> DEFINE Intended(k) ==
      commands'[k].command \in {"promote", "pause"} =>
        \E i \in DOMAIN journal' :
          /\ journal'[i].event = "observed" /\ journal'[i].decision = commands'[k].command
          /\ RequestId(journal'[i]) = RequestId(commands'[k])
<1>1. SUFFICES ASSUME NEW k \in DOMAIN commands' PROVE Intended(k)
  BY DEF IntentRecorded, RequestId
<1>2. ASSUME k \in DOMAIN commands, commands'[k] = commands[k] PROVE Intended(k)
  <2>1. \A i \in DOMAIN journal : i \in DOMAIN journal' /\ journal'[i] = journal[i]
    <3>1. CASE journal' = journal
      BY <3>1
    <3>2. CASE journal' # journal
      <4>1. PICK record \in Records : journal' = Append(journal, record)
        BY <3>2, JournalGrows
      <4>2. journal \in Seq(Records)
        BY DEF TypeInv, TypeOK
      <4>3. QED BY <4>1, <4>2
    <3>3. QED BY <3>1, <3>2
  <2>2. QED BY <1>2, <2>1 DEF HistoryInv, IntentRecorded, RequestId
<1>3. CASE commands' = commands
  BY <1>2, <1>3
<1>4. ASSUME NEW c \in Clients, pc[c] = "control", Issue(c), journal' = journal
      PROVE  Intended(k)
  <2> DEFINE command == [command |-> CommandOf(pending[c]), by |-> c, nth |-> sent[c],
                         release |-> pending[c].release]
  <2>1. commands' = Append(commands, command) /\ commands \in Seq(Commands)
    BY <1>4 DEF Issue, TypeInv, TypeOK
  <2>2. CASE k \in DOMAIN commands
    BY <1>2, <2>1, <2>2
  <2>3. CASE k \notin DOMAIN commands
    <3>1. commands'[k] = command
      BY <2>1, <2>3
    <3>2. SUFFICES ASSUME CommandOf(pending[c]) \in {"promote", "pause"}
                   PROVE  \E i \in DOMAIN journal :
                            /\ journal[i].event = "observed"
                            /\ journal[i].decision = CommandOf(pending[c])
                            /\ RequestId(journal[i]) = <<c, sent[c]>>
      BY <1>4, <3>1 DEF RequestId
    <3>3. DecidedIn(journal, <<c, sent[c]>>, CommandOf(pending[c]), Len(journal))
      BY <1>4, <3>2, CommandBacked
    <3>4. QED BY <3>3 DEF DecidedIn, TypeInv, TypeOK
  <2>4. QED BY <2>2, <2>3
<1>5. QED BY <1>3, <1>4, CommandStep

LEMMA HistoryStep == TypeInv /\ TypeInv' /\ HistoryInv /\ [Next]_vars => HistoryInv'
<1> SUFFICES ASSUME TypeInv, TypeInv', HistoryInv, [Next]_vars PROVE HistoryInv'
  OBVIOUS
<1>1. RecordsBacked(journal') /\ IntentRecorded'
  BY RecordsStep, IntentStep
<1>2. ASSUME NEW d \in Clients PROVE PendingBacked(d)'
  <2>1. CASE UNCHANGED vars
    BY <2>1 DEF vars, HistoryInv, PendingBacked
  <2>2. ASSUME NEW c \in Clients, Acts(c) PROVE PendingBacked(d)'
    <3>1. CASE d = c
      BY <2>2, <3>1, ActorBacked
    <3>2. CASE d # c
      BY <2>2, <3>2, Bystander, BystanderBacked, JournalGrows
    <3>3. QED BY <3>1, <3>2
  <2>3. QED BY <2>1, <2>2 DEF Next, Acts
<1>3. QED BY <1>1, <1>2 DEF HistoryInv

LEMMA HistoryInit == Init => HistoryInv
BY DEF Init, HistoryInv, RecordsBacked, IntentRecorded, PendingBacked, Working

\* Every promotion or pause the controller was told was recorded first, for any
\* number of clients, crashes and failures.
THEOREM IntentCorrect == Spec => []IntentRecorded
<1>1. HistoryInv => IntentRecorded
  BY DEF HistoryInv
<1>2. QED BY TypeInit, TypeNext, HistoryInit, HistoryStep, <1>1, PTL DEF Spec

\* No journal ever holds a promotion that its recorded decision, traces and
\* passed verification runs do not back.
THEOREM PromotionCorrect == Spec => []PromotionBacked
<1>1. TypeInv /\ HistoryInv => PromotionBacked
  <2>1. SUFFICES ASSUME TypeInv, HistoryInv, NEW i \in DOMAIN journal,
                        journal[i].event = "promoted"
                 PROVE  \E j \in 1..(i - 1) :
                          /\ journal[j].event = "observed" /\ journal[j].decision = "promote"
                          /\ RequestId(journal[j]) = RequestId(journal[i])
                          /\ journal[j].traces # {}
                          /\ \E k \in 1..(j - 1) :
                               /\ journal[k].event = "validated" /\ journal[k].runs # {}
                               /\ RequestId(journal[k]) = RequestId(journal[j])
                               /\ \A id \in journal[k].runs :
                                    RunFacts[id].status = "passed"
                                    /\ RunFacts[id].commit = Stored(journal).commit
    BY DEF PromotionBacked
  <2>2. RecordsBacked(journal) /\ i \in 1..Len(journal)
    BY <2>1 DEF HistoryInv, TypeInv, TypeOK
  <2>3. journal[i].decision \in Decisions /\ EventAfter(journal[i].decision) = "promoted"
    BY <2>1, <2>2 DEF RecordsBacked
  <2>4. journal[i].decision = "promote"
    BY <2>3 DEF EventAfter, Decisions
  <2>5. PICK j \in 1..(i - 1) : /\ journal[j].event = "observed" /\ journal[j].decision = "promote"
                                /\ RequestId(journal[j]) = RequestId(journal[i])
    BY <2>1, <2>2, <2>4 DEF RecordsBacked, DecidedIn
  <2>6. j \in DOMAIN journal
    BY <2>2
  <2>7. journal[j].traces # {} /\ ValidatedIn(journal, RequestId(journal[j]), j - 1)
    BY <2>2, <2>5, <2>6 DEF RecordsBacked
  <2>8. QED BY <2>5, <2>7 DEF ValidatedIn, Confirmed
<1>2. QED BY TypeInit, TypeNext, HistoryInit, HistoryStep, <1>1, PTL DEF Spec

-----------------------------------------------------------------------------
(* Nothing is promoted or paused that was not released.                    *)

\* The controller was told to release a commit.
Commissioned(told, commit) ==
  \E i \in DOMAIN told : told[i].command = "release" /\ told[i].release.commit = commit

\* observe() is reached after the client's own release command or a released
\* record, and append() takes only records about the commit of the journal.
Prepared(c) ==
  /\ pc[c] = "require" /\ request[c].kind = "deploy" =>
       journal # <<>> /\ Commissioned(commands, Stored(journal).commit)
  /\ pc[c] \in Working =>
       /\ pending[c].event \in {"released", "validated", "observed"} =>
            Commissioned(commands, pending[c].release.commit)
       /\ pending[c].event = "released" /\ pc[c] # "get" =>
            journal # <<>> /\ Stored(journal).commit = pending[c].release.commit

ReleasedBacked ==
  \A j \in DOMAIN journal : journal[j].event = "released" =>
    Commissioned(commands, Stored(journal).commit)

CommissionInv == ReleasedBacked /\ ReleasedFirst /\ \A c \in Clients : Prepared(c)

\* Commands are not taken back and the journal keeps its first record.
LEMMA Lasting ==
  ASSUME TypeInv, [Next]_vars
  PROVE  /\ \A commit : Commissioned(commands, commit) => Commissioned(commands', commit)
         /\ journal # <<>> => journal' # <<>> /\ Stored(journal') = Stored(journal)
<1>1. commands \in Seq(Commands) /\ journal \in Seq(Records)
  BY DEF TypeInv, TypeOK
<1>2. \A i \in DOMAIN commands : i \in DOMAIN commands' /\ commands'[i] = commands[i]
  <2>1. CASE commands' = commands
    BY <2>1
  <2>2. ASSUME NEW c \in Clients, Issue(c) PROVE \A i \in DOMAIN commands :
           i \in DOMAIN commands' /\ commands'[i] = commands[i]
    BY <1>1, <2>2 DEF Issue
  <2>3. QED BY <2>1, <2>2, CommandStep
<1>3. journal # <<>> => journal' # <<>> /\ Stored(journal') = Stored(journal)
  <2>1. CASE journal' # journal
    <3>1. PICK record \in Records : journal' = Append(journal, record)
      BY <2>1, JournalGrows
    <3>2. QED BY <1>1, <3>1 DEF Stored
  <2>2. QED BY <2>1
<1>4. QED BY <1>2, <1>3 DEF Commissioned

LEMMA StaysPrepared ==
  ASSUME TypeInv, [Next]_vars, NEW c \in Clients, Prepared(c),
         pc'[c] = pc[c], pending'[c] = pending[c], request'[c] = request[c]
  PROVE  Prepared(c)'
BY Lasting DEF Prepared

LEMMA FinishPrepared ==
  ASSUME TypeInv, NEW c \in Clients, NEW answer, Finish(c, answer)
  PROVE  Prepared(c)'
BY DEF Finish, Goto, TypeInv, TypeOK, Prepared, Working

LEMMA ActorPrepared ==
  ASSUME TypeInv, CommissionInv, [Next]_vars, NEW c \in Clients, Acts(c)
  PROVE  Prepared(c)'
<1> USE DEF Working, Goto
<1>1. Prepared(c) /\ TypeOK /\ Phases
  BY DEF CommissionInv, TypeInv
<1>2. CASE \E answer : Finish(c, answer)
  BY <1>2, FinishPrepared
<1>3. CASE BeginDeploy(c) \/ BeginRollback(c)
  <2>1. pc'[c] \in {"create", "require"} /\ (pc'[c] = "require" => request'[c].kind = "rollback")
    BY <1>1, <1>3 DEF BeginDeploy, BeginRollback, TypeOK
  <2>2. QED BY <2>1 DEF Prepared
<1>4. CASE CreateGet(c) /\ ~\E answer : Finish(c, answer)
  <2>1. CASE AlreadyReleased /\ Goto(c, "require") /\ UNCHANGED <<journal, commands>>
    <3>1. PICK j \in DOMAIN journal : journal[j].event = "released"
      BY <2>1 DEF AlreadyReleased, EventsOf
    <3>2. journal # <<>> /\ Commissioned(commands, Stored(journal).commit)
      BY <3>1 DEF CommissionInv, ReleasedBacked
    <3>3. QED BY <1>1, <2>1, <3>2 DEF Prepared, TypeOK
  <2>2. CASE /\ Goto(c, IF journal = <<>> THEN "read" ELSE "control")
             /\ Prepare(c, Body(c, "release", request[c].release, None, {}, {}))
    BY <1>1, <2>2 DEF Prepare, Body, Prepared, TypeOK
  <2>3. QED BY <1>4, <2>1, <2>2 DEF CreateGet, Conflict
<1>5. CASE AppendGet(c) /\ ~\E answer : Finish(c, answer)
  <2>1. /\ Matches(pending[c].release) /\ pc[c] = "get" /\ pc'[c] = "read"
        /\ UNCHANGED <<journal, commands, request, pending>>
    BY <1>1, <1>5 DEF AppendGet, Conflict, TypeOK
  <2>2. QED BY <1>1, <2>1 DEF Matches, Found, Prepared
<1>6. CASE (AppendRead(c) \/ AppendWrite(c)) /\ ~\E answer : Finish(c, answer)
  <2>1. pc[c] \in {"read", "write"} /\ pending' = pending /\ pc'[c] \in {"write", "control", "result"}
    BY <1>1, <1>6 DEF AppendRead, AppendWrite, Conflict, TypeOK
  <2>2. QED BY <1>1, <2>1, Lasting DEF Prepared
<1>7. CASE AppendResult(c) /\ ~\E answer : Finish(c, answer)
  <2> DEFINE event == pending[c].event
  <2>1. /\ pc[c] = "result" /\ event \in {"released", "validated", "observed"}
        /\ pc'[c] = Continue(event) /\ UNCHANGED <<journal, commands>>
        /\ IF event = "validated" THEN Prepare(c, Observed(c)) ELSE UNCHANGED pending
    BY <1>1, <1>7 DEF AppendResult, Conflict, TypeOK, Phases, Records, Events
  <2>2. CASE event = "released"
    BY <1>1, <2>1, <2>2 DEF Continue, Prepared
  <2>3. CASE event = "validated"
    <3>1. /\ pc'[c] = "get" /\ pending'[c].event = "observed"
          /\ pending'[c].release = pending[c].release
      BY <1>1, <2>1, <2>3 DEF Continue, Prepare, Observed, Body, TypeOK
    <3>2. QED BY <1>1, <2>1, <2>3, <3>1 DEF Prepared
  <2>4. CASE event = "observed"
    BY <1>1, <2>1, <2>4 DEF Continue, Prepared
  <2>5. QED BY <2>1, <2>2, <2>3, <2>4
<1>8. CASE Require(c) /\ ~\E answer : Finish(c, answer)
  <2>1. pc[c] = "require" /\ UNCHANGED <<journal, commands, request>>
    BY <1>8 DEF Require, Conflict
  <2>2. CASE /\ request[c].kind = "deploy" /\ Goto(c, "get")
             /\ \E runs, traces : Prepare(c, Body(c, "validated", Stored(journal), None, runs, traces))
    <3>1. /\ pc'[c] = "get" /\ pending'[c].event = "validated"
          /\ pending'[c].release = Stored(journal)
      BY <1>1, <2>2 DEF Prepare, Body, TypeOK
    <3>2. QED BY <1>1, <2>1, <2>2, <3>1 DEF Prepared
  <2>3. CASE /\ Goto(c, "control")
             /\ Prepare(c, Body(c, "rolled_back", Stored(journal), "rollback", {}, {}))
    BY <1>1, <2>3 DEF Prepare, Body, Prepared, TypeOK
  <2>4. QED BY <1>8, <2>2, <2>3 DEF Require, Conflict
<1>9. CASE Control(c)
  <2>1. PICK command : command = CommandOf(pending[c])
    OBVIOUS
  <2>2. /\ pc[c] = "control" /\ pc'[c] = "get" /\ pending'[c].event = EventAfter(command)
        /\ pending'[c].release = pending[c].release /\ Issue(c)
    BY <1>1, <1>9, <2>1 DEF Control, Prepare, Body, TypeOK
  <2>3. command \in {"release"} \union Decisions
    BY <1>1, <2>1, <2>2, CommandTypes DEF TypeInv
  <2>4. CASE command = "release"
    <3>1. PICK new : new = [command |-> command, by |-> c, nth |-> sent[c],
                            release |-> pending[c].release]
      OBVIOUS
    <3>2. commands' = Append(commands, new) /\ commands \in Seq(Commands)
      BY <1>1, <2>1, <2>2, <3>1 DEF Issue, TypeOK
    <3>3. Len(commands) + 1 \in DOMAIN commands' /\ commands'[Len(commands) + 1] = new
      BY <3>2
    <3>4. Commissioned(commands', pending[c].release.commit)
      BY <2>4, <3>1, <3>3 DEF Commissioned
    <3>5. QED BY <2>2, <3>4 DEF Prepared
  <2>5. CASE command # "release"
    BY <2>2, <2>3, <2>5 DEF Decisions, EventAfter, Prepared
  <2>6. QED BY <2>4, <2>5
<1>10. CASE ControlFails(c) \/ Crash(c)
  BY <1>10, FinishPrepared DEF ControlFails, Crash
<1>11. QED BY <1>2, <1>3, <1>4, <1>5, <1>6, <1>7, <1>8, <1>9, <1>10 DEF Acts, Serve

LEMMA ReleasedBackedStep ==
  ASSUME TypeInv, CommissionInv, [Next]_vars
  PROVE  ReleasedBacked'
<1>1. CASE journal' = journal
  BY <1>1, Lasting DEF CommissionInv, ReleasedBacked
<1>2. CASE journal' # journal
  <2>1. PICK c \in Clients, record \in Records :
           /\ pc[c] = "write" /\ journal' = Append(journal, record)
           /\ record = [pending[c] EXCEPT !.prev = base[c].prev]
           /\ pending[c] \in Records
    BY <1>2, JournalGrows
  <2>2. record.event = pending[c].event /\ journal \in Seq(Records)
    BY <2>1 DEF Records, TypeInv, TypeOK
  <2>3. ASSUME NEW j \in DOMAIN journal', journal'[j].event = "released"
        PROVE  Commissioned(commands', Stored(journal').commit)
    <3>1. CASE j \in DOMAIN journal
      <4>1. journal[j].event = "released" /\ journal # <<>>
        BY <2>1, <2>2, <2>3, <3>1
      <4>2. QED BY <3>1, <4>1, Lasting DEF CommissionInv, ReleasedBacked
    <3>2. CASE j \notin DOMAIN journal
      <4>1. journal'[j] = record
        BY <2>1, <2>2, <3>2
      <4>2. /\ journal # <<>> /\ Stored(journal).commit = pending[c].release.commit
            /\ Commissioned(commands, pending[c].release.commit)
        BY <2>1, <2>2, <2>3, <4>1 DEF CommissionInv, Prepared, Working
      <4>3. QED BY <4>2, Lasting
    <3>3. QED BY <3>1, <3>2
  <2>4. QED BY <2>3 DEF ReleasedBacked
<1>3. QED BY <1>1, <1>2

LEMMA ReleasedFirstStep ==
  ASSUME TypeInv, HistoryInv, CommissionInv, [Next]_vars
  PROVE  ReleasedFirst'
<1>1. ReleasedFirst
  BY DEF CommissionInv
<1>2. CASE commands' = commands
  BY <1>1, <1>2 DEF ReleasedFirst
<1>3. ASSUME NEW c \in Clients, pc[c] = "control", Issue(c)
      PROVE  ReleasedFirst'
  <2>1. PICK new : new = [command |-> CommandOf(pending[c]), by |-> c, nth |-> sent[c],
                          release |-> pending[c].release]
    OBVIOUS
  <2>2. commands' = Append(commands, new) /\ commands \in Seq(Commands)
    BY <1>3, <2>1 DEF Issue, TypeInv, TypeOK
  <2>3. /\ Len(commands) \in Nat /\ DOMAIN commands = 1..Len(commands)
        /\ DOMAIN commands' = 1..(Len(commands) + 1)
        /\ commands'[Len(commands) + 1] = new
        /\ \A i \in DOMAIN commands : commands'[i] = commands[i]
    BY <2>2
  <2>4. ASSUME NEW k \in DOMAIN commands', commands'[k].command \in {"promote", "pause"}
        PROVE  \E i \in 1..(k - 1) : /\ commands'[i].command = "release"
                                      /\ commands'[i].release.commit = commands'[k].release.commit
    <3>1. CASE k \in DOMAIN commands
      <4>1. PICK i \in 1..(k - 1) : /\ commands[i].command = "release"
                                    /\ commands[i].release.commit = commands[k].release.commit
        BY <1>1, <2>3, <2>4, <3>1 DEF ReleasedFirst
      <4>2. i \in DOMAIN commands
        BY <2>3, <3>1
      <4>3. QED BY <2>3, <3>1, <4>1, <4>2
    <3>2. CASE k \notin DOMAIN commands
      <4>1. k = Len(commands) + 1 /\ commands'[k] = new
        BY <2>3, <3>2
      <4>2. pending[c].event = "observed"
        <5>1. CommandOf(pending[c]) = commands'[k].command
          BY <2>1, <4>1
        <5>2. QED BY <1>3, <2>4, <5>1, CommandBacked
      <4>3. Commissioned(commands, pending[c].release.commit)
        BY <1>3, <4>2 DEF CommissionInv, Prepared, Working
      <4>4. PICK i \in DOMAIN commands : /\ commands[i].command = "release"
                                         /\ commands[i].release.commit = pending[c].release.commit
        BY <4>3 DEF Commissioned
      <4>5. i \in 1..(k - 1) /\ commands'[i] = commands[i] /\ commands'[k].release = pending[c].release
        BY <2>1, <2>3, <4>1
      <4>6. QED BY <4>4, <4>5
    <3>3. QED BY <3>1, <3>2
  <2>5. QED BY <2>4 DEF ReleasedFirst
<1>4. QED BY <1>2, <1>3, CommandStep

LEMMA CommissionStep ==
  ASSUME TypeInv, HistoryInv, CommissionInv, [Next]_vars
  PROVE  CommissionInv'
<1>1. ASSUME NEW d \in Clients PROVE Prepared(d)'
  <2>1. Prepared(d)
    BY DEF CommissionInv
  <2>2. CASE UNCHANGED vars
    BY <2>1, <2>2, StaysPrepared DEF vars
  <2>3. ASSUME NEW c \in Clients, Acts(c) PROVE Prepared(d)'
    <3>1. CASE d = c
      BY <2>3, <3>1, ActorPrepared
    <3>2. CASE d # c
      BY <2>1, <2>3, <3>2, Bystander, StaysPrepared
    <3>3. QED BY <3>1, <3>2
  <2>4. QED BY <2>2, <2>3 DEF Next, Acts
<1>2. QED BY <1>1, ReleasedBackedStep, ReleasedFirstStep DEF CommissionInv

\* Nothing is promoted or paused at the controller that it was not told to
\* release before, however many clients serve the release and wherever they die.
THEOREM ReleasedCorrect == Spec => []ReleasedFirst
<1>1. Init => CommissionInv
  BY DEF Init, CommissionInv, ReleasedBacked, ReleasedFirst, Prepared, Working
<1>2. TypeInv /\ HistoryInv /\ CommissionInv /\ [Next]_vars => CommissionInv'
  BY CommissionStep
<1>3. CommissionInv => ReleasedFirst
  BY DEF CommissionInv
<1>4. QED BY TypeInit, TypeNext, HistoryInit, HistoryStep, <1>1, <1>2, <1>3, PTL DEF Spec

-----------------------------------------------------------------------------
(* The journal implements ReleaseLifecycle.                                *)

JournalStatus == IF journal = <<>> THEN "absent" ELSE Status(journal)
Observations == {k \in DOMAIN journal : journal[k].event = "observed"}
Intents == {journal[i].decision : i \in Observations}

\* What appending one record adds to the two abstract variables.
LEMMA LifecycleGrows ==
  ASSUME journal \in Seq(Records), NEW record \in Records, journal' = Append(journal, record)
  PROVE  /\ JournalStatus' = Status(journal')
         /\ EventsOf(journal') = EventsOf(journal) \union {record.event}
         /\ Intents' = IF record.event = "observed" THEN Intents \union {record.decision}
                                                    ELSE Intents
<1>1. /\ journal' # <<>> /\ DOMAIN journal' = DOMAIN journal \union {Len(journal) + 1}
      /\ Len(journal) + 1 \notin DOMAIN journal
      /\ journal'[Len(journal) + 1] = record
      /\ \A i \in DOMAIN journal : journal'[i] = journal[i]
  OBVIOUS
<1>2. JournalStatus' = Status(journal')
  BY <1>1 DEF JournalStatus
<1>3. EventsOf(journal') = EventsOf(journal) \union {record.event}
  BY <1>1 DEF EventsOf
<1>4. CASE record.event = "observed"
  <2>1. Observations' = Observations \union {Len(journal) + 1}
    BY <1>1, <1>4 DEF Observations
  <2>2. Intents' = Intents \union {record.decision}
    BY <1>1, <2>1 DEF Intents, Observations
  <2>3. QED BY <1>2, <1>3, <1>4, <2>2
<1>5. CASE record.event # "observed"
  <2>1. Observations' = Observations
    BY <1>1, <1>5 DEF Observations
  <2>2. Intents' = Intents
    BY <1>1, <2>1 DEF Intents, Observations
  <2>3. QED BY <1>2, <1>3, <1>5, <2>2
<1>6. QED BY <1>4, <1>5

\* A recorded decision is among the intents.
LEMMA DecidedIntent ==
  ASSUME TypeOK, NEW id, NEW decision, DecidedIn(journal, id, decision, Len(journal))
  PROVE  decision \in Intents
<1>1. PICK j \in 1..Len(journal) : journal[j].event = "observed" /\ journal[j].decision = decision
  BY DEF DecidedIn
<1>2. j \in Observations
  BY <1>1 DEF Observations, TypeOK
<1>3. QED BY <1>1, <1>2 DEF Intents

LEMMA LifecycleStep ==
  ASSUME TypeInv, HistoryInv, [Next]_vars
  PROVE  [Lifecycle!Next]_(Lifecycle!lifecycle)
<1> USE DEF Lifecycle!lifecycle, Lifecycle!Next
<1> DEFINE Step == [Lifecycle!Next]_(Lifecycle!lifecycle)
<1>1. CASE journal' = journal
  BY <1>1
<1>2. CASE journal' # journal
  <2>1. PICK c \in Clients, record \in Records :
           /\ pc[c] = "write" /\ journal' = Append(journal, record)
           /\ record = [pending[c] EXCEPT !.prev = base[c].prev]
           /\ pending[c] \in Records
    BY <1>2, JournalGrows
  <2>2. record.event = pending[c].event /\ record.decision = pending[c].decision
    BY <2>1 DEF Records
  <2>3. PendingBacked(c) /\ Phases /\ journal \in Seq(Records)
    BY DEF HistoryInv, TypeInv, TypeOK
  <2>4. /\ JournalStatus' = Status(journal')
        /\ EventsOf(journal') = EventsOf(journal) \union {record.event}
        /\ Intents' = IF record.event = "observed" THEN Intents \union {record.decision}
                                                   ELSE Intents
    BY <2>1, <2>3, LifecycleGrows
  <2>5. CASE journal = <<>>
    <3>1. record.event = "release"
      BY <2>1, <2>2, <2>3, <2>5 DEF PendingBacked, Working
    <3>2. EventsOf(journal) = {} /\ JournalStatus = "absent"
      BY <2>5 DEF EventsOf, JournalStatus
    <3>3. JournalStatus' = "released" /\ Intents' = Intents
      BY <2>4, <3>1, <3>2 DEF Status
    <3>4. QED BY <3>2, <3>3 DEF Lifecycle!Create, JournalStatus, Intents, Observations
  <2>6. CASE journal # <<>>
    <3>1. JournalStatus = Status(journal)
      BY <2>6 DEF JournalStatus
    <3>2. Status(journal) \in {"released", "paused", "promoted", "rolled_back"}
      BY DEF Status
    <3>3. CASE record.event \in {"release", "released", "validated"}
      <4>1. JournalStatus' = JournalStatus /\ Intents' = Intents
        BY <2>4, <3>1, <3>3 DEF Status
      <4>2. QED BY <4>1 DEF JournalStatus, Intents, Observations
    <3>4. CASE record.event = "observed"
      <4>1. record.decision \in Decisions
        BY <2>1, <2>2, <2>3, <3>4 DEF Phases
      <4>2. JournalStatus' = JournalStatus /\ Intents' = Intents \union {record.decision}
        BY <2>4, <3>1, <3>4 DEF Status
      <4>3. JournalStatus # "absent"
        BY <3>1, <3>2
      <4>4. QED BY <4>1, <4>2, <4>3
            DEF Lifecycle!Decide, Decisions, JournalStatus, Intents, Observations
    <3>5. ASSUME record.event \in {"promoted", "paused"}
          PROVE  /\ record.event = "promoted" => "promote" \in Intents
                 /\ record.event = "paused" => "pause" \in Intents
      <4>1. DecidedIn(journal, <<c, sent[c]>>, record.decision, Len(journal))
        BY <2>1, <2>2, <2>3, <3>5 DEF PendingBacked, Working
      <4>2. record.decision \in Intents
        BY <4>1, DecidedIntent DEF TypeInv
      <4>3. record.decision \in Decisions /\ record.event = EventAfter(record.decision)
        BY <2>1, <2>2, <2>3, <3>5 DEF Phases, Outcomes
      <4>4. QED BY <4>2, <4>3 DEF Decisions, EventAfter
    <3>6. CASE record.event = "promoted"
      <4>1. Intents' = Intents /\ "promote" \in Intents
        BY <2>4, <3>5, <3>6
      <4>2. \/ JournalStatus' = JournalStatus
            \/ JournalStatus \in {"released", "paused"} /\ JournalStatus' = "promoted"
        BY <2>4, <3>1, <3>6 DEF Status
      <4>3. QED BY <4>1, <4>2 DEF Lifecycle!Promote, JournalStatus, Intents, Observations
    <3>7. CASE record.event = "paused"
      <4>1. Intents' = Intents /\ "pause" \in Intents
        BY <2>4, <3>5, <3>7
      <4>2. \/ JournalStatus' = JournalStatus
            \/ JournalStatus = "released" /\ JournalStatus' = "paused"
        BY <2>4, <3>1, <3>7 DEF Status
      <4>3. QED BY <4>1, <4>2 DEF Lifecycle!Pause, JournalStatus, Intents, Observations
    <3>8. CASE record.event = "rolled_back"
      <4>1. Intents' = Intents /\ JournalStatus' = "rolled_back"
        BY <2>4, <3>8 DEF Status
      <4>2. \/ JournalStatus' = JournalStatus
            \/ JournalStatus \in {"released", "paused", "promoted"}
        BY <3>1, <3>2, <4>1
      <4>3. QED BY <4>1, <4>2 DEF Lifecycle!RollBack, JournalStatus, Intents, Observations
    <3>9. QED BY <3>3, <3>4, <3>6, <3>7, <3>8 DEF Records, Events, Outcomes
  <2>7. QED BY <2>5, <2>6
<1>3. QED BY <1>1, <1>2

\* Whatever races, crashes and failures do, the journal as a whole follows the
\* release lifecycle: its status only moves forward, a pause or a promotion has
\* its recorded decision, and a rollback is final.
THEOREM LifecycleCorrect == Spec => LifecycleSpec
<1>1. Init => Lifecycle!Init
  BY DEF Init, Lifecycle!Init
<1>2. TypeInv /\ HistoryInv /\ [Next]_vars => [Lifecycle!Next]_(Lifecycle!lifecycle)
  BY LifecycleStep
<1>3. QED BY TypeInit, TypeNext, HistoryInit, HistoryStep, <1>1, <1>2, PTL
          DEF Spec, LifecycleSpec, Lifecycle!Spec

-----------------------------------------------------------------------------
(* What an accepted request is told is in the journal.                     *)

\* A client of a rollback has nothing to record but the rollback.
Manual(c) ==
  pc[c] \in Working /\ request[c].kind # "deploy" =>
    pending[c].event = "rolled_back" /\ pending[c].decision = "rollback"

Manuals == \A c \in Clients : Manual(c)

LEMMA ActorManual ==
  ASSUME TypeInv, NEW c \in Clients, Manual(c), Acts(c)
  PROVE  Manual(c)'
<1> USE DEF Working, Goto
<1>1. TypeOK /\ Phases
  BY DEF TypeInv
<1>2. CASE \E answer : Finish(c, answer)
  BY <1>1, <1>2 DEF Finish, TypeOK, Manual
<1>3. CASE BeginDeploy(c) \/ BeginRollback(c)
  BY <1>1, <1>3 DEF BeginDeploy, BeginRollback, TypeOK, Manual
<1>4. CASE CreateGet(c) /\ ~\E answer : Finish(c, answer)
  <2>1. pc[c] = "create" /\ request[c].kind = "deploy" /\ UNCHANGED request
    BY <1>1, <1>4 DEF CreateGet, Conflict, Phases
  <2>2. QED BY <2>1 DEF Manual
<1>5. CASE (AppendGet(c) \/ AppendRead(c) \/ AppendWrite(c)) /\ ~\E answer : Finish(c, answer)
  <2>1. pc[c] \in Working /\ UNCHANGED <<request, pending>>
    BY <1>5 DEF AppendGet, AppendRead, AppendWrite, Conflict
  <2>2. QED BY <2>1 DEF Manual
<1>6. CASE AppendResult(c) /\ ~\E answer : Finish(c, answer)
  <2>1. pc[c] \in Working /\ pending[c].event \notin Outcomes /\ UNCHANGED request
    BY <1>6 DEF AppendResult, Conflict
  <2>2. request[c].kind = "deploy"
    BY <2>1 DEF Manual, Outcomes
  <2>3. QED BY <2>1, <2>2 DEF Manual
<1>7. CASE Require(c) /\ ~\E answer : Finish(c, answer)
  <2>1. UNCHANGED request
    BY <1>7 DEF Require, Conflict
  <2>2. CASE request[c].kind = "deploy"
    BY <2>1, <2>2 DEF Manual
  <2>3. CASE /\ request[c].kind = "rollback"
             /\ Prepare(c, Body(c, "rolled_back", Stored(journal), "rollback", {}, {}))
    BY <1>1, <2>1, <2>3 DEF Manual, Prepare, Body, TypeOK
  <2>4. QED BY <1>7, <2>2, <2>3 DEF Require, Conflict
<1>8. CASE Control(c)
  <2>1. pc[c] = "control" /\ UNCHANGED request
    BY <1>8 DEF Control
  <2>2. pending'[c].event = EventAfter(CommandOf(pending[c])) /\ pending'[c].decision = pending[c].decision
    BY <1>1, <1>8 DEF Control, Prepare, Body, TypeOK
  <2>3. QED BY <2>1, <2>2 DEF Manual, CommandOf, EventAfter
<1>9. QED BY <1>2, <1>3, <1>4, <1>5, <1>6, <1>7, <1>8 DEF Acts, Serve, ControlFails, Crash

LEMMA ManualStep ==
  ASSUME TypeInv, Manuals, [Next]_vars
  PROVE  Manuals'
<1> SUFFICES ASSUME NEW d \in Clients PROVE Manual(d)'
  BY DEF Manuals
<1>1. CASE UNCHANGED vars
  BY <1>1 DEF vars, Manuals, Manual
<1>2. ASSUME NEW c \in Clients, Acts(c) PROVE Manual(d)'
  <2>1. CASE d = c
    BY <1>2, <2>1, ActorManual DEF Manuals
  <2>2. CASE d # c
    BY <1>2, <2>2, Bystander DEF Manuals, Manual
  <2>3. QED BY <2>1, <2>2
<1>3. QED BY <1>1, <1>2 DEF Next, Acts

\* An "ok" is said by a step that found the answer in the journal: by the early
\* return of _require() or by the read-back of the outcome's own append.
LEMMA AcceptedRecorded ==
  ASSUME TypeInv, HistoryInv, Manuals, NEW c \in Clients, Acts(c),
         pc[c] # "idle", pc'[c] = "idle", reply'[c] = "ok"
  PROVE  Status(journal) \in IF request[c].kind = "deploy" THEN Outcomes ELSE {"rolled_back"}
<1> USE DEF Goto
<1>1. TypeOK /\ Phases
  BY DEF TypeInv
<1>2. ASSUME NEW answer, Finish(c, answer) PROVE answer = "ok"
  BY <1>1, <1>2 DEF Finish, TypeOK
<1>3. ~Conflict(c)
  BY <1>2 DEF Conflict
<1>4. CASE AppendResult(c)
  <2>1. pc[c] = "result" /\ pending[c].event \in Outcomes
    <3>1. pc[c] = "result" /\ pending[c] \in Records /\ pending[c].event # "release"
      BY <1>1, <1>4 DEF AppendResult, Phases
    <3>2. pending[c].event \notin Outcomes => Continue(pending[c].event) \in {"require", "get", "control"}
      BY <3>1 DEF Records, Events, Continue
    <3>3. QED BY <1>1, <1>3, <1>4, <3>1, <3>2 DEF AppendResult, TypeOK
  <2>2. pending[c].event \in EventsOf(journal)
    BY <2>1 DEF HistoryInv, PendingBacked, Working, EventsOf
  <2>3. request[c].kind # "deploy" => pending[c].event = "rolled_back"
    BY <2>1 DEF Manuals, Manual, Working
  <2>4. QED BY <2>1, <2>2, <2>3 DEF Status, Outcomes
<1>5. CASE Require(c)
  <2>1. Settled(request[c].kind)
    BY <1>1, <1>3, <1>5 DEF Require, TypeOK
  <2>2. QED BY <2>1 DEF Settled, Outcomes
<1>6. CASE BeginDeploy(c) \/ BeginRollback(c) \/ CreateGet(c) \/ AppendGet(c)
  BY <1>1, <1>3, <1>6 DEF BeginDeploy, BeginRollback, CreateGet, AppendGet, TypeOK
<1>7. CASE AppendRead(c) \/ AppendWrite(c) \/ Control(c)
  BY <1>1, <1>3, <1>7 DEF AppendRead, AppendWrite, Control, TypeOK
<1>8. CASE ControlFails(c) \/ Crash(c)
  BY <1>2, <1>8 DEF ControlFails, Crash
<1>9. QED BY <1>4, <1>5, <1>6, <1>7, <1>8 DEF Acts, Serve

\* However requests race and die, a deploy that is answered "ok" has its outcome
\* in the journal, and a rollback its rollback.
THEOREM AcceptedCorrect == Spec => OkMeansRecorded
<1>1. Init => Manuals
  BY DEF Init, Manuals, Manual, Working
<1>2. TypeInv /\ Manuals /\ [Next]_vars => Manuals'
  BY ManualStep
<1>3. TypeInv /\ HistoryInv /\ Manuals /\ [Next]_vars =>
        [\A c \in Clients : pc[c] # "idle" /\ pc'[c] = "idle" /\ reply'[c] = "ok" =>
           Status(journal) \in IF request[c].kind = "deploy" THEN Outcomes ELSE {"rolled_back"}]_vars
  <2>1. SUFFICES ASSUME TypeInv, HistoryInv, Manuals, Next, NEW d \in Clients,
                        pc[d] # "idle", pc'[d] = "idle", reply'[d] = "ok"
                 PROVE  Status(journal) \in IF request[d].kind = "deploy" THEN Outcomes
                                                                         ELSE {"rolled_back"}
    OBVIOUS
  <2>2. PICK c \in Clients : Acts(c)
    BY <2>1 DEF Next, Acts
  <2>3. d = c
    BY <2>1, <2>2, Bystander
  <2>4. QED BY <2>1, <2>2, <2>3, AcceptedRecorded
<1>4. QED BY TypeInit, TypeNext, HistoryInit, HistoryStep, <1>1, <1>2, <1>3, PTL
          DEF Spec, OkMeansRecorded

-----------------------------------------------------------------------------
(* One client at a time.                                                   *)

Recorded(event) == event \in EventsOf(journal)

\* What a lone client has seen of the journal still holds when it acts on it,
\* and what it is about to record is what it last told the controller.
Sole(c) ==
  LET event == pending[c].event IN
  /\ pc[c] = "require" /\ request[c].kind = "deploy" => Recorded("released")
  /\ pc[c] = "result" => Recorded(event)
  /\ pc[c] \in {"get", "read", "write", "result"} /\ event \in {"released"} \union Outcomes =>
       commands # <<>> /\ event = EventAfter(LastCommand)
  /\ pc[c] \in Working /\ event # "rolled_back" => request[c].kind = "deploy"
  /\ pc[c] \in Working /\ event \notin {"release", "released"} /\ request[c].kind = "deploy" =>
       Recorded("released")
  /\ pc[c] \in Working \ {"result"} \/ (pc[c] = "result" /\ event \in {"validated", "observed"}) =>
       /\ event \in {"release", "released"} => ~Recorded("released")
       /\ event \notin {"release", "released"} => ~Recorded("rolled_back")
       /\ event \notin {"release", "released"} /\ request[c].kind = "deploy" => ~Recorded("promoted")

\* A release that followed a rollback was recorded after it, if at all.
Rereleased ==
  \A i, j \in DOMAIN journal :
    journal[i].event = "released" /\ journal[j].event = "rolled_back" => j < i

Obeyed ==
  /\ Recorded("promoted") => Recorded("released")
  /\ Recorded("promoted") /\ ~Recorded("rolled_back") =>
       commands # <<>> /\ LastCommand \in {"promote", "rollback"}
  /\ Recorded("rolled_back") =>
       commands # <<>> /\ (LastCommand = "rollback" \/ (LastCommand = "release" /\ Rereleased))

SoleInv(c) ==
  /\ Sole(c) /\ Obeyed /\ SingleOutcome
  /\ pc[c] = "idle" /\ reply[c] = "ok" /\ Status(journal) = "paused" => LastCommand = "pause"

\* What is known of a lone client at work.
LEMMA SoleFacts ==
  ASSUME TypeInv, NEW c \in Clients, pc[c] \in Working
  PROVE  /\ pending[c] \in Records /\ pending[c].event \in Events \union {"release"}
         /\ pending[c].event \in Outcomes => pending[c].event = EventAfter(pending[c].decision)
         /\ pc[c] = "control" => pending[c].event \in {"release", "observed", "rolled_back"}
         /\ pc[c] \in {"get", "result"} => pending[c].event # "release"
BY DEF TypeInv, Phases, Working, Records

LEMMA LastKnown ==
  ASSUME TypeInv, commands # <<>>
  PROVE  /\ LastCommand \in {"release"} \union Decisions
         /\ EventAfter(LastCommand) = "paused" => LastCommand = "pause"
         /\ EventAfter(LastCommand) = "promoted" => LastCommand = "promote"
         /\ EventAfter(LastCommand) = "rolled_back" => LastCommand = "rollback"
         /\ EventAfter(LastCommand) = "released" => LastCommand = "release"
<1>1. commands[Len(commands)] \in Commands
  BY DEF TypeInv, TypeOK
<1>2. LastCommand \in {"release", "promote", "pause", "rollback"}
  BY <1>1 DEF Commands, LastCommand, Decisions
<1>3. QED BY <1>2 DEF EventAfter, Decisions

LEMMA StillObeyed ==
  ASSUME Obeyed, SingleOutcome, UNCHANGED <<journal, commands>>
  PROVE  Obeyed' /\ SingleOutcome'
BY DEF Obeyed, Recorded, LastCommand, Rereleased, SingleOutcome

LEMMA SoleFinish ==
  ASSUME TypeInv, NEW c \in Clients, SoleInv(c), NEW answer, Finish(c, answer),
         Obeyed', SingleOutcome',
         answer = "ok" /\ Status(journal') = "paused" => LastCommand' = "pause"
  PROVE  SoleInv(c)'
<1>1. pc'[c] = "idle" /\ reply'[c] = answer
  BY DEF Finish, Goto, TypeInv, TypeOK
<1>2. Sole(c)'
  BY <1>1 DEF Sole, Working
<1>3. QED BY <1>1, <1>2 DEF SoleInv

LEMMA SoleConflict ==
  ASSUME TypeInv, NEW c \in Clients, SoleInv(c), Conflict(c)
  PROVE  SoleInv(c)'
BY SoleFinish, StillObeyed DEF Conflict, SoleInv

\* A client that goes on with its request.
LEMMA SoleGoesOn ==
  ASSUME NEW c \in Clients, pc'[c] # "idle", Sole(c)', Obeyed', SingleOutcome'
  PROVE  SoleInv(c)'
BY DEF SoleInv

LEMMA SoleBegin ==
  ASSUME TypeInv, NEW c \in Clients, SoleInv(c), BeginDeploy(c) \/ BeginRollback(c)
  PROVE  SoleInv(c)'
<1>1. Obeyed' /\ SingleOutcome'
  BY StillObeyed DEF BeginDeploy, BeginRollback, SoleInv
<1>2. pc'[c] \in {"create", "require"} /\ (pc'[c] = "require" => request'[c].kind = "rollback")
  BY DEF BeginDeploy, BeginRollback, Goto, TypeInv, TypeOK
<1>3. Sole(c)'
  BY <1>2 DEF Sole, Working
<1>4. QED BY <1>1, <1>2, <1>3, SoleGoesOn

LEMMA SoleCreate ==
  ASSUME TypeInv, NEW c \in Clients, SoleInv(c), CreateGet(c)
  PROVE  SoleInv(c)'
<1>1. CASE Conflict(c)
  BY <1>1, SoleConflict
<1>2. CASE ~Conflict(c)
  <2>1. UNCHANGED <<journal, commands, request>> /\ pc[c] = "create" /\ request[c].kind = "deploy"
    BY <1>2 DEF CreateGet, TypeInv, Phases
  <2>2. Obeyed' /\ SingleOutcome'
    BY <2>1, StillObeyed DEF SoleInv
  <2>3. CASE AlreadyReleased /\ Goto(c, "require")
    <3>1. pc'[c] = "require" /\ Recorded("released")'
      BY <2>1, <2>3 DEF AlreadyReleased, Recorded, Goto, TypeInv, TypeOK
    <3>2. QED BY <2>2, <3>1, SoleGoesOn DEF Sole, Working
  <2>4. CASE /\ ~AlreadyReleased
             /\ Goto(c, IF journal = <<>> THEN "read" ELSE "control")
             /\ Prepare(c, Body(c, "release", request[c].release, None, {}, {}))
    <3>1. pc'[c] \in {"read", "control"} /\ pending'[c].event = "release"
      BY <2>4 DEF Goto, Prepare, Body, TypeInv, TypeOK
    <3>2. ~Recorded("released")'
      BY <2>1, <2>4 DEF AlreadyReleased, Recorded
    <3>3. QED BY <2>1, <2>2, <3>1, <3>2, SoleGoesOn DEF Sole, Working, Outcomes
  <2>5. QED BY <1>2, <2>3, <2>4 DEF CreateGet
<1>3. QED BY <1>1, <1>2

LEMMA SoleMove ==
  ASSUME TypeInv, NEW c \in Clients, SoleInv(c), AppendGet(c) \/ AppendRead(c)
  PROVE  SoleInv(c)'
<1>1. CASE Conflict(c)
  BY <1>1, SoleConflict
<1>2. CASE ~Conflict(c)
  <2>1. /\ UNCHANGED <<journal, commands, request, pending>>
        /\ pc[c] \in {"get", "read"} /\ pc'[c] \in {"read", "write"}
    BY <1>2 DEF AppendGet, AppendRead, Goto, TypeInv, TypeOK
  <2>2. Obeyed' /\ SingleOutcome'
    BY <2>1, StillObeyed DEF SoleInv
  <2>3. Sole(c)
    BY DEF SoleInv
  <2>4. Sole(c)'
    BY <2>1, <2>3 DEF Sole, Working, Recorded, LastCommand
  <2>5. QED BY <2>1, <2>2, <2>4, SoleGoesOn
<1>3. QED BY <1>1, <1>2

LEMMA SoleRequire ==
  ASSUME TypeInv, NEW c \in Clients, SoleInv(c), Require(c)
  PROVE  SoleInv(c)'
<1>1. CASE Conflict(c)
  BY <1>1, SoleConflict
<1>2. CASE ~Conflict(c)
  <2>1. pc[c] = "require" /\ UNCHANGED <<journal, commands>>
    BY <1>2 DEF Require
  <2>2. Obeyed' /\ SingleOutcome' /\ Sole(c)
    BY <2>1, StillObeyed DEF SoleInv
  <2>3. CASE Settled(request[c].kind) /\ Finish(c, "ok")
    <3>1. Status(journal') # "paused"
      BY <2>1, <2>3 DEF Settled
    <3>2. QED BY <2>2, <2>3, <3>1, SoleFinish
  <2>4. CASE /\ request[c].kind = "deploy" /\ ~Settled("deploy") /\ Goto(c, "get")
             /\ \E runs, traces : Prepare(c, Body(c, "validated", Stored(journal), None, runs, traces))
             /\ UNCHANGED request
    <3>1. pc'[c] = "get" /\ pending'[c].event = "validated" /\ request'[c].kind = "deploy"
      BY <2>4 DEF Goto, Prepare, Body, TypeInv, TypeOK
    <3>2. ~Recorded("rolled_back") /\ ~Recorded("promoted") /\ Recorded("released")
      BY <2>1, <2>2, <2>4 DEF Settled, Status, Recorded, Sole
    <3>3. ~Recorded("rolled_back")' /\ ~Recorded("promoted")' /\ Recorded("released")'
      BY <2>1, <3>2 DEF Recorded
    <3>4. QED BY <2>2, <3>1, <3>3, SoleGoesOn DEF Sole, Working, Outcomes
  <2>5. CASE /\ request[c].kind = "rollback" /\ ~Settled("rollback") /\ Goto(c, "control")
             /\ Prepare(c, Body(c, "rolled_back", Stored(journal), "rollback", {}, {}))
             /\ UNCHANGED request
    <3>1. pc'[c] = "control" /\ pending'[c].event = "rolled_back" /\ request'[c].kind = "rollback"
      BY <2>5 DEF Goto, Prepare, Body, TypeInv, TypeOK
    <3>2. ~Recorded("rolled_back")'
      BY <2>1, <2>5 DEF Settled, Status, Recorded
    <3>3. QED BY <2>2, <3>1, <3>2, SoleGoesOn DEF Sole, Working, Outcomes
  <2>6. QED BY <1>2, <2>3, <2>4, <2>5 DEF Require
<1>3. QED BY <1>1, <1>2

LEMMA SoleResult ==
  ASSUME TypeInv, NEW c \in Clients, SoleInv(c), AppendResult(c)
  PROVE  SoleInv(c)'
<1> DEFINE event == pending[c].event
<1>1. CASE Conflict(c)
  BY <1>1, SoleConflict
<1>2. CASE ~Conflict(c)
  <2>1. pc[c] = "result" /\ UNCHANGED <<journal, commands>> /\ event \in Events
    BY <1>2, SoleFacts DEF AppendResult, Working
  <2>2. Obeyed' /\ SingleOutcome' /\ Sole(c)
    BY <2>1, StillObeyed DEF SoleInv
  <2>3. CASE event \in Outcomes /\ Finish(c, "ok")
    <3>1. Recorded(event) /\ commands # <<>> /\ event = EventAfter(LastCommand)
      BY <2>1, <2>2, <2>3 DEF Sole
    <3>2. ASSUME Status(journal) = "paused" PROVE LastCommand = "pause"
      <4>1. ~Recorded("rolled_back") /\ ~Recorded("promoted")
        BY <3>2 DEF Status, Recorded
      <4>2. event = "paused"
        BY <2>3, <3>1, <4>1 DEF Outcomes
      <4>3. QED BY <3>1, <4>2, LastKnown
    <3>3. QED BY <2>1, <2>2, <2>3, <3>2, SoleFinish DEF LastCommand
  <2>4. CASE /\ event \notin Outcomes /\ Goto(c, Continue(event))
             /\ IF event = "validated" THEN Prepare(c, Observed(c)) ELSE UNCHANGED pending
             /\ UNCHANGED request
    <3>1. event \in {"released", "validated", "observed"} /\ Recorded(event)
      BY <2>1, <2>2, <2>4 DEF Events, Outcomes, Sole
    <3>2. CASE event = "released"
      <4>1. pc'[c] = "require" /\ Recorded("released")'
        BY <2>1, <2>4, <3>1, <3>2 DEF Continue, Goto, Recorded, TypeInv, TypeOK
      <4>2. QED BY <2>2, <4>1, SoleGoesOn DEF Sole, Working
    <3>3. CASE event \in {"validated", "observed"}
      <4>1. /\ pc'[c] \in {"get", "control"} /\ pending'[c].event = "observed"
            /\ request'[c] = request[c]
        BY <2>4, <3>3 DEF Continue, Goto, Prepare, Observed, Body, TypeInv, TypeOK
      <4>2. /\ request[c].kind = "deploy" /\ Recorded("released") /\ ~Recorded("rolled_back")
            /\ ~Recorded("promoted")
        BY <2>1, <2>2, <3>3 DEF Sole, Working
      <4>3. Recorded("released")' /\ ~Recorded("rolled_back")' /\ ~Recorded("promoted")'
        BY <2>1, <4>2 DEF Recorded
      <4>4. QED BY <2>2, <4>1, <4>2, <4>3, SoleGoesOn DEF Sole, Working, Outcomes
    <3>4. QED BY <3>1, <3>2, <3>3
  <2>5. QED BY <1>2, <2>3, <2>4 DEF AppendResult
<1>3. QED BY <1>1, <1>2

\* What the controller is told agrees with the journal already.
LEMMA SoleIssue ==
  ASSUME TypeInv, NEW c \in Clients, SoleInv(c), pc[c] = "control", Issue(c), journal' = journal
  PROVE  /\ Obeyed' /\ SingleOutcome'
         /\ commands' # <<>> /\ LastCommand' = CommandOf(pending[c])
<1> DEFINE event == pending[c].event
<1>1. commands' # <<>> /\ LastCommand' = CommandOf(pending[c])
  <2>1. PICK new : new = [command |-> CommandOf(pending[c]), by |-> c, nth |-> sent[c],
                          release |-> pending[c].release]
    OBVIOUS
  <2>2. commands' = Append(commands, new) /\ commands \in Seq(Commands)
    BY <2>1 DEF Issue, TypeInv, TypeOK
  <2>3. commands' # <<>> /\ commands'[Len(commands')] = new
    BY <2>2
  <2>4. QED BY <2>1, <2>3 DEF LastCommand
<1>2. \A x : Recorded(x)' <=> Recorded(x)
  BY DEF Recorded
<1>3. Sole(c) /\ Obeyed /\ SingleOutcome
  BY DEF SoleInv
<1>4. event \in {"release", "observed", "rolled_back"}
  BY SoleFacts DEF Working
<1>5. CASE event = "release"
  <2>1. ~Recorded("released") /\ ~Recorded("promoted")
    BY <1>3, <1>5 DEF Sole, Obeyed, Working
  <2>2. Rereleased'
    BY <2>1 DEF Recorded, EventsOf, Rereleased
  <2>3. CommandOf(pending[c]) = "release"
    BY <1>5 DEF CommandOf
  <2>4. QED BY <1>1, <1>2, <1>3, <2>1, <2>2, <2>3 DEF Obeyed, SingleOutcome
<1>6. CASE event # "release"
  <2>1. /\ ~Recorded("rolled_back") /\ (Recorded("promoted") => CommandOf(pending[c]) = "rollback")
    <3>1. /\ ~Recorded("rolled_back")
          /\ request[c].kind = "deploy" => ~Recorded("promoted")
      BY <1>3, <1>4, <1>6 DEF Sole, Working
    <3>2. event # "rolled_back" => request[c].kind = "deploy"
      BY <1>3 DEF Sole, Working
    <3>3. event = "rolled_back" => CommandOf(pending[c]) = "rollback"
      <4>1. ASSUME event = "rolled_back"
            PROVE  pending[c].decision \in Decisions /\ EventAfter(pending[c].decision) = "rolled_back"
        BY <4>1 DEF TypeInv, Phases, Outcomes
      <4>2. ASSUME event = "rolled_back" PROVE pending[c].decision = "rollback"
        BY <4>1, <4>2 DEF Decisions, EventAfter
      <4>3. QED BY <1>6, <4>2 DEF CommandOf
    <3>4. QED BY <3>1, <3>2, <3>3
  <2>2. QED BY <1>1, <1>2, <1>3, <2>1 DEF Obeyed, SingleOutcome
<1>7. QED BY <1>1, <1>5, <1>6

LEMMA SoleControl ==
  ASSUME TypeInv, NEW c \in Clients, SoleInv(c), Control(c)
  PROVE  SoleInv(c)'
<1>1. pc[c] = "control" /\ Issue(c) /\ journal' = journal /\ request' = request
  BY DEF Control
<1>2. /\ Obeyed' /\ SingleOutcome' /\ commands' # <<>> /\ LastCommand' = CommandOf(pending[c])
  BY <1>1, SoleIssue
<1>3. Sole(c) /\ pending[c].event \in {"release", "observed", "rolled_back"}
  BY <1>1, SoleFacts DEF SoleInv, Working
<1>4. pc'[c] = "get" /\ pending'[c].event = EventAfter(CommandOf(pending[c]))
  BY DEF Control, Goto, Prepare, Body, TypeInv, TypeOK
<1>5. /\ pending'[c].event \in {"released"} \union Outcomes
      /\ pending'[c].event = "released" <=> pending[c].event = "release"
      /\ pending'[c].event # "rolled_back" => pending[c].event # "rolled_back"
  <2>1. CommandOf(pending[c]) \in {"release", "promote", "pause", "rollback"}
    BY <1>1, CommandTypes DEF Decisions
  <2>2. pending[c].event # "release" => CommandOf(pending[c]) = pending[c].decision
                                        /\ pending[c].decision \in Decisions
    BY <1>1, <1>3 DEF CommandOf, TypeInv, Phases
  <2>3. pending[c].event = "rolled_back" => EventAfter(pending[c].decision) = "rolled_back"
    BY <1>1 DEF TypeInv, Phases, Outcomes
  <2>4. pending[c].event = "release" => CommandOf(pending[c]) = "release"
    BY DEF CommandOf
  <2>5. EventAfter(CommandOf(pending[c])) \in {"released"} \union Outcomes
    BY <2>1 DEF EventAfter, Outcomes
  <2>6. EventAfter(CommandOf(pending[c])) = "released" <=> CommandOf(pending[c]) = "release"
    BY <2>1 DEF EventAfter
  <2>7. QED BY <1>3, <1>4, <2>2, <2>3, <2>4, <2>5, <2>6 DEF Decisions
<1>6. \A x : Recorded(x)' <=> Recorded(x)
  BY <1>1 DEF Recorded
<1>7. Sole(c)'
  BY <1>1, <1>2, <1>3, <1>4, <1>5, <1>6 DEF Sole, Working, Outcomes
<1>8. QED BY <1>2, <1>4, <1>7, SoleGoesOn

LEMMA SoleStops ==
  ASSUME TypeInv, NEW c \in Clients, SoleInv(c), ControlFails(c) \/ Crash(c)
  PROVE  SoleInv(c)'
<1>1. Obeyed' /\ SingleOutcome'
  BY SoleIssue, StillObeyed DEF ControlFails, Crash, SoleInv
<1>2. QED BY <1>1, SoleFinish DEF ControlFails, Crash

LEMMA SoleWrite ==
  ASSUME TypeInv, NEW c \in Clients, SoleInv(c), AppendWrite(c)
  PROVE  SoleInv(c)'
<1>1. CASE Conflict(c)
  BY <1>1, SoleConflict
<1>2. CASE ~Conflict(c)
  <2>1. PICK event : event = pending[c].event
    OBVIOUS
  <2>2. /\ pc[c] = "write" /\ UNCHANGED <<commands, request, pending>>
        /\ pc'[c] = IF event = "release" THEN "control" ELSE "result"
    BY <1>2, <2>1 DEF AppendWrite, Goto, TypeInv, TypeOK
  <2>3. PICK record \in Records : journal' = Append(journal, record) /\ record.event = event
    <3>1. PICK record : record = [pending[c] EXCEPT !.prev = base[c].prev]
      OBVIOUS
    <3>2. pending[c] \in Records /\ base[c].prev \in Hashes
      BY <2>2, SoleFacts DEF Working, TypeInv, TypeOK
    <3>3. record \in Records /\ record.event = event
      BY <2>1, <3>1, <3>2 DEF Records
    <3>4. QED BY <1>2, <3>1, <3>3 DEF AppendWrite
  <2>4. \A x : Recorded(x)' <=> Recorded(x) \/ x = event
    BY <2>3, LifecycleGrows DEF Recorded, TypeInv, TypeOK
  <2>5. LastCommand' = LastCommand /\ commands' = commands
    BY <2>2 DEF LastCommand
  <2>6. Sole(c) /\ Obeyed /\ SingleOutcome
    BY DEF SoleInv
  <2>7. event \in Events \union {"release"}
    BY <2>1, <2>2, SoleFacts DEF Working
  <2>8. /\ journal \in Seq(Records) /\ DOMAIN journal = 1..Len(journal) /\ Len(journal) \in Nat
        /\ DOMAIN journal' = 1..(Len(journal) + 1) /\ journal'[Len(journal) + 1] = record
        /\ \A i \in DOMAIN journal : journal'[i] = journal[i]
    BY <2>3 DEF TypeInv, TypeOK
  <2>9. event \in {"promoted", "rolled_back", "released"} => ~Recorded(event)
    BY <2>1, <2>2, <2>6 DEF Sole, Working
  <2>10. SingleOutcome'
    <3>1. ASSUME NEW i \in DOMAIN journal', NEW j \in DOMAIN journal',
                 journal'[i].event \in {"promoted", "rolled_back"},
                 journal'[i].event = journal'[j].event
          PROVE  i = j
      <4>1. CASE i \in DOMAIN journal /\ j \in DOMAIN journal
        BY <2>6, <2>8, <3>1, <4>1 DEF SingleOutcome
      <4>2. ASSUME NEW k \in DOMAIN journal, journal[k].event = event,
                   event \in {"promoted", "rolled_back"}
            PROVE  FALSE
        BY <2>9, <4>2 DEF Recorded, EventsOf
      <4>3. QED BY <2>3, <2>8, <3>1, <4>1, <4>2
    <3>2. QED BY <3>1 DEF SingleOutcome
  <2>11. (commands # <<>> /\ event = EventAfter(LastCommand)) \/ event \notin {"released"} \union Outcomes
    BY <2>1, <2>2, <2>6 DEF Sole
  <2>12. Recorded("rolled_back") /\ LastCommand = "release" /\ Rereleased => Rereleased'
    <3>1. ASSUME Recorded("rolled_back"), Rereleased,
                 NEW i \in DOMAIN journal', NEW j \in DOMAIN journal',
                 journal'[i].event = "released", journal'[j].event = "rolled_back"
          PROVE  j < i
      <4>1. CASE j \notin DOMAIN journal
        BY <2>3, <2>8, <2>9, <3>1, <4>1
      <4>2. CASE j \in DOMAIN journal /\ i \in DOMAIN journal
        BY <2>8, <3>1, <4>2 DEF Rereleased
      <4>3. CASE j \in DOMAIN journal /\ i \notin DOMAIN journal
        BY <2>8, <3>1, <4>3
      <4>4. QED BY <4>1, <4>2, <4>3
    <3>2. QED BY <3>1 DEF Rereleased
  <2>13. Obeyed'
    <3>1. (Recorded("promoted") => Recorded("released"))'
      BY <2>1, <2>2, <2>4, <2>6 DEF Obeyed, Sole, Working
    <3>2. (Recorded("promoted") /\ ~Recorded("rolled_back") =>
             commands # <<>> /\ LastCommand \in {"promote", "rollback"})'
      BY <2>4, <2>5, <2>6, <2>11, LastKnown DEF Obeyed, Outcomes
    <3>3. (Recorded("rolled_back") =>
             commands # <<>> /\ (LastCommand = "rollback" \/ (LastCommand = "release" /\ Rereleased)))'
      BY <2>4, <2>5, <2>6, <2>11, <2>12, LastKnown DEF Obeyed, Outcomes
    <3>4. QED BY <3>1, <3>2, <3>3 DEF Obeyed
  <2>14. Sole(c)'
    <3>1. CASE event = "release"
      <4>1. pc'[c] = "control" /\ pending'[c].event = "release"
        BY <2>1, <2>2, <3>1
      <4>2. ~Recorded("released")' /\ request'[c].kind = "deploy"
        BY <2>1, <2>2, <2>4, <2>6, <3>1 DEF Sole, Working
      <4>3. QED BY <4>1, <4>2 DEF Sole, Working, Outcomes
    <3>2. CASE event # "release"
      <4>1. pc'[c] = "result" /\ pending'[c].event = event /\ request'[c] = request[c]
        BY <2>1, <2>2, <3>2
      <4>2. QED BY <2>1, <2>2, <2>4, <2>5, <2>6, <4>1 DEF Sole, Working, Outcomes
    <3>3. QED BY <3>1, <3>2
  <2>15. QED BY <2>2, <2>10, <2>13, <2>14, SoleGoesOn
<1>3. QED BY <1>1, <1>2

LEMMA SoleStep ==
  ASSUME TypeInv, NEW c, Clients = {c}, SoleInv(c), [Next]_vars
  PROVE  SoleInv(c)'
<1>1. CASE UNCHANGED vars
  BY <1>1 DEF vars, SoleInv, Sole, Obeyed, SingleOutcome, Rereleased, Recorded, LastCommand
<1>2. CASE Acts(c)
  BY <1>2, SoleBegin, SoleCreate, SoleMove, SoleWrite, SoleResult, SoleRequire, SoleControl,
     SoleStops DEF Acts, Serve
<1>3. QED BY <1>1, <1>2 DEF Next, Acts

LEMMA SoleInvariant ==
  ASSUME NEW c, Clients = {c}
  PROVE  Spec => []SoleInv(c)
<1>1. Init => SoleInv(c)
  BY DEF Init, SoleInv, Sole, Obeyed, SingleOutcome, Recorded, EventsOf, Working
<1>2. TypeInv /\ SoleInv(c) /\ [Next]_vars => SoleInv(c)'
  BY SoleStep
<1>3. QED BY TypeInit, TypeNext, <1>1, <1>2, PTL DEF Spec

\* Without races a retried, crashed or failed release leaves no second outcome
\* of a kind in the journal.
THEOREM AloneOutcomeCorrect ==
  ASSUME IsFiniteSet(Clients)
  PROVE  Spec => []AloneSingleOutcome
<1>1. CASE Alone
  <2>1. PICK c : Clients = {c}
    BY <1>1, FS_Singleton DEF Alone
  <2>2. SoleInv(c) => AloneSingleOutcome
    BY DEF SoleInv, AloneSingleOutcome
  <2>3. QED BY <2>1, <2>2, SoleInvariant, PTL
<1>2. CASE ~Alone
  <2>1. AloneSingleOutcome
    BY <1>2 DEF AloneSingleOutcome
  <2>2. QED BY <2>1, PTL
<1>3. QED BY <1>1, <1>2

\* Without races an accepted request leaves the controller told what the journal
\* says, but for the two exceptions the property names.
THEOREM AloneAgreementCorrect ==
  ASSUME IsFiniteSet(Clients)
  PROVE  Spec => []AloneAgreement
<1>1. CASE Alone
  <2>1. PICK c : Clients = {c}
    BY <1>1, FS_Singleton DEF Alone
  <2>2. SoleInv(c) => AloneAgreement
    <3>1. SUFFICES ASSUME SoleInv(c), AllIdle, "ok" \in {reply[d] : d \in Clients}
                   PROVE  LET status == Status(journal) IN
                          /\ status = "promoted" => LastCommand \in {"promote", "rollback"}
                          /\ status = "paused" => LastCommand = "pause"
                          /\ status = "rolled_back" =>
                               \/ LastCommand = "rollback"
                               \/ LastCommand = "release" /\
                                  \A i, j \in DOMAIN journal :
                                    journal[i].event = "released" /\ journal[j].event = "rolled_back"
                                      => j < i
      BY DEF AloneAgreement
    <3>2. pc[c] = "idle" /\ reply[c] = "ok"
      BY <2>1, <3>1 DEF AllIdle
    <3>3. /\ Status(journal) = "promoted" => Recorded("promoted") /\ ~Recorded("rolled_back")
          /\ Status(journal) = "rolled_back" => Recorded("rolled_back")
      BY DEF Status, Recorded
    <3>4. QED BY <3>1, <3>2, <3>3 DEF SoleInv, Obeyed, Rereleased
  <2>3. QED BY <2>1, <2>2, SoleInvariant, PTL
<1>2. CASE ~Alone
  <2>1. AloneAgreement
    BY <1>2 DEF AloneAgreement
  <2>2. QED BY <2>1, PTL
<1>3. QED BY <1>1, <1>2
=============================================================================
