---------------------------- MODULE ProviderCall ----------------------------
(***************************************************************************)
(* AgentAdapter (lou/agents/provider.py): a call to a provider is tried in *)
(* a daemon thread that answers through a queue of one place, for a        *)
(* bounded time, a bounded number of times.  A try that timed out is not   *)
(* stopped: its thread goes on and answers when it can.  The closure of    *)
(* the thread names the variable that holds the queue of the latest try,   *)
(* and reads it when it starts the provider's call and, after an           *)
(* exception, once more.  The orchestrator makes one call after another    *)
(* over one bundle of evidence (EvidenceBundle).                           *)
(*                                                                         *)
(* The definitions named PutInOneQueue and ExpireAfterJoin are             *)
(* deliberately wrong forms of the definition they precede; no             *)
(* specification uses them.                                                *)
(***************************************************************************)
EXTENDS EvidenceBundle

CONSTANTS
  Inputs,      \* the evidence, the budget of the bundle and the provider of a run
  MaxCalls,            \* bound: calls of one orchestration
  MaxRetries,          \* max_retries of a request
  None

VARIABLES
  evidence, budget,
  bundle,    \* current_bundle of the orchestrator
  provider,  \* "gemini" and "mock" as the settings say, "given" by the caller
  pc,        \* the adapter: "build", "launch", "wait", "next", "raised"
  call,      \* the number of the current call
  latest,    \* the attempt of each call whose queue the closures name
  queue,     \* the queue of each try: at most one outcome
  thread,    \* the thread of each try
  target,    \* the attempt whose queue the thread of a try answers in
  value,     \* what the provider did in each try
  answer     \* the response of each call

inputs == <<evidence, budget, bundle, provider>>
tries == <<queue, thread, target, value>>
vars == <<inputs, pc, call, latest, tries, answer>>

Calls == 1..MaxCalls
Attempts == 0..MaxRetries
Tries == Calls \X Attempts
\* What a try may put in a queue, and that None is none of it.
Outcomes == [kind : {"succeeded", "abandoned", "exception", "invalid", "foreign"}, try : Tries]
ASSUME ProviderAssumption ==
  /\ MaxCalls \in Nat \ {0} /\ MaxRetries \in 0..3 /\ None \notin Outcomes
  /\ \A i \in Inputs :
       /\ Offerable(i.evidence)
       /\ {i.budget.max_files, i.budget.max_bytes, i.budget.max_tokens} \subseteq Nat
Current == <<call, latest[call]>>

-----------------------------------------------------------------------------
\* The recorded mock answers for the demonstration's evidence only.
Required == {"candidate_change", "candidate_finding", "candidate_verification",
             "selected_graph_context", "workload:checkout-pytest", "workload:checkout-k6"}
MockKind == IF Required \subseteq Keys(bundle) THEN "succeeded" ELSE "abandoned"

\* What a provider may do with a call.  GeminiProvider turns every error of its own
\* into an abandoned response; a given provider may do anything.
Kinds == CASE provider = "mock" -> {MockKind}
           [] provider = "gemini" -> {"succeeded", "abandoned"}
           [] OTHER -> {"succeeded", "abandoned", "exception", "invalid", "foreign"}

-----------------------------------------------------------------------------
Init ==
  /\ \E i \in Inputs : evidence = i.evidence /\ budget = i.budget /\ provider = i.provider
  /\ bundle = EmptyBundle
  /\ pc = "build" /\ call = 1
  /\ latest = [c \in Calls |-> 0]
  /\ queue = [t \in Tries |-> <<>>]
  /\ thread = [t \in Tries |-> "none"]
  /\ target = [t \in Tries |-> 0]
  /\ value = [t \in Tries |-> None]
  /\ answer = [c \in Calls |-> None]

\* The orchestrator's context stage.
Build ==
  /\ pc = "build"
  /\ \/ Rejected(evidence) /\ pc' = "raised" /\ UNCHANGED bundle
     \/ ~Rejected(evidence) /\ pc' = "launch" /\ bundle' = Bundle(evidence, budget)
  /\ UNCHANGED <<evidence, budget, provider, call, latest, tries, answer>>

\* The response of the call: an abandoned one is replaced by the mock's if Gemini was
\* selected.
Conclude(kind, reason, try) ==
  /\ answer' = [answer EXCEPT ![call] =
       IF provider = "gemini" /\ kind = "abandoned"
       THEN [kind |-> MockKind, reason |-> reason, try |-> None]
       ELSE [kind |-> kind, reason |-> reason, try |-> try]]
  /\ pc' = "next"
  /\ UNCHANGED latest

\* continue, or the abandoned response after the last attempt.
RetryOr(reason) ==
  \/ /\ latest[call] < MaxRetries
     /\ latest' = [latest EXCEPT ![call] = @ + 1] /\ pc' = "launch"
     /\ UNCHANGED answer
  \/ latest[call] = MaxRetries /\ Conclude("abandoned", reason, None)

\* A fresh queue and the thread of the try; a thread that cannot be started ends the call.
Launch ==
  /\ pc = "launch"
  /\ \/ /\ thread' = [thread EXCEPT ![Current] = "launched"]
        /\ pc' = "wait"
        /\ UNCHANGED <<latest, answer>>
     \/ Conclude("abandoned", "no_thread", None) /\ UNCHANGED thread
  /\ UNCHANGED <<inputs, call, queue, target, value>>

\* outcome.put is read before the provider is called.
AnswerTarget(t) == [target EXCEPT ![t] = latest[t[1]]]

Begin(t) ==
  /\ thread[t] = "launched"
  /\ thread' = [thread EXCEPT ![t] = "calling"]
  /\ target' = AnswerTarget(t)
  /\ UNCHANGED <<inputs, pc, call, latest, queue, value, answer>>

\* The handler of an exception reads outcome anew.
ErrorTarget(t) == [target EXCEPT ![t] = latest[t[1]]]

Return(t) ==
  /\ thread[t] = "calling"
  /\ \E kind \in Kinds :
       /\ value' = [value EXCEPT ![t] = [kind |-> kind, try |-> t]]
       /\ target' = IF kind = "exception" THEN ErrorTarget(t) ELSE target
  /\ thread' = [thread EXCEPT ![t] = "putting"]
  /\ UNCHANGED <<inputs, pc, call, latest, queue, answer>>

PutInOneQueue(t) == <<call, latest[call]>>
\* The queue a thread puts in belongs to the call that started it.
QueueOf(t) == <<t[1], target[t]>>

\* put() waits while the queue is full, for ever if nobody takes.
Deliver(t) ==
  /\ thread[t] = "putting" /\ queue[QueueOf(t)] = <<>>
  /\ queue' = [queue EXCEPT ![QueueOf(t)] = <<value[t]>>]
  /\ thread' = [thread EXCEPT ![t] = "done"]
  /\ UNCHANGED <<inputs, pc, call, latest, target, value, answer>>

\* get() returned an outcome.
Take ==
  /\ pc = "wait" /\ queue[Current] # <<>>
  /\ queue' = [queue EXCEPT ![Current] = <<>>]
  /\ LET outcome == Head(queue[Current]) IN
     \/ outcome.kind = "exception" /\ RetryOr("failed")
     \/ outcome.kind = "invalid" /\ Conclude("abandoned", "invalid", outcome.try)
     \/ outcome.kind = "foreign" /\ Conclude("abandoned", "foreign", outcome.try)
     \/ outcome.kind \in {"succeeded", "abandoned"} /\ Conclude(outcome.kind, "answered", outcome.try)
  /\ UNCHANGED <<inputs, call, thread, target, value>>

ExpireAfterJoin ==
  /\ pc = "wait" /\ queue[Current] = <<>> /\ thread[Current] \in {"putting", "done"}
  /\ RetryOr("timed_out")
  /\ UNCHANGED <<inputs, call, tries>>
\* get() raised Empty.
Expire ==
  /\ pc = "wait" /\ queue[Current] = <<>>
  /\ RetryOr("timed_out")
  /\ UNCHANGED <<inputs, call, tries>>

\* The orchestrator's next call.
NextCall ==
  /\ pc = "next" /\ call < MaxCalls
  /\ call' = call + 1 /\ pc' = "launch"
  /\ UNCHANGED <<inputs, latest, tries, answer>>

Adapter == Build \/ Launch \/ Take \/ Expire \/ NextCall
Next == Adapter \/ \E t \in Tries : Begin(t) \/ Return(t) \/ Deliver(t)

\* The adapter's own thread runs, and queue.get(timeout) returns; nothing is assumed
\* of the providers.
Spec == Init /\ [][Next]_vars
FairSpec == Spec /\ WF_vars(Adapter)

-----------------------------------------------------------------------------
(***************************************************************************)
(* Properties.                                                             *)
(***************************************************************************)
\* A call is answered by its own tries: a diagnosis that comes late is never taken for
\* the patch asked for next, though both carry the same analysis run id, the only thing
\* the adapter compares, and a call is abandoned as failed only if the provider raised
\* in a try of that call.
AnswersOwn ==
  \A c \in Calls : answer[c] # None =>
    /\ answer[c].try # None => answer[c].try[1] = c
    /\ answer[c].reason = "failed" =>
         \E a \in Attempts : value[<<c, a>>] # None /\ value[<<c, a>>].kind = "exception"

\* At most max_retries threads of a call are left waiting for a place that never comes
\* free once the call was answered.
FewThreadsStuck ==
  \A c \in Calls : answer[c] # None =>
    Cardinality({a \in Attempts : thread[<<c, a>>] = "putting" /\ queue[QueueOf(<<c, a>>)] # <<>>})
      <= MaxRetries

\* The sum of the sizes of what was taken.
Total(size, taken) ==
  LET total[i \in 0..Len(size)] ==
        IF i = 0 THEN 0 ELSE total[i - 1] + (IF i \in taken THEN size[i] ELSE 0)
  IN  total[Len(size)]

\* A bundle is within its budget and its counts are those of what is in it; what was
\* left out is named, has used none of the budget, and was left out for it only if it
\* does not fit the finished bundle either.
NothingThatFitsIsOmitted ==
  pc \notin {"build", "raised"} =>
    LET offered == Offered(evidence)
        taken == {i \in DOMAIN offered : offered[i].item.key \in Keys(bundle)}
    IN  /\ \A i \in taken : offered[i].wanted
        /\ \A i \in DOMAIN offered \ taken :
             /\ offered[i].item.key \in bundle.omitted
             /\ offered[i].wanted => ~Fits(bundle, offered[i].item, budget)
        /\ bundle.files = UNION {offered[i].item.files : i \in taken}
        /\ bundle.bytes = Total([i \in DOMAIN offered |-> offered[i].item.bytes], taken)
        /\ bundle.tokens = Total([i \in DOMAIN offered |-> Tokens(offered[i].item.bytes)], taken)
        /\ Cardinality(bundle.files) <= budget.max_files
        /\ bundle.bytes <= budget.max_bytes /\ bundle.tokens <= budget.max_tokens

\* Every call is answered, whatever the provider does: a provider that hangs ends in an
\* abandoned response after max_retries + 1 waits.
EveryCallAnswered == pc # "raised" ~> (pc = "raised" \/ \A c \in Calls : answer[c] # None)

(***************************************************************************)
(* Not so in the code; see the README.                                     *)
(***************************************************************************)
\* A try that is counted as failed failed itself.
EachTryItsOwnOutcome ==
  \A t \in Tries : queue[t] # <<>> => Head(queue[t]).try = t
=============================================================================
