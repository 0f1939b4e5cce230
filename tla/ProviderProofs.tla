--------------------------- MODULE ProviderProofs ---------------------------
(***************************************************************************)
(* Proofs about ProviderCall, for any number of calls, any evidence and    *)
(* any behaviour of the providers: a late outcome stays within its call,   *)
(* never do all threads of a call wait for ever, and the bundle of evidence*)
(* is within its budget and leaves out for it only what would not fit.     *)
(***************************************************************************)
EXTENDS ProviderCall, FiniteSetTheorems, TLAPS

AllKinds == {"succeeded", "abandoned", "exception", "invalid", "foreign"}
Reasons == {"answered", "invalid", "foreign", "no_thread", "failed", "timed_out"}
Responses == [kind : AllKinds, reason : Reasons, try : Tries \union {None}]

Shape ==
  /\ pc \in {"build", "launch", "wait", "next", "raised"}
  /\ call \in Calls /\ latest \in [Calls -> Attempts]
  /\ thread \in [Tries -> {"none", "launched", "calling", "putting", "done"}]
  /\ target \in [Tries -> Attempts]
  /\ value \in [Tries -> Outcomes \union {None}]
  /\ queue \in [Tries -> Seq(Outcomes)]
  /\ answer \in [Calls -> Responses \union {None}]

\* A try is launched once: the tries to come have no thread.
ToCome(c, a) ==
  c > call \/ a > latest[c] \/ (pc \in {"build", "launch"} /\ c = call /\ a = latest[c])
Fresh == \A c \in Calls, a \in Attempts : ToCome(c, a) => thread[<<c, a>>] = "none"

\* What a try did is known once it returned, and never changes after.
Returned == \A t \in Tries :
  IF thread[t] \in {"putting", "done"} THEN value[t] \in Outcomes /\ value[t].try = t
  ELSE value[t] = None

\* A queue holds what a try of its own call did.
Queued == \A c \in Calls, a \in Attempts :
  queue[<<c, a>>] # <<>> =>
    \E b \in Attempts : value[<<c, b>>] \in Outcomes /\ queue[<<c, a>>] = <<value[<<c, b>>]>>

CallInv == Shape /\ Fresh /\ Returned /\ Queued /\ AnswersOwn

-----------------------------------------------------------------------------
LEMMA PairOfTry ==
  ASSUME NEW t \in Tries
  PROVE  t[1] \in Calls /\ t[2] \in Attempts /\ t = <<t[1], t[2]>>
BY DEF Tries

LEMMA TryOfPair ==
  ASSUME NEW c \in Calls, NEW a \in Attempts
  PROVE  <<c, a>> \in Tries /\ <<c, a>>[1] = c /\ <<c, a>>[2] = a
BY DEF Tries

LEMMA KindsOfOutcomes ==
  ASSUME NEW kind \in Kinds, NEW t \in Tries
  PROVE  [kind |-> kind, try |-> t] \in Outcomes
<1>1. kind \in AllKinds
  BY DEF Kinds, MockKind, AllKinds
<1>2. QED BY <1>1 DEF Outcomes, AllKinds

LEMMA CallInit == Init => CallInv
<1> SUFFICES ASSUME Init PROVE CallInv
  OBVIOUS
<1>1. 1 \in Calls /\ 0 \in Attempts
  BY ProviderAssumption DEF Calls, Attempts
<1>2. Shape
  BY <1>1 DEF Init, Shape
<1>3. Fresh /\ Queued
  BY TryOfPair DEF Init, Fresh, Queued
<1>4. Returned /\ AnswersOwn
  BY DEF Init, Returned, AnswersOwn
<1>5. QED BY <1>2, <1>3, <1>4 DEF CallInv

\* The answers given stay backed while tries only learn what they did.
LEMMA AnswersKept ==
  ASSUME CallInv, Shape', Returned',
         \A t \in Tries : value'[t] = value[t] \/ value[t] = None,
         NEW c \in Calls, answer'[c] = answer[c], answer[c] # None
  PROVE  /\ answer'[c].try # None => answer'[c].try[1] = c
         /\ answer'[c].reason = "failed" =>
              \E a \in Attempts : value'[<<c, a>>] # None /\ value'[<<c, a>>].kind = "exception"
BY TryOfPair DEF CallInv, AnswersOwn

\* The answer of a call names a try only if it was given one.
LEMMA Concluded ==
  ASSUME NEW kind \in AllKinds, NEW reason \in Reasons, NEW try \in Tries \union {None},
         Conclude(kind, reason, try)
  PROVE  /\ pc' = "next" /\ latest' = latest
         /\ \E r \in Responses : /\ r.reason = reason /\ (r.try = try \/ r.try = None)
                                /\ answer' = [answer EXCEPT ![call] = r]
<1>1. MockKind \in AllKinds
  BY DEF MockKind, AllKinds
<1>2. CASE provider = "gemini" /\ kind = "abandoned"
  <2>1. PICK r : r = [kind |-> MockKind, reason |-> reason, try |-> None]
    OBVIOUS
  <2>2. r \in Responses /\ r.reason = reason /\ r.try = None
    BY <1>1, <2>1 DEF Responses
  <2>3. QED BY <1>2, <2>1, <2>2 DEF Conclude
<1>3. CASE ~(provider = "gemini" /\ kind = "abandoned")
  <2>1. PICK r : r = [kind |-> kind, reason |-> reason, try |-> try]
    OBVIOUS
  <2>2. r \in Responses /\ r.reason = reason /\ r.try = try
    BY <2>1 DEF Responses
  <2>3. QED BY <1>3, <2>1, <2>2 DEF Conclude
<1>4. QED BY <1>2, <1>3

\* A step of the adapter that leaves the threads and their outcomes alone.
LEMMA StepRetryOr ==
  ASSUME CallInv, pc = "wait", NEW reason \in {"failed", "timed_out"}, RetryOr(reason),
         UNCHANGED <<call, thread, target, value>>, queue' \in [Tries -> Seq(Outcomes)], Queued',
         reason = "failed" =>
           \E a \in Attempts : value[<<call, a>>] # None /\ value[<<call, a>>].kind = "exception"
  PROVE  CallInv'
<1> USE DEF CallInv
<1>1. Returned'
  BY DEF Returned
<1>2. CASE /\ latest[call] < MaxRetries /\ latest' = [latest EXCEPT ![call] = @ + 1]
           /\ pc' = "launch" /\ UNCHANGED answer
  <2>1. latest[call] + 1 \in Attempts
    BY <1>2, ProviderAssumption DEF Shape, Attempts
  <2>2. Shape'
    BY <1>2, <2>1 DEF Shape
  <2>3. Fresh'
    <3>1. ASSUME NEW c \in Calls, NEW a \in Attempts, ToCome(c, a)' PROVE ToCome(c, a)
      <4>1. latest[c] \in Nat /\ a \in Nat /\ c \in Nat /\ call \in Nat
        BY ProviderAssumption DEF Shape, Attempts, Calls
      <4>2. latest'[c] = IF c = call THEN latest[c] + 1 ELSE latest[c]
        BY <1>2 DEF Shape
      <4>3. QED BY <1>2, <3>1, <4>1, <4>2 DEF ToCome
    <3>2. QED BY <3>1 DEF Fresh
  <2>4. AnswersOwn'
    BY <1>2 DEF AnswersOwn
  <2>5. QED BY <1>1, <2>2, <2>3, <2>4
<1>3. CASE latest[call] = MaxRetries /\ Conclude("abandoned", reason, None)
  <2>1. /\ pc' = "next" /\ latest' = latest
        /\ \E r \in Responses : /\ r.reason = reason /\ r.try = None
                               /\ answer' = [answer EXCEPT ![call] = r]
    BY <1>3, Concluded DEF AllKinds, Reasons
  <2>2. Shape'
    BY <2>1 DEF Shape
  <2>3. Fresh'
    BY <2>1 DEF Fresh, ToCome
  <2>4. ASSUME NEW c \in Calls, answer'[c] # None
        PROVE  /\ answer'[c].try # None => answer'[c].try[1] = c
               /\ answer'[c].reason = "failed" =>
                    \E a \in Attempts : value'[<<c, a>>] # None /\ value'[<<c, a>>].kind = "exception"
    <3>1. CASE c = call
      BY <2>1, <3>1 DEF Shape
    <3>2. CASE c # call
      <4>1. answer'[c] = answer[c]
        BY <2>1, <3>2 DEF Shape
      <4>2. QED BY <2>4, <4>1 DEF AnswersOwn
    <3>3. QED BY <3>1, <3>2
  <2>5. AnswersOwn'
    BY <2>4 DEF AnswersOwn
  <2>6. QED BY <1>1, <2>2, <2>3, <2>5
<1>4. QED BY <1>2, <1>3 DEF RetryOr

LEMMA StepConclude ==
  ASSUME CallInv, pc \in {"wait", "launch"}, NEW kind \in AllKinds, NEW reason \in Reasons \ {"failed"},
         NEW try \in Tries \union {None}, try # None => try[1] = call,
         Conclude(kind, reason, try),
         UNCHANGED <<call, thread, target, value>>, queue' \in [Tries -> Seq(Outcomes)], Queued'
  PROVE  CallInv'
<1> USE DEF CallInv
<1>1. Returned'
  BY DEF Returned
<1>2. /\ pc' = "next" /\ latest' = latest
      /\ \E r \in Responses : /\ r.reason = reason /\ (r.try = try \/ r.try = None)
                             /\ answer' = [answer EXCEPT ![call] = r]
  BY Concluded
<1>3. Shape'
  BY <1>2 DEF Shape
<1>4. Fresh'
  BY <1>2 DEF Fresh, ToCome
<1>5. ASSUME NEW c \in Calls, answer'[c] # None
      PROVE  /\ answer'[c].try # None => answer'[c].try[1] = c
             /\ answer'[c].reason = "failed" =>
                  \E a \in Attempts : value'[<<c, a>>] # None /\ value'[<<c, a>>].kind = "exception"
  <2>1. CASE c = call
    BY <1>2, <2>1 DEF Shape
  <2>2. CASE c # call
    <3>1. answer'[c] = answer[c]
      BY <1>2, <2>2 DEF Shape
    <3>2. QED BY <1>5, <3>1 DEF AnswersOwn
  <2>3. QED BY <2>1, <2>2
<1>6. AnswersOwn'
  BY <1>5 DEF AnswersOwn
<1>7. QED BY <1>1, <1>3, <1>4, <1>6

LEMMA StepLaunch ==
  ASSUME CallInv, Launch
  PROVE  CallInv'
<1> USE DEF CallInv
<1>1. /\ pc = "launch" /\ UNCHANGED <<call, queue, target, value>>
      /\ Current \in Tries /\ Current = <<call, latest[call]>> /\ thread[Current] = "none"
  BY TryOfPair DEF Launch, Shape, Current, Fresh, ToCome
<1>2. CASE thread' = [thread EXCEPT ![Current] = "launched"] /\ pc' = "wait"
           /\ UNCHANGED <<latest, answer>>
  <2>1. Shape' /\ Queued' /\ AnswersOwn'
    BY <1>1, <1>2 DEF Shape, Queued, AnswersOwn
  <2>2. Returned'
    BY <1>1, <1>2 DEF Returned, Shape
  <2>3. Fresh'
    <3>1. ASSUME NEW c \in Calls, NEW a \in Attempts, ToCome(c, a)'
          PROVE  thread'[<<c, a>>] = "none"
      <4>1. ToCome(c, a) /\ <<c, a>> # Current
        BY <1>1, <1>2, <3>1 DEF ToCome, Shape, Calls, Attempts
      <4>2. QED BY <1>2, <4>1, TryOfPair DEF Fresh, Shape
    <3>2. QED BY <3>1 DEF Fresh
  <2>4. QED BY <2>1, <2>2, <2>3
<1>3. CASE Conclude("abandoned", "no_thread", None) /\ UNCHANGED thread
  <2>1. queue' \in [Tries -> Seq(Outcomes)] /\ Queued'
    BY <1>1 DEF Shape, Queued
  <2>2. "abandoned" \in AllKinds /\ "no_thread" \in Reasons \ {"failed"}
    BY DEF AllKinds, Reasons
  <2>3. QED BY <1>1, <1>3, <2>1, <2>2, StepConclude
<1>4. QED BY <1>2, <1>3 DEF Launch

LEMMA StepTake ==
  ASSUME CallInv, Take
  PROVE  CallInv'
<1> USE DEF CallInv
<1>1. /\ pc = "wait" /\ queue[Current] # <<>>
      /\ queue' = [queue EXCEPT ![Current] = <<>>]
      /\ UNCHANGED <<call, thread, target, value>>
  BY DEF Take
<1>2. Current \in Tries /\ Current = <<call, latest[call]>> /\ latest[call] \in Attempts /\ call \in Calls
  BY TryOfPair DEF Shape, Current
<1>3. PICK b \in Attempts : /\ value[<<call, b>>] \in Outcomes
                            /\ queue[Current] = <<value[<<call, b>>]>>
  BY <1>1, <1>2 DEF Queued
<1>4. PICK outcome : outcome = Head(queue[Current])
  OBVIOUS
<1>5. outcome = value[<<call, b>>] /\ outcome \in Outcomes
  BY <1>3, <1>4
<1>6. outcome.try \in Tries /\ outcome.try[1] = call /\ outcome.kind \in AllKinds
  <2>1. outcome.try = <<call, b>>
    <3>1. value[<<call, b>>] # None /\ <<call, b>> \in Tries
      BY <1>2, <1>5, ProviderAssumption, TryOfPair
    <3>2. QED BY <1>5, <3>1 DEF Returned
  <2>2. outcome.kind \in AllKinds
    BY <1>5 DEF Outcomes, AllKinds
  <2>3. QED BY <1>2, <2>1, <2>2, TryOfPair
<1>7. queue' \in [Tries -> Seq(Outcomes)]
  BY <1>1, <1>2 DEF Shape
<1>8. Queued'
  <2>1. ASSUME NEW c \in Calls, NEW a \in Attempts, queue'[<<c, a>>] # <<>>
        PROVE  \E d \in Attempts : /\ value[<<c, d>>] \in Outcomes
                                   /\ queue'[<<c, a>>] = <<value[<<c, d>>]>>
    <3>1. queue'[<<c, a>>] = queue[<<c, a>>]
      BY <1>1, <1>2, <2>1, TryOfPair DEF Shape
    <3>2. QED BY <2>1, <3>1 DEF Queued
  <2>2. value' = value
    BY <1>1
  <2>3. QED BY <2>1, <2>2 DEF Queued
<1>9. CASE outcome.kind = "exception" /\ RetryOr("failed")
  <2>1. value[<<call, b>>] # None /\ value[<<call, b>>].kind = "exception"
    BY <1>5, <1>9, ProviderAssumption
  <2>2. QED BY <1>1, <1>2, <1>7, <1>8, <1>9, <2>1, StepRetryOr
<1>10. CASE \E kind \in AllKinds, reason \in Reasons \ {"failed"} : Conclude(kind, reason, outcome.try)
  BY <1>1, <1>6, <1>7, <1>8, <1>10, StepConclude
<1>11. \/ outcome.kind = "exception" /\ RetryOr("failed")
       \/ Conclude("abandoned", "invalid", outcome.try)
       \/ Conclude("abandoned", "foreign", outcome.try)
       \/ Conclude(outcome.kind, "answered", outcome.try)
  BY <1>4 DEF Take
<1>12. "abandoned" \in AllKinds /\ {"invalid", "foreign", "answered"} \subseteq Reasons \ {"failed"}
  BY DEF AllKinds, Reasons
<1>13. QED BY <1>6, <1>9, <1>10, <1>11, <1>12

LEMMA StepExpire ==
  ASSUME CallInv, Expire
  PROVE  CallInv'
<1>1. /\ pc = "wait" /\ RetryOr("timed_out")
      /\ UNCHANGED <<call, queue, thread, target, value>>
  BY DEF Expire, tries
<1>2. queue' \in [Tries -> Seq(Outcomes)] /\ Queued'
  BY <1>1 DEF CallInv, Shape, Queued
<1>3. QED BY <1>1, <1>2, StepRetryOr

\* The steps of the orchestrator around the calls.
LEMMA StepAround ==
  ASSUME CallInv, Build \/ NextCall
  PROVE  CallInv'
<1> USE DEF CallInv
<1>1. /\ UNCHANGED <<latest, queue, thread, target, value, answer>>
      /\ \/ pc = "build" /\ pc' \in {"raised", "launch"} /\ call' = call
         \/ pc = "next" /\ pc' = "launch" /\ call' = call + 1 /\ call < MaxCalls
  BY DEF Build, NextCall, tries
<1>2. Shape'
  BY <1>1, ProviderAssumption DEF Shape, Calls
<1>3. Fresh'
  <2>1. ASSUME NEW c \in Calls, NEW a \in Attempts, ToCome(c, a)' PROVE ToCome(c, a)
    BY <1>1, <2>1 DEF Shape, ToCome, Attempts, Calls
  <2>2. QED BY <1>1, <2>1 DEF Fresh
<1>4. Returned' /\ Queued' /\ AnswersOwn'
  BY <1>1 DEF Returned, Queued, AnswersOwn
<1>5. QED BY <1>2, <1>3, <1>4

-----------------------------------------------------------------------------
(***************************************************************************)
(* The threads.                                                            *)
(***************************************************************************)
LEMMA StepBegin ==
  ASSUME CallInv, NEW t \in Tries, Begin(t)
  PROVE  CallInv'
<1> USE DEF CallInv
<1>1. /\ thread[t] = "launched" /\ thread' = [thread EXCEPT ![t] = "calling"]
      /\ target' = [target EXCEPT ![t] = latest[t[1]]]
      /\ UNCHANGED <<pc, call, latest, queue, value, answer>>
  BY DEF Begin, AnswerTarget
<1>2. latest[t[1]] \in Attempts
  BY PairOfTry DEF Shape
<1>3. Shape' /\ Queued' /\ AnswersOwn'
  BY <1>1, <1>2 DEF Shape, Queued, AnswersOwn
<1>4. Returned'
  BY <1>1 DEF Returned, Shape
<1>5. Fresh'
  BY <1>1, TryOfPair DEF Fresh, ToCome, Shape
<1>6. QED BY <1>3, <1>4, <1>5

LEMMA StepReturn ==
  ASSUME CallInv, NEW t \in Tries, Return(t)
  PROVE  CallInv'
<1> USE DEF CallInv
<1>1. PICK kind \in Kinds :
        /\ value' = [value EXCEPT ![t] = [kind |-> kind, try |-> t]]
        /\ target' = IF kind = "exception" THEN ErrorTarget(t) ELSE target
  BY DEF Return
<1>2. /\ thread[t] = "calling" /\ thread' = [thread EXCEPT ![t] = "putting"]
      /\ UNCHANGED <<pc, call, latest, queue, answer>>
  BY DEF Return
<1>3. PICK o \in Outcomes : value' = [value EXCEPT ![t] = o] /\ o.try = t
  BY <1>1, KindsOfOutcomes
<1>4. latest[t[1]] \in Attempts
  BY PairOfTry DEF Shape
<1>5. target' \in [Tries -> Attempts]
  BY <1>1, <1>4 DEF ErrorTarget, Shape
<1>6. Shape'
  BY <1>2, <1>3, <1>5 DEF Shape
<1>7. Returned'
  BY <1>2, <1>3 DEF Returned, Shape
<1>8. value[t] = None /\ \A u \in Tries : value'[u] = value[u] \/ value[u] = None
  BY <1>2, <1>3 DEF Returned, Shape
<1>9. Queued'
  <2>1. SUFFICES ASSUME NEW c \in Calls, NEW a \in Attempts, queue[<<c, a>>] # <<>>
                 PROVE  \E b \in Attempts : /\ value'[<<c, b>>] \in Outcomes
                                            /\ queue[<<c, a>>] = <<value'[<<c, b>>]>>
    BY <1>2 DEF Queued
  <2>2. PICK b \in Attempts : /\ value[<<c, b>>] \in Outcomes
                              /\ queue[<<c, a>>] = <<value[<<c, b>>]>>
    BY <2>1 DEF Queued
  <2>3. value'[<<c, b>>] = value[<<c, b>>]
    BY <1>8, <2>2, TryOfPair, ProviderAssumption
  <2>4. QED BY <2>2, <2>3
<1>10. AnswersOwn'
  BY <1>2, <1>6, <1>7, <1>8, AnswersKept DEF AnswersOwn
<1>11. Fresh'
  BY <1>2, TryOfPair DEF Fresh, ToCome, Shape
<1>12. QED BY <1>6, <1>7, <1>9, <1>10, <1>11

LEMMA StepDeliver ==
  ASSUME CallInv, NEW t \in Tries, Deliver(t)
  PROVE  CallInv'
<1> USE DEF CallInv
<1>1. /\ thread[t] = "putting" /\ thread' = [thread EXCEPT ![t] = "done"]
      /\ queue' = [queue EXCEPT ![<<t[1], target[t]>>] = <<value[t]>>]
      /\ UNCHANGED <<pc, call, latest, target, value, answer>>
  BY DEF Deliver, QueueOf
<1>2. t[1] \in Calls /\ t[2] \in Attempts /\ t = <<t[1], t[2]>> /\ target[t] \in Attempts
  BY PairOfTry DEF Shape
<1>3. value[t] \in Outcomes
  BY <1>1 DEF Returned
<1>4. <<t[1], target[t]>> \in Tries /\ <<value[t]>> \in Seq(Outcomes)
  BY <1>2, <1>3, TryOfPair
<1>5. Shape' /\ AnswersOwn' /\ Returned'
  <2>1. queue' \in [Tries -> Seq(Outcomes)]
    BY <1>1, <1>4 DEF Shape
  <2>2. Shape'
    BY <1>1, <2>1 DEF Shape
  <2>3. AnswersOwn' /\ Returned'
    BY <1>1 DEF AnswersOwn, Returned, Shape
  <2>4. QED BY <2>2, <2>3
<1>6. Queued'
  <2>1. ASSUME NEW c \in Calls, NEW a \in Attempts, queue'[<<c, a>>] # <<>>
        PROVE  \E b \in Attempts : /\ value[<<c, b>>] \in Outcomes
                                   /\ queue'[<<c, a>>] = <<value[<<c, b>>]>>
    <3>1. CASE <<c, a>> = <<t[1], target[t]>>
      <4>1. c = t[1] /\ queue'[<<c, a>>] = <<value[t]>>
        BY <1>1, <1>4, <3>1 DEF Shape
      <4>2. value[<<c, t[2]>>] = value[t]
        BY <1>2, <4>1
      <4>3. QED BY <1>2, <1>3, <4>1, <4>2
    <3>2. CASE <<c, a>> # <<t[1], target[t]>>
      <4>1. queue'[<<c, a>>] = queue[<<c, a>>]
        BY <1>1, <3>2, TryOfPair DEF Shape
      <4>2. QED BY <2>1, <4>1 DEF Queued
    <3>3. QED BY <3>1, <3>2
  <2>2. value' = value
    BY <1>1
  <2>3. QED BY <2>1, <2>2 DEF Queued
<1>7. Fresh'
  BY <1>1, TryOfPair DEF Fresh, ToCome, Shape
<1>8. QED BY <1>5, <1>6, <1>7

LEMMA CallStep == CallInv /\ [Next]_vars => CallInv'
<1> SUFFICES ASSUME CallInv, [Next]_vars PROVE CallInv'
  OBVIOUS
<1>1. CASE Adapter
  BY <1>1, StepLaunch, StepTake, StepExpire, StepAround DEF Adapter
<1>2. CASE \E t \in Tries : Begin(t) \/ Return(t) \/ Deliver(t)
  BY <1>2, StepBegin, StepReturn, StepDeliver
<1>3. CASE UNCHANGED vars
  <2>1. UNCHANGED <<pc, call, latest, queue, thread, target, value, answer>>
    BY <1>3 DEF vars, tries
  <2>2. Shape' /\ Returned'
    BY <2>1 DEF CallInv, Shape, Returned
  <2>3. Fresh' /\ Queued' /\ AnswersOwn'
    BY <2>1 DEF CallInv, Fresh, ToCome, Queued, AnswersOwn
  <2>4. QED BY <2>2, <2>3 DEF CallInv
<1>4. QED BY <1>1, <1>2, <1>3 DEF Next

\* A call is answered by its own tries, however late the outcomes of others come and
\* whatever queue their threads name by then (provider.py:263-292).
THEOREM AnswersCorrect == Spec => []AnswersOwn
<1>1. CallInv => AnswersOwn
  BY DEF CallInv
<1>2. QED BY <1>1, CallInit, CallStep, PTL DEF Spec

-----------------------------------------------------------------------------
(***************************************************************************)
(* The threads that are left behind.                                       *)
(***************************************************************************)
\* What fills a queue is the outcome of a thread that is done.
Filled == \A c \in Calls, a \in Attempts :
  queue[<<c, a>>] # <<>> => \E b \in Attempts : thread[<<c, b>>] = "done"

\* A thread that is done stays so, and a step that delivers makes one done.
LEMMA FilledStep ==
  ASSUME CallInv, Filled, [Next]_vars
  PROVE  Filled'
<1> USE DEF CallInv
<1>1. CASE UNCHANGED queue /\ \A t \in Tries : thread[t] = "done" => thread'[t] = "done"
  BY <1>1, TryOfPair DEF Filled
<1>2. CASE Take
  <2>1. UNCHANGED thread /\ queue' = [queue EXCEPT ![Current] = <<>>]
    BY <1>2 DEF Take
  <2>2. \A t \in Tries : queue'[t] # <<>> => queue[t] # <<>>
    BY <2>1 DEF Shape
  <2>3. QED BY <2>1, <2>2, TryOfPair DEF Filled
<1>3. ASSUME NEW t \in Tries, Deliver(t) PROVE Filled'
  <2>1. /\ thread' = [thread EXCEPT ![t] = "done"]
        /\ queue' = [queue EXCEPT ![<<t[1], target[t]>>] = <<value[t]>>]
    BY <1>3 DEF Deliver, QueueOf
  <2>2. SUFFICES ASSUME NEW c \in Calls, NEW a \in Attempts, queue'[<<c, a>>] # <<>>
                 PROVE  \E b \in Attempts : thread'[<<c, b>>] = "done"
    BY DEF Filled
  <2>3. CASE c = t[1]
    <3>1. t = <<c, t[2]>> /\ t[2] \in Attempts
      BY <2>3, PairOfTry
    <3>2. thread'[<<c, t[2]>>] = "done"
      BY <2>1, <3>1 DEF Shape
    <3>3. QED BY <3>1, <3>2
  <2>4. CASE c # t[1]
    <3>1. queue'[<<c, a>>] = queue[<<c, a>>]
      BY <2>1, <2>4, TryOfPair DEF Shape
    <3>2. PICK b \in Attempts : thread[<<c, b>>] = "done"
      BY <2>2, <3>1 DEF Filled
    <3>3. thread'[<<c, b>>] = "done"
      BY <2>1, <3>2, TryOfPair DEF Shape
    <3>4. QED BY <3>3
  <2>5. QED BY <2>3, <2>4
<1>4. ASSUME Launch PROVE UNCHANGED queue /\ \A t \in Tries : thread[t] = "done" => thread'[t] = "done"
  <2>1. Current \in Tries /\ thread[Current] = "none" /\ UNCHANGED queue
    BY <1>4, TryOfPair DEF Launch, Shape, Current, Fresh, ToCome
  <2>2. thread' = thread \/ thread' = [thread EXCEPT ![Current] = "launched"]
    BY <1>4 DEF Launch
  <2>3. QED BY <2>1, <2>2 DEF Shape
<1>5. ASSUME NEW t \in Tries, Begin(t) \/ Return(t)
      PROVE  UNCHANGED queue /\ \A u \in Tries : thread[u] = "done" => thread'[u] = "done"
  BY <1>5 DEF Begin, Return, Shape
<1>6. ASSUME Build \/ Expire \/ NextCall \/ UNCHANGED vars PROVE UNCHANGED <<queue, thread>>
  BY <1>6 DEF Build, Expire, NextCall, vars, tries
<1>7. QED BY <1>1, <1>2, <1>3, <1>4, <1>5, <1>6 DEF Next, Adapter

LEMMA FilledInit == Init => Filled
BY TryOfPair DEF Init, Filled

\* A full queue has a thread behind it that is done, so that of all the threads of a
\* call one does not wait.
LEMMA OneOfAllGetsThrough ==
  ASSUME Filled, NEW c \in Calls, Shape
  PROVE  Cardinality({a \in Attempts :
           thread[<<c, a>>] = "putting" /\ queue[QueueOf(<<c, a>>)] # <<>>}) <= MaxRetries
<1> DEFINE Stuck == {a \in Attempts : thread[<<c, a>>] = "putting" /\ queue[QueueOf(<<c, a>>)] # <<>>}
<1>1. MaxRetries \in Nat /\ MaxRetries + 1 = (MaxRetries - 0) + 1 /\ 0 <= MaxRetries
  BY ProviderAssumption
<1>2. IsFiniteSet(Attempts) /\ Cardinality(Attempts) = MaxRetries + 1
  BY <1>1, FS_Interval DEF Attempts
<1>3. Stuck # Attempts
  <2>1. SUFFICES ASSUME Stuck = Attempts PROVE FALSE
    OBVIOUS
  <2>2. 0 \in Attempts
    BY <1>1 DEF Attempts
  <2>3. PICK a \in Attempts : a = target[<<c, 0>>]
    BY <2>2, TryOfPair DEF Shape
  <2>4. queue[<<c, a>>] # <<>>
    BY <2>1, <2>2, <2>3, TryOfPair DEF QueueOf
  <2>5. PICK b \in Attempts : thread[<<c, b>>] = "done"
    BY <2>4 DEF Filled
  <2>6. thread[<<c, b>>] = "putting"
    BY <2>1
  <2>7. QED BY <2>5, <2>6
<1>4. Stuck \subseteq Attempts
  OBVIOUS
<1> HIDE DEF Stuck
<1>5. /\ IsFiniteSet(Stuck) /\ Cardinality(Stuck) <= Cardinality(Attempts)
      /\ Cardinality(Stuck) # Cardinality(Attempts)
  BY <1>2, <1>3, <1>4, FS_Subset
<1>6. Cardinality(Stuck) \in Nat
  BY <1>5, FS_CardinalityType
<1>7. Cardinality(Stuck) <= MaxRetries
  BY <1>1, <1>2, <1>5, <1>6
<1>8. QED BY <1>7 DEF Stuck

\* However many answers come late, a call leaves at most as many threads behind as it
\* has retries: the queues they wait for were filled by one that ended (provider.py:268).
THEOREM StuckCorrect == Spec => []FewThreadsStuck
<1>1. CallInv /\ Filled => FewThreadsStuck
  BY OneOfAllGetsThrough DEF CallInv, FewThreadsStuck
<1>2. Init => CallInv /\ Filled
  BY CallInit, FilledInit
<1>3. CallInv /\ Filled /\ [Next]_vars => (CallInv /\ Filled)'
  BY CallStep, FilledStep
<1>4. QED BY <1>1, <1>2, <1>3, PTL DEF Spec

-----------------------------------------------------------------------------
(***************************************************************************)
(* The bundle of evidence, for any evidence and any budget.                *)
(***************************************************************************)
\* A set of numbers has a smallest: the proofs below use it in place of induction.
LEMMA SmallestOf ==
  ASSUME NEW S, S \subseteq Nat, S # {}
  PROVE  \E x \in S : \A y \in S : x <= y
<1>1. PICK x \in S : \A y \in S : ~(<<y, x>> \in OpToRel(<, Nat))
  BY NatLessThanWellFounded, WFMin
<1>2. ASSUME NEW y \in S PROVE x <= y
  <2>1. <<y, x>> \in Nat \X Nat /\ <<y, x>>[1] = y /\ <<y, x>>[2] = x
    OBVIOUS
  <2>2. ~(y < x)
    BY <1>1, <2>1 DEF OpToRel
  <2>3. QED BY <2>2
<1>3. QED BY <1>2

\* A function from 0..n that starts at first and takes the given steps.
Steppable(n, S, first, step) == n \in Nat /\ first \in S /\ step \in [1..n -> [S -> S]]
Walks(f, n, S, first, step) ==
  f \in [0..n -> S] /\ f[0] = first /\ \A i \in 1..n : f[i] = step[i][f[i - 1]]

LEMMA Iteration ==
  ASSUME NEW n, NEW S, NEW first, NEW step, Steppable(n, S, first, step)
  PROVE  \E f : Walks(f, n, S, first, step)
<1> USE DEF Steppable
<1> DEFINE Takes(k, f) == /\ f \in [0..k -> S] /\ f[0] = first
                          /\ \A i \in 1..k : f[i] = step[i][f[i - 1]]
           Missing == {k \in 0..n : ~\E f : Takes(k, f)}
<1>1. SUFFICES ASSUME Missing # {} PROVE FALSE
  <2>1. n \in 0..n
    OBVIOUS
  <2>2. Missing = {} => \E f : Takes(n, f)
    BY <2>1
  <2>3. (\E f : Takes(n, f)) => \E f : Walks(f, n, S, first, step)
    BY DEF Walks
  <2>4. QED BY <2>2, <2>3
<1>2. PICK k \in Missing : \A j \in Missing : k <= j
  <2>1. Missing \subseteq Nat
    OBVIOUS
  <2>2. QED BY <1>1, <2>1, SmallestOf
<1>3. k # 0
  <2> DEFINE h == [i \in 0..0 |-> first]
  <2>1. Takes(0, h)
    OBVIOUS
  <2>2. QED BY <1>2, <2>1
<1>4. k \in 1..n /\ k - 1 \in 0..n /\ k - 1 \notin Missing
  BY <1>2, <1>3
<1>5. PICK f : Takes(k - 1, f)
  BY <1>4
<1> DEFINE h == [i \in 0..k |-> IF i = k THEN step[k][f[k - 1]] ELSE f[i]]
<1>6. f[k - 1] \in S /\ step[k][f[k - 1]] \in S
  BY <1>4, <1>5
<1>7. h \in [0..k -> S] /\ h[0] = first
  BY <1>4, <1>5, <1>6
<1>8. ASSUME NEW i \in 1..k PROVE h[i] = step[i][h[i - 1]]
  <2>1. i - 1 \in 0..(k - 1) /\ h[i - 1] = f[i - 1]
    BY <1>4
  <2>2. CASE i = k
    BY <1>4, <2>1, <2>2
  <2>3. CASE i # k
    BY <1>4, <1>5, <2>1, <2>3
  <2>4. QED BY <2>2, <2>3
<1>9. Takes(k, h)
  BY <1>7, <1>8
<1>10. QED BY <1>2, <1>9

-----------------------------------------------------------------------------
LEMMA TokensNat == \A b \in Nat : Tokens(b) \in Nat
BY DEF Tokens

\* The sums of what was taken of the first i, and the last of them.
Sums(total, n, size, taken) ==
  /\ total \in [0..n -> Nat] /\ Total(size, taken) = total[n] /\ total[0] = 0
  /\ \A i \in 1..n : total[i] = total[i - 1] + (IF i \in taken THEN size[i] ELSE 0)

LEMMA TotalEquations ==
  ASSUME NEW n \in Nat, NEW size \in [1..n -> Nat], NEW taken
  PROVE  \E total : Sums(total, n, size, taken)
<1> DEFINE Plus(i, x) == x + (IF i \in taken THEN size[i] ELSE 0)
           step == [i \in 1..n |-> [x \in Nat |-> Plus(i, x)]]
           Body(f, i) == IF i = 0 THEN 0 ELSE f[i - 1] + (IF i \in taken THEN size[i] ELSE 0)
           Is(f) == f = [i \in 0..n |-> Body(f, i)]
           total == CHOOSE f : Is(f)
<1>1. Len(size) = n
  OBVIOUS
<1>2. Total(size, taken) = total[n]
  BY <1>1 DEF Total
<1>3. \A i \in 1..n, x \in Nat : Plus(i, x) \in Nat
  OBVIOUS
<1> HIDE DEF total
<1>4. step \in [1..n -> [Nat -> Nat]]
  <2> HIDE DEF Plus
  <2>1. QED BY <1>3
<1>5. PICK f \in [0..n -> Nat] : f[0] = 0 /\ \A i \in 1..n : f[i] = step[i][f[i - 1]]
  <2> HIDE DEF step
  <2>1. Steppable(n, Nat, 0, step)
    BY <1>4 DEF Steppable
  <2>2. \E f : Walks(f, n, Nat, 0, step)
    BY <2>1, Iteration
  <2>3. QED BY <2>2 DEF Walks
<1>6. \A i \in 1..n : i - 1 \in 0..n /\ f[i] = Plus(i, f[i - 1])
  <2>1. ASSUME NEW i \in 1..n PROVE i - 1 \in 0..n /\ f[i] = Plus(i, f[i - 1])
    <3>1. i - 1 \in 0..n
      OBVIOUS
    <3>2. f[i - 1] \in Nat /\ f[i] = step[i][f[i - 1]]
      BY <1>5, <3>1
    <3> HIDE DEF Plus
    <3>3. QED BY <3>1, <3>2
  <2>2. QED BY <2>1
<1>7. Is(f)
  <2>1. ASSUME NEW i \in 0..n PROVE f[i] = Body(f, i)
    BY <1>5, <1>6
  <2>2. f = [i \in 0..n |-> f[i]]
    BY <1>5
  <2> HIDE DEF Body
  <2>3. QED BY <2>1, <2>2
<1>8. Is(total)
  <2> HIDE DEF Is
  <2>1. QED BY <1>7 DEF total
<1>9. DOMAIN total = 0..n /\ \A i \in 0..n : total[i] = Body(total, i)
  <2> HIDE DEF Body
  <2>1. QED BY <1>8
<1>10. total[0] = 0 /\ \A i \in 1..n : i - 1 \in 0..n /\ total[i] = Plus(i, total[i - 1])
  BY <1>6, <1>9
<1>11. \A i \in 0..n : total[i] \in Nat
  <2> DEFINE Odd == {i \in 0..n : total[i] \notin Nat}
  <2>1. SUFFICES ASSUME Odd # {} PROVE FALSE
    OBVIOUS
  <2>2. PICK i \in Odd : \A j \in Odd : i <= j
    <3>1. Odd \subseteq Nat
      OBVIOUS
    <3>2. QED BY <2>1, <3>1, SmallestOf
  <2>3. i # 0
    BY <1>10, <2>2
  <2>4. i \in 1..n /\ i - 1 \in 0..n /\ i - 1 \notin Odd
    BY <2>2, <2>3
  <2> HIDE DEF Plus
  <2>5. QED BY <1>3, <1>10, <2>2, <2>4
<1>12. total \in [0..n -> Nat]
  <2> HIDE DEF Is, Body
  <2>1. total = [i \in 0..n |-> total[i]]
    BY <1>8 DEF Is
  <2>2. QED BY <1>11, <2>1
<1>13. QED BY <1>2, <1>10, <1>12 DEF Sums

-----------------------------------------------------------------------------
\* A bundle in the making.
AllKeys(ev) == {Offered(ev)[i].item.key : i \in DOMAIN Offered(ev)}
AllFiles(ev) == UNION {Offered(ev)[i].item.files : i \in DOMAIN Offered(ev)}
Bundles(ev) ==
  [items : Seq(AllKeys(ev)), omitted : SUBSET AllKeys(ev),
   files : {F \in SUBSET AllFiles(ev) : IsFiniteSet(F)},
   bytes : Nat, tokens : Nat, unresolved : {0}]

\* What an offer does to a bundle.
Accepted(bun, offer, bud) == offer.wanted /\ Fits(bun, offer.item, bud)
Offering(before, after, offer, bud) ==
  IF Accepted(before, offer, bud)
  THEN /\ Keys(after) = Keys(before) \union {offer.item.key} /\ after.omitted = before.omitted
       /\ after.files = before.files \union offer.item.files
       /\ after.bytes = before.bytes + offer.item.bytes
       /\ after.tokens = before.tokens + Tokens(offer.item.bytes)
  ELSE /\ Keys(after) = Keys(before) /\ after.omitted = before.omitted \union {offer.item.key}
       /\ after.files = before.files /\ after.bytes = before.bytes /\ after.tokens = before.tokens

LEMMA ConsiderOffers ==
  ASSUME NEW ev, Offerable(ev), NEW bud, NEW bun \in Bundles(ev), NEW i \in DOMAIN Offered(ev)
  PROVE  LET after == Consider(bun, Offered(ev)[i], bud)
         IN  after \in Bundles(ev) /\ Offering(bun, after, Offered(ev)[i], bud)
<1> DEFINE offer == Offered(ev)[i]
           after == Consider(bun, offer, bud)
           key == offer.item.key
           items == Append(bun.items, key)
           files == bun.files \union offer.item.files
           bytes == bun.bytes + offer.item.bytes
           tokens == bun.tokens + Tokens(offer.item.bytes)
           omitted == bun.omitted \union {key}
<1>1. key \in AllKeys(ev) /\ offer.item.files \subseteq AllFiles(ev)
  BY DEF AllKeys, AllFiles
<1>2. offer.item.bytes \in Nat /\ IsFiniteSet(offer.item.files)
  BY DEF Offerable
<1>3. /\ bun.items \in Seq(AllKeys(ev)) /\ bun.omitted \subseteq AllKeys(ev)
      /\ bun.files \subseteq AllFiles(ev) /\ IsFiniteSet(bun.files)
      /\ bun.bytes \in Nat /\ bun.tokens \in Nat
  BY DEF Bundles
<1> HIDE DEF offer, key
<1>4. items \in Seq(AllKeys(ev)) /\ omitted \subseteq AllKeys(ev)
  BY <1>1, <1>3
<1>5. files \subseteq AllFiles(ev) /\ IsFiniteSet(files)
  BY <1>1, <1>2, <1>3, FS_Union
<1>6. bytes \in Nat /\ tokens \in Nat
  <2>1. Tokens(offer.item.bytes) \in Nat
    BY <1>2, TokensNat
  <2>2. QED BY <1>2, <1>3, <2>1
<1>7. {items[j] : j \in DOMAIN items} = Keys(bun) \union {key}
  <2> DEFINE s == bun.items
  <2>1. s \in Seq(AllKeys(ev)) /\ items = Append(s, key)
    BY <1>3
  <2> HIDE DEF s, items
  <2>2. {items[j] : j \in DOMAIN items} = {s[j] : j \in DOMAIN s} \union {key}
    BY <2>1, <1>1
  <2>3. QED BY <2>2 DEF Keys, s
<1> HIDE DEF items, files, bytes, tokens, omitted
<1>8. CASE Accepted(bun, offer, bud)
  <2>1. after = [bun EXCEPT !.items = items, !.files = files, !.bytes = bytes, !.tokens = tokens]
    BY <1>8 DEF Accepted, Consider, Add, items, files, bytes, tokens, key
  <2> HIDE DEF after
  <2>2. /\ after \in Bundles(ev) /\ after.items = items /\ after.files = files
        /\ after.bytes = bytes /\ after.tokens = tokens /\ after.omitted = bun.omitted
    BY <1>4, <1>5, <1>6, <2>1 DEF Bundles
  <2>3. Keys(after) = Keys(bun) \union {key}
    BY <1>7, <2>2 DEF Keys
  <2>4. Offering(bun, after, offer, bud)
    BY <1>8, <2>2, <2>3 DEF Offering, files, bytes, tokens, key
  <2>5. QED BY <2>2, <2>4 DEF after, offer
<1>9. CASE ~Accepted(bun, offer, bud)
  <2>1. after = [bun EXCEPT !.omitted = omitted]
    BY <1>9 DEF Accepted, Consider, Add, omitted, key
  <2> HIDE DEF after
  <2>2. /\ after \in Bundles(ev) /\ after.items = bun.items /\ after.files = bun.files
        /\ after.bytes = bun.bytes /\ after.tokens = bun.tokens /\ after.omitted = omitted
    BY <1>4, <2>1 DEF Bundles
  <2>3. Keys(after) = Keys(bun)
    BY <2>2 DEF Keys
  <2>4. Offering(bun, after, offer, bud)
    BY <1>9, <2>2, <2>3 DEF Offering, omitted, key
  <2>5. QED BY <2>2, <2>4 DEF after, offer
<1>10. QED BY <1>8, <1>9

LEMMA OfferedShape ==
  ASSUME NEW ev, Offerable(ev)
  PROVE  Len(Offered(ev)) \in Nat /\ DOMAIN Offered(ev) = 1..Len(Offered(ev))
BY DEF Offerable

\* The offers are gone through in order, one after the other.
LEMMA AdditionsEquations ==
  ASSUME NEW ev, Offerable(ev), NEW bud
  PROVE  LET B == Additions(ev, bud)
             n == Len(Offered(ev))
         IN  /\ B \in [0..n -> Bundles(ev)] /\ B[0] = EmptyBundle
             /\ \A i \in 1..n : /\ i - 1 \in 0..n
                                /\ Offering(B[i - 1], B[i], Offered(ev)[i], bud)
<1> DEFINE B == Additions(ev, bud)
           n == Len(Offered(ev))
           S == Bundles(ev)
           Then(b, i) == Consider(b, Offered(ev)[i], bud)
           step == [i \in 1..n |-> [b \in S |-> Then(b, i)]]
           Body(f, i) == IF i = 0 THEN EmptyBundle ELSE Then(f[i - 1], i)
           Is(f) == f = [i \in 0..n |-> Body(f, i)]
<1>1. n \in Nat /\ DOMAIN Offered(ev) = 1..n
  BY OfferedShape
<1>2. B = CHOOSE f : Is(f)
  BY DEF Additions
<1>3. EmptyBundle \in S
  <2>1. <<>> \in Seq(AllKeys(ev)) /\ IsFiniteSet({})
    BY FS_EmptySet
  <2>2. QED BY <2>1 DEF EmptyBundle, Bundles
<1>4. \A b \in S, i \in 1..n : Then(b, i) \in S /\ Offering(b, Then(b, i), Offered(ev)[i], bud)
  BY <1>1, ConsiderOffers
<1> HIDE DEF B, n, S, Then
<1>5. step \in [1..n -> [S -> S]]
  BY <1>4
<1> HIDE DEF step
<1>6. PICK f : f \in [0..n -> S] /\ f[0] = EmptyBundle /\ \A i \in 1..n : f[i] = step[i][f[i - 1]]
  <2>1. Steppable(n, S, EmptyBundle, step)
    BY <1>1, <1>3, <1>5 DEF Steppable
  <2>2. \E f : Walks(f, n, S, EmptyBundle, step)
    BY <2>1, Iteration
  <2>3. QED BY <2>2 DEF Walks
<1>7. \A i \in 1..n : i - 1 \in 0..n /\ f[i] = Then(f[i - 1], i)
  <2>1. ASSUME NEW i \in 1..n PROVE i - 1 \in 0..n /\ f[i] = Then(f[i - 1], i)
    <3>1. i - 1 \in 0..n
      BY <1>1
    <3>2. f[i - 1] \in S /\ f[i] = step[i][f[i - 1]]
      BY <1>6, <3>1
    <3>3. QED BY <3>1, <3>2 DEF step
  <2>2. QED BY <2>1
<1>8. Is(f)
  <2>1. ASSUME NEW i \in 0..n PROVE f[i] = Body(f, i)
    BY <1>1, <1>6, <1>7
  <2>2. f = [i \in 0..n |-> f[i]]
    BY <1>6
  <2> HIDE DEF Body
  <2>3. QED BY <2>1, <2>2
<1>9. Is(B)
  <2> HIDE DEF Is
  <2>1. QED BY <1>2, <1>8
<1>10. DOMAIN B = 0..n /\ \A i \in 0..n : B[i] = Body(B, i)
  <2> HIDE DEF Body
  <2>1. QED BY <1>9
<1>11. B[0] = EmptyBundle /\ \A i \in 1..n : i - 1 \in 0..n /\ B[i] = Then(B[i - 1], i)
  BY <1>1, <1>7, <1>10
<1>12. \A i \in 0..n : B[i] \in S
  <2> DEFINE Odd == {i \in 0..n : B[i] \notin S}
  <2>1. SUFFICES ASSUME Odd # {} PROVE FALSE
    OBVIOUS
  <2>2. PICK i \in Odd : \A j \in Odd : i <= j
    <3>1. Odd \subseteq Nat
      BY <1>1
    <3>2. QED BY <2>1, <3>1, SmallestOf
  <2>3. i # 0
    BY <1>3, <1>11, <2>2
  <2>4. i \in 1..n /\ i - 1 \in 0..n /\ i - 1 \notin Odd
    BY <1>1, <2>2, <2>3
  <2>5. QED BY <1>4, <1>11, <2>2, <2>4
<1>13. B \in [0..n -> S]
  <2> HIDE DEF Is, Body
  <2>1. B = [i \in 0..n |-> B[i]]
    BY <1>9 DEF Is
  <2>2. QED BY <1>12, <2>1
<1>14. \A i \in 1..n : i - 1 \in 0..n /\ Offering(B[i - 1], B[i], Offered(ev)[i], bud)
  BY <1>4, <1>11, <1>12
<1>15. QED BY <1>11, <1>13, <1>14 DEF B, n, S

-----------------------------------------------------------------------------
\* The offers that were taken.
Accepts(ev, bud) ==
  {i \in 1..Len(Offered(ev)) : Accepted(Additions(ev, bud)[i - 1], Offered(ev)[i], bud)}
Budgeted(bud) == {bud.max_files, bud.max_bytes, bud.max_tokens} \subseteq Nat

\* What a bundle holds after i offers, taken being those it accepted.
Holds(bun, ev, taken, i) ==
  /\ Keys(bun) = {Offered(ev)[j].item.key : j \in {k \in taken : k <= i}}
  /\ bun.files = UNION {Offered(ev)[j].item.files : j \in {k \in taken : k <= i}}
  /\ \A j \in 1..i : j \notin taken => Offered(ev)[j].item.key \in bun.omitted
WithinBudget(bun, bud) ==
  /\ Cardinality(bun.files) <= bud.max_files
  /\ bun.bytes <= bud.max_bytes /\ bun.tokens <= bud.max_tokens

LEMMA AdditionsHold ==
  ASSUME NEW ev, Offerable(ev), NEW bud, Budgeted(bud), NEW m \in 0..Len(Offered(ev))
  PROVE  /\ Holds(Additions(ev, bud)[m], ev, Accepts(ev, bud), m)
         /\ WithinBudget(Additions(ev, bud)[m], bud)
<1> DEFINE B == Additions(ev, bud)
           O == Offered(ev)
           n == Len(O)
           T == Accepts(ev, bud)
           Good(i) == Holds(B[i], ev, T, i) /\ WithinBudget(B[i], bud)
           Bad == {i \in 0..n : ~Good(i)}
<1>1. SUFFICES ASSUME Bad # {} PROVE FALSE
  OBVIOUS
<1>2. n \in Nat /\ DOMAIN O = 1..n
  BY OfferedShape
<1>3. PICK i \in Bad : \A j \in Bad : i <= j
  <2>1. Bad \subseteq Nat
    BY <1>2
  <2>2. QED BY <1>1, <2>1, SmallestOf
<1>4. \A j \in T : j \in 1..n
  BY DEF Accepts
<1>5. i # 0
  <2>1. /\ Keys(EmptyBundle) = {} /\ EmptyBundle.files = {}
        /\ EmptyBundle.bytes = 0 /\ EmptyBundle.tokens = 0
    BY DEF Keys, EmptyBundle
  <2>2. B[0] = EmptyBundle
    BY AdditionsEquations
  <2>3. {k \in T : k <= 0} = {}
    BY <1>4
  <2>4. Holds(B[0], ev, T, 0)
    <3> HIDE DEF B, T
    <3>1. QED BY <2>1, <2>2, <2>3 DEF Holds
  <2>5. WithinBudget(B[0], bud)
    <3>1. Cardinality({}) = 0 /\ bud.max_files \in Nat /\ bud.max_bytes \in Nat /\ bud.max_tokens \in Nat
      BY FS_EmptySet DEF Budgeted
    <3>2. Cardinality(EmptyBundle.files) = 0 /\ EmptyBundle.bytes = 0 /\ EmptyBundle.tokens = 0
      BY <2>1, <3>1
    <3>3. WithinBudget(EmptyBundle, bud)
      BY <3>1, <3>2 DEF WithinBudget
    <3>4. QED BY <2>2, <3>3
  <2>6. QED BY <1>3, <2>4, <2>5
<1>6. i \in 1..n /\ i - 1 \in 0..n /\ i - 1 \notin Bad
  BY <1>2, <1>3, <1>5
<1>7. Good(i - 1)
  BY <1>6
<1> DEFINE before == B[i - 1]
           after == B[i]
           offer == O[i]
<1>8. Offering(before, after, offer, bud)
  BY <1>6, AdditionsEquations
<1>9. i \in T <=> Accepted(before, offer, bud)
  BY <1>6 DEF Accepts
<1>10. before \in Bundles(ev) /\ offer.item.bytes \in Nat
  <2>1. before \in Bundles(ev)
    BY <1>6, AdditionsEquations
  <2>2. QED BY <1>2, <1>6, <2>1 DEF Offerable
<1>11. Holds(before, ev, T, i - 1) /\ WithinBudget(before, bud)
  BY <1>7
<1> HIDE DEF B, T, before, after, offer
<1>12. CASE i \in T
  <2>1. {k \in T : k <= i} = {k \in T : k <= i - 1} \union {i}
    <3>1. \A k \in T : k <= i <=> k <= i - 1 \/ k = i
      BY <1>2, <1>4, <1>6
    <3>2. i <= i
      BY <1>2, <1>6
    <3>3. QED BY <1>12, <3>1, <3>2
  <2>2. /\ Keys(after) = Keys(before) \union {offer.item.key} /\ after.omitted = before.omitted
        /\ after.files = before.files \union offer.item.files
        /\ after.bytes = before.bytes + offer.item.bytes
        /\ after.tokens = before.tokens + Tokens(offer.item.bytes)
    BY <1>8, <1>9, <1>12 DEF Offering
  <2>3. Keys(after) = {O[j].item.key : j \in {k \in T : k <= i}}
    BY <1>11, <2>1, <2>2 DEF Holds, offer
  <2>4. after.files = UNION {O[j].item.files : j \in {k \in T : k <= i}}
    BY <1>11, <2>1, <2>2 DEF Holds, offer
  <2>5. \A j \in 1..i : j \notin T => O[j].item.key \in after.omitted
    <3>1. \A j \in 1..i : j = i \/ j \in 1..(i - 1)
      BY <1>6
    <3>2. QED BY <1>11, <1>12, <2>2, <3>1 DEF Holds
  <2>6. Holds(after, ev, T, i)
    BY <2>3, <2>4, <2>5 DEF Holds
  <2>7. WithinBudget(after, bud)
    BY <1>9, <1>12, <2>2 DEF WithinBudget, Accepted, Fits
  <2>8. QED BY <1>3, <2>6, <2>7 DEF after
<1>13. CASE i \notin T
  <2>1. {k \in T : k <= i} = {k \in T : k <= i - 1}
    BY <1>4, <1>6, <1>13
  <2>2. /\ Keys(after) = Keys(before) /\ after.omitted = before.omitted \union {offer.item.key}
        /\ after.files = before.files /\ after.bytes = before.bytes /\ after.tokens = before.tokens
    BY <1>8, <1>9, <1>13 DEF Offering
  <2>3. \A j \in 1..i : j \notin T => O[j].item.key \in after.omitted
    <3>1. \A j \in 1..i : j = i \/ j \in 1..(i - 1)
      BY <1>6
    <3>2. QED BY <1>11, <2>2, <3>1 DEF Holds, offer
  <2>4. Holds(after, ev, T, i)
    BY <1>11, <2>1, <2>2, <2>3 DEF Holds
  <2>5. WithinBudget(after, bud)
    BY <1>11, <2>2 DEF WithinBudget
  <2>6. QED BY <1>3, <2>4, <2>5 DEF after
<1>14. QED BY <1>12, <1>13

\* The counts only grow.
LEMMA AdditionsGrow ==
  ASSUME NEW ev, Offerable(ev), NEW bud, NEW l \in 0..Len(Offered(ev)),
         NEW m \in 0..Len(Offered(ev)), l <= m
  PROVE  LET B == Additions(ev, bud)
         IN  /\ B[l].files \subseteq B[m].files /\ IsFiniteSet(B[m].files)
             /\ B[l].bytes \in Nat /\ B[m].bytes \in Nat /\ B[l].bytes <= B[m].bytes
             /\ B[l].tokens \in Nat /\ B[m].tokens \in Nat /\ B[l].tokens <= B[m].tokens
<1> DEFINE B == Additions(ev, bud)
           O == Offered(ev)
           n == Len(O)
           Grown(k) == /\ B[l].files \subseteq B[k].files
                       /\ B[l].bytes <= B[k].bytes /\ B[l].tokens <= B[k].tokens
           Bad == {k \in 0..n : l <= k /\ ~Grown(k)}
<1>1. n \in Nat /\ DOMAIN O = 1..n
  BY OfferedShape
<1>2. \A k \in 0..n : /\ B[k].bytes \in Nat /\ B[k].tokens \in Nat /\ IsFiniteSet(B[k].files)
  <2>1. ASSUME NEW k \in 0..n PROVE B[k] \in Bundles(ev)
    BY AdditionsEquations
  <2> HIDE DEF B
  <2>2. QED BY <2>1 DEF Bundles
<1>3. Bad = {}
  <2>1. SUFFICES ASSUME Bad # {} PROVE FALSE
    OBVIOUS
  <2>2. PICK k \in Bad : \A j \in Bad : k <= j
    <3>1. Bad \subseteq Nat
      BY <1>1
    <3>2. QED BY <2>1, <3>1, SmallestOf
  <2>3. k # l
    BY <1>2, <2>2
  <2>4. k \in 1..n /\ k - 1 \in 0..n /\ l <= k - 1 /\ k - 1 \notin Bad
    BY <1>1, <2>2, <2>3
  <2>5. Offering(B[k - 1], B[k], O[k], bud)
    BY <2>4, AdditionsEquations
  <2>6. O[k].item.bytes \in Nat /\ Tokens(O[k].item.bytes) \in Nat
    BY <1>1, <2>4, TokensNat DEF Offerable
  <2>7. Grown(k - 1)
    BY <2>4
  <2> DEFINE before == B[k - 1]
             after == B[k]
  <2>8. before.bytes \in Nat /\ before.tokens \in Nat
    BY <1>2, <2>4
  <2>9. /\ before.files \subseteq after.files
        /\ before.bytes <= after.bytes /\ before.tokens <= after.tokens
    <3>1. Offering(before, after, O[k], bud)
      BY <2>5
    <3> HIDE DEF before, after
    <3>2. QED BY <2>6, <2>8, <3>1 DEF Offering
  <2>10. /\ B[l].bytes \in Nat /\ B[l].tokens \in Nat /\ B[k].bytes \in Nat /\ B[k].tokens \in Nat
    BY <1>2, <2>2
  <2> HIDE DEF B
  <2>11. Grown(k)
    BY <2>7, <2>8, <2>9, <2>10
  <2>12. QED BY <2>2, <2>11
<1>4. QED BY <1>2, <1>3

\* The counts are the sums of what was taken.
LEMMA AdditionsCount ==
  ASSUME NEW ev, Offerable(ev), NEW bud
  PROVE  LET O == Offered(ev)
             final == Additions(ev, bud)[Len(O)]
         IN  /\ final.bytes = Total([i \in DOMAIN O |-> O[i].item.bytes], Accepts(ev, bud))
             /\ final.tokens = Total([i \in DOMAIN O |-> Tokens(O[i].item.bytes)], Accepts(ev, bud))
<1> DEFINE B == Additions(ev, bud)
           O == Offered(ev)
           n == Len(O)
           T == Accepts(ev, bud)
           bytes == [i \in 1..n |-> O[i].item.bytes]
           tokens == [i \in 1..n |-> Tokens(O[i].item.bytes)]
<1>1. n \in Nat /\ DOMAIN O = 1..n
  BY OfferedShape
<1>2. \A i \in 1..n : O[i].item.bytes \in Nat /\ Tokens(O[i].item.bytes) \in Nat
  BY <1>1, TokensNat DEF Offerable
<1>3. bytes \in [1..n -> Nat] /\ tokens \in [1..n -> Nat]
  BY <1>2
<1>4. PICK tb : Sums(tb, n, bytes, T)
  <2> HIDE DEF bytes, T, n
  <2>1. QED BY <1>1, <1>3, TotalEquations
<1>5. PICK tt : Sums(tt, n, tokens, T)
  <2> HIDE DEF tokens, T, n
  <2>1. QED BY <1>1, <1>3, TotalEquations
<1> DEFINE Odd == {i \in 0..n : ~(B[i].bytes = tb[i] /\ B[i].tokens = tt[i])}
<1>6. Odd = {}
  <2>1. SUFFICES ASSUME Odd # {} PROVE FALSE
    OBVIOUS
  <2>2. PICK i \in Odd : \A j \in Odd : i <= j
    <3>1. Odd \subseteq Nat
      BY <1>1
    <3>2. QED BY <2>1, <3>1, SmallestOf
  <2>3. i # 0
    <3>1. B[0] = EmptyBundle
      BY AdditionsEquations
    <3> HIDE DEF B
    <3>2. B[0].bytes = 0 /\ B[0].tokens = 0
      BY <3>1 DEF EmptyBundle
    <3>3. QED BY <1>4, <1>5, <2>2, <3>2 DEF Sums
  <2>4. i \in 1..n /\ i - 1 \in 0..n /\ i - 1 \notin Odd
    BY <1>1, <2>2, <2>3
  <2>5. Offering(B[i - 1], B[i], O[i], bud)
    BY <2>4, AdditionsEquations
  <2>6. i \in T <=> Accepted(B[i - 1], O[i], bud)
    BY <2>4 DEF Accepts
  <2>7. B[i - 1].bytes = tb[i - 1] /\ B[i - 1].tokens = tt[i - 1]
    BY <2>4
  <2>8. /\ B[i].bytes = B[i - 1].bytes + (IF i \in T THEN bytes[i] ELSE 0)
        /\ B[i].tokens = B[i - 1].tokens + (IF i \in T THEN tokens[i] ELSE 0)
    <3>1. tb[i - 1] \in Nat /\ tt[i - 1] \in Nat
      BY <1>4, <1>5, <2>4 DEF Sums
    <3>2. bytes[i] = O[i].item.bytes /\ tokens[i] = Tokens(O[i].item.bytes)
      BY <2>4
    <3> HIDE DEF B, T, O, bytes, tokens
    <3>3. QED BY <2>5, <2>6, <2>7, <3>1, <3>2 DEF Offering
  <2>9. tb[i] = tb[i - 1] + (IF i \in T THEN bytes[i] ELSE 0)
    BY <1>4, <2>4 DEF Sums
  <2>10. tt[i] = tt[i - 1] + (IF i \in T THEN tokens[i] ELSE 0)
    BY <1>5, <2>4 DEF Sums
  <2> HIDE DEF B, T, bytes, tokens
  <2>11. B[i].bytes = tb[i] /\ B[i].tokens = tt[i]
    BY <2>7, <2>8, <2>9, <2>10
  <2>12. QED BY <2>2, <2>11
<1>7. n \in 0..n
  BY <1>1
<1>8. B[n].bytes = Total(bytes, T) /\ B[n].tokens = Total(tokens, T)
  <2> HIDE DEF B, T, bytes, tokens
  <2>1. QED BY <1>4, <1>5, <1>6, <1>7 DEF Sums
<1>9. QED BY <1>1, <1>8

-----------------------------------------------------------------------------
\* What does not fit a bundle in the making does not fit the finished one.
LEMMA StillDoesNotFit ==
  ASSUME NEW ev, Offerable(ev), NEW bud, Budgeted(bud), NEW i \in DOMAIN Offered(ev),
         ~Fits(Additions(ev, bud)[i - 1], Offered(ev)[i].item, bud)
  PROVE  ~Fits(Additions(ev, bud)[Len(Offered(ev))], Offered(ev)[i].item, bud)
<1> DEFINE n == Len(Offered(ev))
           before == Additions(ev, bud)[i - 1]
           final == Additions(ev, bud)[n]
           item == Offered(ev)[i].item
<1>1. n \in Nat /\ i \in 1..n
  BY OfferedShape
<1>2. i - 1 \in 0..n /\ n \in 0..n /\ i - 1 <= n
  BY <1>1
<1>3. /\ before.files \subseteq final.files /\ IsFiniteSet(final.files)
      /\ before.bytes \in Nat /\ final.bytes \in Nat /\ before.bytes <= final.bytes
      /\ before.tokens \in Nat /\ final.tokens \in Nat /\ before.tokens <= final.tokens
  BY <1>2, AdditionsGrow
<1>4. item.bytes \in Nat /\ Tokens(item.bytes) \in Nat /\ IsFiniteSet(item.files)
  BY TokensNat DEF Offerable
<1>5. bud.max_files \in Nat /\ bud.max_bytes \in Nat /\ bud.max_tokens \in Nat
  BY DEF Budgeted
<1> HIDE DEF before, final, item
<1>6. /\ Cardinality(before.files \union item.files) \in Nat
      /\ Cardinality(final.files \union item.files) \in Nat
      /\ Cardinality(before.files \union item.files) <= Cardinality(final.files \union item.files)
  <2>1. IsFiniteSet(final.files \union item.files)
    BY <1>3, <1>4, FS_Union
  <2>2. before.files \union item.files \subseteq final.files \union item.files
    BY <1>3
  <2>3. QED BY <2>1, <2>2, FS_Subset, FS_CardinalityType
<1>7. ~Fits(before, item, bud)
  BY DEF before, item
<1>8. ~Fits(final, item, bud)
  BY <1>3, <1>4, <1>5, <1>6, <1>7 DEF Fits
<1>9. QED BY <1>8 DEF final, item, n

BundleKept ==
  /\ \E i \in Inputs : evidence = i.evidence /\ budget = i.budget
  /\ pc \notin {"build", "raised"} => bundle = Bundle(evidence, budget)

LEMMA BundleInit == Init => BundleKept
BY DEF Init, BundleKept

LEMMA BundleStep == BundleKept /\ [Next]_vars => BundleKept'
<1> SUFFICES ASSUME BundleKept, [Next]_vars PROVE BundleKept'
  OBVIOUS
<1>1. CASE Build
  BY <1>1 DEF Build, BundleKept
<1>2. ASSUME UNCHANGED inputs, pc' = pc \/ pc \notin {"build", "raised"} PROVE BundleKept'
  BY <1>2 DEF BundleKept, inputs
<1>3. CASE Launch \/ Take \/ Expire \/ NextCall
  BY <1>2, <1>3 DEF Launch, Take, Expire, NextCall
<1>4. CASE \E t \in Tries : Begin(t) \/ Return(t) \/ Deliver(t)
  BY <1>2, <1>4 DEF Begin, Return, Deliver
<1>5. CASE UNCHANGED vars
  BY <1>2, <1>5 DEF vars
<1>6. QED BY <1>1, <1>3, <1>4, <1>5 DEF Next, Adapter

\* The bundle of the agents is within its budget, its counts are its own, and what was
\* left out for the budget would not fit it either (context.py:133).
THEOREM BundleCorrect == Spec => []NothingThatFitsIsOmitted
<1>1. BundleKept => NothingThatFitsIsOmitted
  <2>1. SUFFICES ASSUME BundleKept, pc \notin {"build", "raised"} PROVE NothingThatFitsIsOmitted
    BY DEF NothingThatFitsIsOmitted
  <2> DEFINE O == Offered(evidence)
             n == Len(O)
             final == Additions(evidence, budget)[n]
             T == Accepts(evidence, budget)
             taken == {i \in DOMAIN O : O[i].item.key \in Keys(bundle)}
  <2>2. Offerable(evidence) /\ Budgeted(budget) /\ bundle = Bundle(evidence, budget)
    BY <2>1, ProviderAssumption DEF BundleKept, Budgeted
  <2>3. n \in Nat /\ DOMAIN O = 1..n /\ n \in 0..n
    BY <2>2, OfferedShape
  <2>4. final \in Bundles(evidence)
    BY <2>2, <2>3, AdditionsEquations
  <2>5. /\ bundle.items = final.items /\ bundle.files = final.files /\ bundle.bytes = final.bytes
        /\ bundle.tokens = final.tokens /\ final.omitted \subseteq bundle.omitted
    <3> HIDE DEF final
    <3>1. QED BY <2>2, <2>4 DEF Bundle, Bundles, final, n, O
  <2>6. Holds(final, evidence, T, n) /\ WithinBudget(final, budget)
    BY <2>2, <2>3, AdditionsHold
  <2>7. {k \in T : k <= n} = T /\ T \subseteq DOMAIN O
    BY <2>3 DEF Accepts
  <2>8. taken = T
    <3>1. Keys(bundle) = {O[j].item.key : j \in T}
      <4> HIDE DEF final, T, O
      <4>1. QED BY <2>5, <2>6, <2>7 DEF Holds, Keys, O
    <3>2. \A i, j \in DOMAIN O : O[i].item.key = O[j].item.key => i = j
      BY <2>2 DEF Offerable
    <3> HIDE DEF T, O
    <3>3. QED BY <2>7, <3>1, <3>2
  <2>9. \A i \in taken : O[i].wanted
    BY <2>8 DEF Accepts, Accepted
  <2>10. ASSUME NEW i \in DOMAIN O \ taken
         PROVE  /\ O[i].item.key \in bundle.omitted
                /\ O[i].wanted => ~Fits(bundle, O[i].item, budget)
    <3>1. i \in 1..n /\ i \notin T
      BY <2>3, <2>8
    <3>2. O[i].item.key \in bundle.omitted
      <4> HIDE DEF final, T
      <4>1. QED BY <2>5, <2>6, <3>1 DEF Holds
    <3>3. ASSUME O[i].wanted PROVE ~Fits(bundle, O[i].item, budget)
      <4>1. ~Fits(Additions(evidence, budget)[i - 1], O[i].item, budget)
        BY <3>1, <3>3 DEF Accepts, Accepted
      <4>2. ~Fits(final, O[i].item, budget)
        BY <2>2, <4>1, StillDoesNotFit
      <4> HIDE DEF final, O
      <4>3. QED BY <2>5, <4>2 DEF Fits
    <3>4. QED BY <3>2, <3>3
  <2>11. bundle.files = UNION {O[i].item.files : i \in taken}
    <3> HIDE DEF final, T, taken
    <3>1. QED BY <2>5, <2>6, <2>7, <2>8 DEF Holds
  <2>12. /\ bundle.bytes = Total([i \in DOMAIN O |-> O[i].item.bytes], taken)
         /\ bundle.tokens = Total([i \in DOMAIN O |-> Tokens(O[i].item.bytes)], taken)
    <3> DEFINE bytes == [i \in DOMAIN O |-> O[i].item.bytes]
               tokens == [i \in DOMAIN O |-> Tokens(O[i].item.bytes)]
    <3>1. final.bytes = Total(bytes, T) /\ final.tokens = Total(tokens, T)
      BY <2>2, AdditionsCount
    <3> HIDE DEF final, T, taken, bytes, tokens
    <3>2. bundle.bytes = Total(bytes, taken) /\ bundle.tokens = Total(tokens, taken)
      BY <2>5, <2>8, <3>1
    <3>3. QED BY <3>2 DEF bytes, tokens
  <2>13. /\ Cardinality(bundle.files) <= budget.max_files
         /\ bundle.bytes <= budget.max_bytes /\ bundle.tokens <= budget.max_tokens
    <3> HIDE DEF final
    <3>1. QED BY <2>5, <2>6 DEF WithinBudget
  <2>14. QED BY <2>9, <2>10, <2>11, <2>12, <2>13 DEF NothingThatFitsIsOmitted
<1>2. QED BY <1>1, BundleInit, BundleStep, PTL DEF Spec
=============================================================================
