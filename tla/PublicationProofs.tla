------------------------- MODULE PublicationProofs -------------------------
(***************************************************************************)
(* Proofs about Publication for any number of clients, requests and        *)
(* versions of the evidence report, under all faults.                      *)
(***************************************************************************)
EXTENDS Publication, TLAPS

Making == {"existing", "call", "save", "insert"}
Labels == {"idle", "run", "report"} \union Making
Pulls  == [plan : Plans, open : BOOLEAN]
Snapshots == Unfinished \union Finished
Replies == [status : Statuses \union {"none", "error"}, plan : Plans \union {None}]

StoredShape ==
  /\ remediation \in Snapshots /\ evidence \in Plans
  /\ records \in [Plans -> Outcomes \union {None}] /\ pulls \in Seq(Pulls)
ClientShape ==
  /\ pc \in [Clients -> Labels] /\ op \in [Clients -> {"none", "dry_run", "publish"}]
  /\ seen \in [Clients -> Snapshots \union {None}] /\ plan \in [Clients -> Plans \union {None}]
  /\ outcome \in [Clients -> Outcomes \union {None}] /\ sent \in [Clients -> Nat]
  /\ reply \in [Clients -> Replies]
Shape == StoredShape /\ ClientShape

\* What an outcome of a plan claims: a published one, its own pull request.
Refers(o, p, requests) ==
  /\ o.reference # None <=> o.status = "published"
  /\ o.status = "published" =>
       o.reference \in DOMAIN requests /\ requests[o.reference].plan = p

\* What a client carries from one session to the next.
Working(c) ==
  /\ pc[c] \in Making \union {"report"} <=> seen[c] # None
  /\ pc[c] \in Making <=> plan[c] # None
  /\ pc[c] \in {"save", "insert"} <=> outcome[c] # None
  /\ pc[c] \in {"existing", "call"} => seen[c] = "open_pr"
  /\ seen[c] = "open_pr" => granted
  /\ outcome[c] # None => Refers(outcome[c], plan[c], pulls)

Answered(c) ==
  reply[c].plan # None =>
    records[reply[c].plan] # None /\ records[reply[c].plan].status = reply[c].status

PublishInv ==
  /\ Shape /\ PullsAuthorized /\ (remediation = "open_pr" => granted) /\ granted \in BOOLEAN
  /\ \A c \in Clients : Working(c) /\ Answered(c)
  /\ \A p \in Plans : records[p] # None => Refers(records[p], p, pulls)

USE PublicationAssumption

-----------------------------------------------------------------------------
(***************************************************************************)
(* What a step leaves alone: pull requests keep their plans, records are   *)
(* final, and what the run's snapshot once said stays said.                *)
(***************************************************************************)
Grown(old, new) ==
  DOMAIN old \subseteq DOMAIN new /\ \A i \in DOMAIN old : new[i].plan = old[i].plan
Kept ==
  /\ Grown(pulls, pulls')
  /\ \A p \in Plans : records[p] # None => records'[p] = records[p]
  /\ granted => granted'
  /\ granted' \in BOOLEAN
  /\ remediation' = "open_pr" => granted'
  /\ pulls' # <<>> => granted'

Same(d) == /\ pc'[d] = pc[d] /\ seen'[d] = seen[d] /\ plan'[d] = plan[d]
           /\ outcome'[d] = outcome[d] /\ reply'[d] = reply[d]
Others(c) == \A d \in Clients \ {c} : Same(d)

LEMMA RefersStays ==
  ASSUME NEW old, NEW new, Grown(old, new), NEW o, NEW p, Refers(o, p, old)
  PROVE  Refers(o, p, new)
BY DEF Grown, Refers

\* Whoever takes no step stays as it was.
LEMMA StandStill ==
  ASSUME PublishInv, Kept, NEW d \in Clients, Same(d)
  PROVE  Working(d)' /\ Answered(d)'
<1>1. Working(d) /\ Answered(d)
  BY DEF PublishInv
<1>2. outcome[d] # None => Refers(outcome[d], plan[d], pulls')
  BY <1>1, RefersStays DEF Working, Kept
<1>3. Working(d)'
  BY <1>1, <1>2 DEF Working, Kept, Same
<1>4. Answered(d)'
  <2>1. reply[d] \in Replies
    BY DEF PublishInv, Shape, ClientShape
  <2>2. reply[d].plan \in Plans \union {None}
    BY <2>1 DEF Replies
  <2>3. QED BY <1>1, <2>2 DEF Answered, Kept, Same
<1>5. QED BY <1>3, <1>4

\* What refers to a pull request goes on referring to it.
LEMMA RecordsRefer ==
  ASSUME PublishInv, Kept, NEW p \in Plans, records[p] # None
  PROVE  Refers(records'[p], p, pulls')
BY RefersStays DEF PublishInv, Kept

\* A step of the surroundings.
LEMMA Around ==
  ASSUME PublishInv, Kept, Shape', UNCHANGED <<records, client>>
  PROVE  PublishInv'
<1>1. ASSUME NEW c \in Clients PROVE Working(c)' /\ Answered(c)'
  <2>1. Same(c)
    BY DEF Same, client
  <2>2. QED BY <2>1, StandStill
<1>2. QED BY <1>1, RecordsRefer DEF PublishInv, PullsAuthorized, Kept

\* A step of one client, which may store the record of a plan.
LEMMA Acts ==
  ASSUME PublishInv, NEW c \in Clients, Kept, Shape', Others(c), Working(c)', Answered(c)',
         \A p \in Plans : records'[p] # None => records[p] # None
                                                \/ Refers(records'[p], p, pulls')
  PROVE  PublishInv'
<1>1. ASSUME NEW d \in Clients PROVE Working(d)' /\ Answered(d)'
  <2>1. CASE d = c
    BY <2>1
  <2>2. CASE d # c
    BY <2>2, StandStill DEF Others
  <2>3. QED BY <2>1, <2>2
<1>2. QED BY <1>1, RecordsRefer DEF PublishInv, PullsAuthorized, Kept

-----------------------------------------------------------------------------
(***************************************************************************)
(* The surroundings.                                                       *)
(***************************************************************************)
LEMMA StartInv ==
  ASSUME Init
  PROVE  PublishInv
<1>1. Shape
  BY DEF Init, Shape, StoredShape, ClientShape, Plans, Snapshots, Unfinished, Labels, Replies,
         Silence, Pulls
<1>2. granted \in BOOLEAN /\ remediation # "open_pr" /\ pulls = <<>>
  BY DEF Init
<1>3. ASSUME NEW c \in Clients PROVE Working(c) /\ Answered(c)
  BY DEF Init, Working, Answered, Making, Silence, Finished
<1>4. ASSUME NEW p \in Plans PROVE records[p] = None
  BY DEF Init
<1>5. QED BY <1>1, <1>2, <1>3, <1>4 DEF PublishInv, PullsAuthorized

LEMMA RemediateInv ==
  ASSUME PublishInv, Remediate
  PROVE  PublishInv'
<1>1. Kept
  BY DEF PublishInv, PullsAuthorized, Remediate, Kept, Grown, Unfinished
<1>2. Shape'
  BY DEF PublishInv, Shape, StoredShape, ClientShape, Remediate, client, Snapshots
<1>3. QED BY <1>1, <1>2, Around DEF Remediate

LEMMA MeasureInv ==
  ASSUME PublishInv, Measure
  PROVE  PublishInv'
<1>1. Kept
  BY DEF PublishInv, PullsAuthorized, Measure, Kept, Grown
<1>2. evidence' \in Plans
  BY DEF PublishInv, Shape, StoredShape, Measure, Plans
<1>3. Shape'
  BY <1>2 DEF PublishInv, Shape, StoredShape, ClientShape, Measure, client
<1>4. QED BY <1>1, <1>3, Around DEF Measure

LEMMA CloseInv ==
  ASSUME PublishInv, Close
  PROVE  PublishInv'
<1>1. PICK i \in DOMAIN pulls : pulls' = [pulls EXCEPT ![i].open = FALSE]
  BY DEF Close
<1>2. pulls \in Seq(Pulls) /\ pulls[i] \in Pulls
  BY DEF PublishInv, Shape, StoredShape
<1>3. PICK pull \in Pulls : pull = [pulls[i] EXCEPT !.open = FALSE] /\ pull.plan = pulls[i].plan
  <2>1. PICK old \in Pulls : old = pulls[i]
    BY <1>2
  <2>2. [old EXCEPT !.open = FALSE] \in Pulls /\ [old EXCEPT !.open = FALSE].plan = old.plan
    BY DEF Pulls
  <2>3. QED BY <2>1, <2>2
<1>4. pulls' = [pulls EXCEPT ![i] = pull]
  BY <1>1, <1>3
<1>5. pulls' \in Seq(Pulls)
  BY <1>2, <1>4
<1>6. Grown(pulls, pulls') /\ pulls # <<>>
  BY <1>2, <1>3, <1>4 DEF Grown
<1>7. Kept
  BY <1>6 DEF PublishInv, PullsAuthorized, Close, Kept
<1>8. Shape'
  BY <1>5 DEF PublishInv, Shape, StoredShape, ClientShape, Close, client
<1>9. QED BY <1>7, <1>8, Around DEF Close

-----------------------------------------------------------------------------
(***************************************************************************)
(* One request.                                                            *)
(***************************************************************************)
LEMMA NothingStored ==
  ASSUME PublishInv, UNCHANGED stored
  PROVE  Kept /\ StoredShape' /\ UNCHANGED records
BY DEF PublishInv, Shape, StoredShape, PullsAuthorized, Kept, Grown, stored

\* An answer ends the request.
LEMMA AnswerEnds ==
  ASSUME ClientShape, NEW c \in Clients, NEW answer \in Replies, Answer(c, answer)
  PROVE  ClientShape' /\ Others(c) /\ Working(c)' /\ reply'[c] = answer
<1>1. /\ pc' = [pc EXCEPT ![c] = "idle"] /\ seen' = [seen EXCEPT ![c] = None]
      /\ plan' = [plan EXCEPT ![c] = None] /\ outcome' = [outcome EXCEPT ![c] = None]
      /\ reply' = [reply EXCEPT ![c] = answer] /\ UNCHANGED <<op, sent>>
  BY DEF Answer, Goto
<1>2. ClientShape'
  BY <1>1 DEF ClientShape, Labels
<1>3. Others(c) /\ reply'[c] = answer
  BY <1>1 DEF ClientShape, Others, Same
<1>4. pc'[c] = "idle" /\ seen'[c] = None /\ plan'[c] = None /\ outcome'[c] = None
  BY <1>1 DEF ClientShape
<1>5. Working(c)'
  BY <1>4 DEF Working, Making, Finished
<1>6. QED BY <1>2, <1>3, <1>5

\* An error, a silence, or what is recorded.
LEMMA AnswerInv ==
  ASSUME PublishInv, NEW c \in Clients, NEW answer \in Replies, Answer(c, answer),
         UNCHANGED stored, answer.plan # None => records[answer.plan] # None
                                                 /\ records[answer.plan].status = answer.status
  PROVE  PublishInv'
<1>1. ClientShape' /\ Others(c) /\ Working(c)' /\ reply'[c] = answer
  BY AnswerEnds DEF PublishInv, Shape
<1>2. Kept /\ StoredShape' /\ UNCHANGED records
  BY NothingStored
<1>3. Answered(c)'
  BY <1>1, <1>2 DEF Answered
<1>4. QED BY <1>1, <1>2, <1>3, Acts DEF Shape

\* A plan that has a record is answered with it.
LEMMA RecordedInv ==
  ASSUME PublishInv, NEW c \in Clients, plan[c] \in Plans, records[plan[c]] # None,
         Answer(c, Recorded(plan[c])), UNCHANGED stored
  PROVE  PublishInv'
<1>1. records[plan[c]] \in Outcomes
  BY DEF PublishInv, Shape, StoredShape
<1>2. /\ Recorded(plan[c]) \in Replies /\ Recorded(plan[c]).plan = plan[c]
      /\ Recorded(plan[c]).status = records[plan[c]].status
  BY <1>1 DEF Recorded, Replies, Outcomes
<1>3. QED BY <1>2, AnswerInv

LEMMA CrashInv ==
  ASSUME PublishInv, NEW c \in Clients, Crash(c)
  PROVE  PublishInv'
<1>1. Silence \in Replies /\ Silence.plan = None
  BY DEF Silence, Replies
<1>2. QED BY <1>1, AnswerInv DEF Crash

LEMMA BeginInv ==
  ASSUME PublishInv, NEW c \in Clients, Begin(c)
  PROVE  PublishInv'
<1>1. Kept /\ StoredShape' /\ UNCHANGED records
  BY NothingStored DEF Begin
<1>2. /\ pc' = [pc EXCEPT ![c] = "run"] /\ UNCHANGED <<seen, plan, outcome, reply>>
      /\ sent' = [sent EXCEPT ![c] = @ + 1] /\ pc[c] = "idle"
  BY DEF Begin, Goto
<1>3. ClientShape /\ Working(c) /\ Answered(c)
  BY DEF PublishInv, Shape
<1>4. PICK o \in {"dry_run", "publish"} : op' = [op EXCEPT ![c] = o]
  BY DEF Begin
<1>5. ClientShape'
  <2>1. sent' \in [Clients -> Nat]
    BY <1>2, <1>3 DEF ClientShape
  <2>2. op' \in [Clients -> {"none", "dry_run", "publish"}]
    BY <1>3, <1>4 DEF ClientShape
  <2>3. pc' \in [Clients -> Labels]
    BY <1>2, <1>3 DEF ClientShape, Labels
  <2>4. QED BY <1>2, <1>3, <2>1, <2>2, <2>3 DEF ClientShape
<1>6. Others(c) /\ pc'[c] = "run"
  BY <1>2, <1>3 DEF ClientShape, Others, Same
<1>7. Working(c)' /\ Answered(c)'
  BY <1>1, <1>2, <1>3, <1>6 DEF Working, Answered, Making, Finished
<1>8. QED BY <1>1, <1>5, <1>6, <1>7, Acts DEF Shape

LEMMA ReadRunInv ==
  ASSUME PublishInv, NEW c \in Clients, ReadRun(c)
  PROVE  PublishInv'
<1>1. CASE Answer(c, Error)
  <2>1. Error \in Replies /\ Error.plan = None
    BY DEF Error, Replies
  <2>2. QED BY <1>1, <2>1, AnswerInv DEF ReadRun
<1>2. CASE /\ seen' = [seen EXCEPT ![c] = remediation] /\ Goto(c, "report")
           /\ UNCHANGED <<op, plan, outcome, sent, reply>>
  <2>1. Kept /\ StoredShape' /\ UNCHANGED <<records, remediation, granted>>
    BY NothingStored DEF ReadRun, stored
  <2>2. /\ Shape /\ Working(c) /\ Answered(c) /\ pc[c] = "run"
        /\ remediation = "open_pr" => granted
    BY DEF PublishInv, ReadRun
  <2>3. pc' = [pc EXCEPT ![c] = "report"]
    BY <1>2 DEF Goto
  <2>4. ClientShape'
    BY <1>2, <2>2, <2>3 DEF Shape, ClientShape, StoredShape, Labels
  <2>5. Others(c) /\ pc'[c] = "report" /\ seen'[c] = remediation
    BY <1>2, <2>2, <2>3 DEF Shape, ClientShape, Others, Same
  <2>6. remediation # None
    BY <2>2 DEF Shape, StoredShape, Snapshots
  <2>7. Working(c)' /\ Answered(c)'
    BY <1>2, <2>1, <2>2, <2>5, <2>6 DEF Working, Answered, Making
  <2>8. QED BY <2>1, <2>4, <2>5, <2>7, Acts DEF Shape
<1>3. QED BY <1>1, <1>2 DEF ReadRun

\* What is about to be recorded for a plan.
LEMMA ToSaveShape ==
  ASSUME ClientShape, NEW c \in Clients, NEW status \in Statuses, NEW reference \in Nat \union {None},
         ToSave(c, status, reference)
  PROVE  /\ outcome' \in [Clients -> Outcomes \union {None}] /\ pc' \in [Clients -> Labels]
         /\ \A d \in Clients \ {c} : outcome'[d] = outcome[d] /\ pc'[d] = pc[d]
         /\ pc'[c] = "save" /\ outcome'[c] \in Outcomes
         /\ outcome'[c].status = status /\ outcome'[c].reference = reference
<1>1. PICK o \in Outcomes : o = [status |-> status, reference |-> reference]
  BY DEF Outcomes
<1>2. outcome' = [outcome EXCEPT ![c] = o] /\ pc' = [pc EXCEPT ![c] = "save"]
  BY <1>1 DEF ToSave, Goto
<1>3. QED BY <1>1, <1>2 DEF ClientShape, Labels, Making

LEMMA ReadReportInv ==
  ASSUME PublishInv, NEW c \in Clients, ReadReport(c)
  PROVE  PublishInv'
<1>1. Kept /\ StoredShape' /\ UNCHANGED <<records, remediation, granted>>
  BY NothingStored DEF ReadReport, stored
<1>2. Shape /\ ClientShape /\ Working(c) /\ Answered(c) /\ pc[c] = "report" /\ evidence \in Plans
  BY DEF PublishInv, ReadReport, Shape, StoredShape
<1>3. /\ plan' = [plan EXCEPT ![c] = evidence] /\ UNCHANGED <<stored, op, seen, sent, reply>>
  BY DEF ReadReport
<1>4. /\ plan' \in [Clients -> Plans \union {None}] /\ plan'[c] \in Plans
      /\ \A d \in Clients \ {c} : plan'[d] = plan[d]
  BY <1>2, <1>3 DEF ClientShape
<1>5. CASE \E status \in {"dry_run", "denied"} : ToSave(c, status, None)
  <2>1. PICK status \in {"dry_run", "denied"} : ToSave(c, status, None)
    BY <1>5
  <2>2. /\ outcome' \in [Clients -> Outcomes \union {None}] /\ pc' \in [Clients -> Labels]
        /\ \A d \in Clients \ {c} : outcome'[d] = outcome[d] /\ pc'[d] = pc[d]
        /\ pc'[c] = "save" /\ outcome'[c] \in Outcomes
        /\ outcome'[c].status = status /\ outcome'[c].reference = None
    BY <1>2, <2>1, ToSaveShape DEF Statuses
  <2>3. ClientShape' /\ Others(c)
    BY <1>2, <1>3, <1>4, <2>2 DEF ClientShape, Others, Same
  <2>4. Working(c)' /\ Answered(c)'
    BY <1>1, <1>2, <1>3, <1>4, <2>2 DEF Working, Answered, Making, Refers
  <2>5. QED BY <1>1, <2>3, <2>4, Acts DEF Shape
<1>6. CASE PublishAllowed(seen[c]) /\ Goto(c, "existing") /\ UNCHANGED outcome
  <2>1. pc' = [pc EXCEPT ![c] = "existing"] /\ seen[c] = "open_pr"
    BY <1>6 DEF Goto, PublishAllowed
  <2>2. pc' \in [Clients -> Labels] /\ pc'[c] = "existing" /\ \A d \in Clients \ {c} : pc'[d] = pc[d]
    BY <1>2, <2>1 DEF ClientShape, Labels, Making
  <2>3. ClientShape' /\ Others(c)
    BY <1>2, <1>3, <1>4, <1>6, <2>2 DEF ClientShape, Others, Same
  <2>4. Working(c)' /\ Answered(c)'
    BY <1>1, <1>2, <1>3, <1>4, <1>6, <2>1, <2>2 DEF Working, Answered, Making
  <2>5. QED BY <1>1, <2>3, <2>4, Acts DEF Shape
<1>7. QED BY <1>5, <1>6 DEF ReadReport

\* The session that looks for a record of the plan: it is answered with it, or
\* the request goes on.
LEMMA LookInv ==
  ASSUME PublishInv, NEW c \in Clients, NEW from \in {"existing", "save"},
         NEW to \in {"call", "insert"}, from = "existing" <=> to = "call", pc[c] = from,
         IF records[plan[c]] # None THEN Answer(c, Recorded(plan[c]))
         ELSE Goto(c, to) /\ UNCHANGED <<op, seen, plan, outcome, sent, reply>>,
         UNCHANGED stored
  PROVE  PublishInv'
<1>1. Shape /\ ClientShape /\ Working(c) /\ Answered(c)
  BY DEF PublishInv, Shape
<1>2. plan[c] \in Plans
  BY <1>1 DEF ClientShape, Working, Making
<1>3. CASE records[plan[c]] # None
  BY <1>2, <1>3, RecordedInv
<1>4. CASE Goto(c, to) /\ UNCHANGED <<op, seen, plan, outcome, sent, reply>>
  <2>1. Kept /\ StoredShape' /\ UNCHANGED <<records, remediation, granted, pulls>>
    BY NothingStored DEF stored
  <2>2. pc' = [pc EXCEPT ![c] = to]
    BY <1>4 DEF Goto
  <2>3. ClientShape' /\ Others(c) /\ pc'[c] = to
    BY <1>1, <1>4, <2>2 DEF ClientShape, Others, Same, Labels, Making
  <2>4. Working(c)' /\ Answered(c)'
    BY <1>1, <1>4, <2>1, <2>3 DEF Working, Answered, Making
  <2>5. QED BY <2>1, <2>3, <2>4, Acts DEF Shape
<1>5. QED BY <1>3, <1>4

\* A pull request that is opened is the plan's own.
LEMMA CreatesGrows ==
  ASSUME pulls \in Seq(Pulls), NEW c \in Clients, plan[c] \in Plans, Creates(c)
  PROVE  /\ pulls' \in Seq(Pulls) /\ Grown(pulls, pulls') /\ Len(pulls') \in Nat
         /\ Len(pulls') \in DOMAIN pulls' /\ pulls'[Len(pulls')].plan = plan[c]
<1>1. PICK pull \in Pulls : pull = [plan |-> plan[c], open |-> TRUE]
  BY DEF Pulls
<1>2. pulls' = Append(pulls, pull) /\ pull.plan = plan[c]
  BY <1>1 DEF Creates
<1>3. QED BY <1>2 DEF Grown

\* gh pr create, however it ends: only a client that read an open_pr decision
\* in a stored snapshot gets here.
LEMMA CallInv ==
  ASSUME PublishInv, NEW c \in Clients, Call(c)
  PROVE  PublishInv'
<1>1. Shape /\ ClientShape /\ Working(c) /\ Answered(c) /\ pc[c] = "call" /\ pulls \in Seq(Pulls)
  BY DEF PublishInv, Call, Shape, StoredShape
<1>2. plan[c] \in Plans /\ seen[c] = "open_pr" /\ granted
  BY <1>1 DEF ClientShape, Working, Making
<1>3. UNCHANGED <<remediation, granted, evidence, records, op, seen, plan, sent, reply>>
  BY DEF Call
<1>4. /\ Creates(c) \/ UNCHANGED pulls
      /\ \/ Creates(c) /\ ToSave(c, "published", Len(pulls'))
         \/ ToSave(c, "failed", None)
  BY DEF Call
<1>5. Grown(pulls, pulls') /\ pulls' \in Seq(Pulls)
  BY <1>1, <1>2, <1>4, CreatesGrows DEF Grown
<1>6. Kept /\ StoredShape'
  BY <1>1, <1>2, <1>3, <1>5 DEF Kept, Shape, StoredShape
<1>7. PICK status \in Statuses, reference \in Nat \union {None} :
        /\ ToSave(c, status, reference)
        /\ reference # None <=> status = "published"
        /\ status = "published" =>
             reference \in DOMAIN pulls' /\ pulls'[reference].plan = plan[c]
  <2>1. CASE Creates(c) /\ ToSave(c, "published", Len(pulls'))
    BY <1>1, <1>2, <2>1, CreatesGrows DEF Statuses
  <2>2. CASE ToSave(c, "failed", None)
    BY <2>2 DEF Statuses
  <2>3. QED BY <1>4, <2>1, <2>2
<1>8. /\ outcome' \in [Clients -> Outcomes \union {None}] /\ pc' \in [Clients -> Labels]
      /\ \A d \in Clients \ {c} : outcome'[d] = outcome[d] /\ pc'[d] = pc[d]
      /\ pc'[c] = "save" /\ outcome'[c] \in Outcomes
      /\ outcome'[c].status = status /\ outcome'[c].reference = reference
  BY <1>1, <1>7, ToSaveShape
<1>9. ClientShape' /\ Others(c)
  BY <1>1, <1>3, <1>8 DEF ClientShape, Others, Same
<1>10. Refers(outcome'[c], plan[c], pulls')
  BY <1>7, <1>8 DEF Refers
<1>11. Working(c)' /\ Answered(c)'
  BY <1>1, <1>2, <1>3, <1>8, <1>10 DEF Working, Answered, Making
<1>12. QED BY <1>3, <1>6, <1>9, <1>11, Acts DEF Shape

LEMMA SaveInsertInv ==
  ASSUME PublishInv, NEW c \in Clients, SaveInsert(c)
  PROVE  PublishInv'
<1>1. Shape /\ ClientShape /\ Working(c) /\ pc[c] = "insert" /\ StoredShape
  BY DEF PublishInv, SaveInsert, Shape
<1>2. plan[c] \in Plans /\ outcome[c] \in Outcomes /\ Refers(outcome[c], plan[c], pulls)
  BY <1>1 DEF ClientShape, Working, Making
<1>3. UNCHANGED <<remediation, granted, evidence, pulls>>
  BY DEF SaveInsert
<1>4. CASE Answer(c, Error) /\ UNCHANGED records
  <2>1. Error \in Replies /\ Error.plan = None
    BY DEF Error, Replies
  <2>2. QED BY <1>3, <1>4, <2>1, AnswerInv DEF stored
<1>5. CASE /\ records[plan[c]] = None
           /\ records' = [records EXCEPT ![plan[c]] = outcome[c]]
           /\ Answer(c, [status |-> outcome[c].status, plan |-> plan[c]])
  <2>1. PICK answer \in Replies : /\ answer = [status |-> outcome[c].status, plan |-> plan[c]]
                                  /\ answer.status = outcome[c].status /\ answer.plan = plan[c]
    <3>1. PICK o \in Outcomes : o = outcome[c]
      BY <1>2
    <3>2. o.status \in Statuses
      BY DEF Outcomes
    <3>3. [status |-> o.status, plan |-> plan[c]] \in Replies
      BY <1>2, <3>2 DEF Replies
    <3>4. QED BY <3>1, <3>3
  <2>2. ClientShape' /\ Others(c) /\ Working(c)' /\ reply'[c] = answer
    BY <1>1, <1>5, <2>1, AnswerEnds
  <2>3. /\ records' \in [Plans -> Outcomes \union {None}] /\ records'[plan[c]] = outcome[c]
        /\ \A p \in Plans \ {plan[c]} : records'[p] = records[p]
    BY <1>1, <1>2, <1>5 DEF StoredShape
  <2>4. Kept /\ StoredShape'
    BY <1>1, <1>3, <1>5, <2>3 DEF PublishInv, PullsAuthorized, Kept, Grown, StoredShape
  <2>5. Answered(c)'
    BY <1>2, <2>1, <2>2, <2>3 DEF Answered
  <2>6. \A p \in Plans : records'[p] # None => records[p] # None \/ Refers(records'[p], p, pulls')
    BY <1>2, <1>3, <2>3
  <2>7. QED BY <2>2, <2>4, <2>5, <2>6, Acts DEF Shape
<1>6. QED BY <1>4, <1>5 DEF SaveInsert

-----------------------------------------------------------------------------
LEMMA PublishStep ==
  ASSUME PublishInv, [Next]_vars
  PROVE  PublishInv'
<1>1. CASE Remediate \/ Measure \/ Close
  BY <1>1, RemediateInv, MeasureInv, CloseInv
<1>2. ASSUME NEW c \in Clients,
             Begin(c) \/ ReadRun(c) \/ ReadReport(c) \/ Call(c) \/ SaveInsert(c) \/ Crash(c)
      PROVE  PublishInv'
  BY <1>2, BeginInv, ReadRunInv, ReadReportInv, CallInv, SaveInsertInv, CrashInv
<1>3. ASSUME NEW c \in Clients, LookUp(c) PROVE PublishInv'
  BY <1>3, LookInv DEF LookUp
<1>4. ASSUME NEW c \in Clients, SaveRead(c) PROVE PublishInv'
  BY <1>4, LookInv DEF SaveRead
<1>5. CASE UNCHANGED vars
  <2>1. Kept /\ Shape'
    BY <1>5, NothingStored DEF vars, client, PublishInv, Shape, ClientShape
  <2>2. QED BY <1>5, <2>1, Around DEF vars, stored
<1>6. QED BY <1>1, <1>2, <1>3, <1>4, <1>5 DEF Next

LEMMA PublishInvariant == Spec => []PublishInv
BY StartInv, PublishStep, PTL DEF Spec

\* Records, and what a client keeps between its sessions, have their types.
THEOREM TypeCorrect == Spec => []TypeOK
<1>1. ASSUME PublishInv PROVE TypeOK
  <2>1. ASSUME NEW p \in Plans, records[p] # None
        PROVE  /\ records[p].status \in Statuses
               /\ records[p].reference # None <=> records[p].status = "published"
    <3>1. records[p] \in Outcomes /\ Refers(records[p], p, pulls)
      BY <1>1, <2>1 DEF PublishInv, Shape, StoredShape
    <3>2. QED BY <3>1 DEF Outcomes, Refers
  <2>2. QED BY <1>1, <2>1 DEF PublishInv, Shape, StoredShape, TypeOK, Working, Making, Snapshots
<1>2. QED BY <1>1, PublishInvariant, PTL

\* Whatever clients read before executors moved the run on, or back, and act on
\* after, and however calls of GitHub fail: a pull request exists only for a run
\* whose stored snapshot once said verified with an open_pr decision.
THEOREM PullsCorrect == Spec => []PullsAuthorized
<1>1. PublishInv => PullsAuthorized
  BY DEF PublishInv
<1>2. QED BY <1>1, PublishInvariant, PTL

\* Every accepted request is answered with what is on record for its plan, by
\* however many clients it is repeated or interrupted.
THEOREM AnswersCorrect == Spec => []AnswersRecorded
<1>1. PublishInv => AnswersRecorded
  BY DEF PublishInv, AnswersRecorded, Answered
<1>2. QED BY <1>1, PublishInvariant, PTL

\* A record that says published names a pull request opened for its own plan.
THEOREM PublishedCorrect == Spec => []PublishedNamesItsPull
<1>1. PublishInv => PublishedNamesItsPull
  BY DEF PublishInv, PublishedNamesItsPull, Refers
<1>2. QED BY <1>1, PublishInvariant, PTL
=============================================================================
