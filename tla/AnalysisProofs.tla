--------------------------- MODULE AnalysisProofs ---------------------------
(***************************************************************************)
(* Proofs about AnalysisRun for any number of clients, requests, workloads *)
(* and edits, under all faults.                                            *)
(***************************************************************************)
EXTENDS AnalysisRun, TLAPS

Before == {"inspect", "forecast", "prediction", "register", "insert"}
Base   == {"baseline", "record_baseline", "observe_baseline", "judge_baseline"}
Cand   == {"candidate", "record_candidate", "observe_candidate", "judge_candidate"}
Stages == Before \union Base \union Cand \union {"decide"}
Labels == {"idle", "create", "start", "finish"} \union Stages

Statuses == {"absent", "queued", "running"} \union Terminal
Rows == [forecast : BOOLEAN, prediction : BOOLEAN, context : BOOLEAN, decision : BOOLEAN,
         baseline : Verdicts \union {None}, candidate : Verdicts \union {None},
         observed : SUBSET {"baseline", "candidate"}]

Shape ==
  /\ status \in [Keys -> Statuses] /\ rows \in [Keys -> Rows]
  /\ pc \in [Clients -> Labels] /\ key \in [Clients -> Keys \union {None}]
  /\ measured \in [Clients -> Verdicts \union {None}]
  /\ ending \in [Clients -> Terminal \union {None}]
  /\ reply \in [Clients -> [key : Keys \union {None}, status : Statuses \union {"error", "none"}]]
  /\ \A c \in Clients : pc[c] # "idle" => key[c] \in Keys

\* What is recorded for the run of a client when it reaches a stage.
Compared(r) == r.baseline = "passed" /\ r.candidate # "inconclusive"
Progress(c) ==
  LET r == rows[key[c]] s == status[key[c]] IN
  /\ pc[c] = "start" => s = "queued"
  /\ pc[c] \in Stages => s = "running" /\ ~r.decision
  /\ pc[c] \in Before => r.baseline = None
  /\ pc[c] \in Base \union Cand \union {"decide"} => r.context
  /\ pc[c] \in {"record_baseline", "observe_baseline", "judge_baseline", "record_candidate",
                "observe_candidate", "judge_candidate", "decide"} => measured[c] \in Verdicts
  /\ pc[c] \in {"observe_baseline", "judge_baseline"} => r.baseline = measured[c]
  /\ pc[c] \in Cand \union {"decide"} => r.baseline = "passed"
  /\ pc[c] \in {"observe_candidate", "judge_candidate", "decide"} => r.candidate = measured[c]
  /\ pc[c] = "decide" => measured[c] # "inconclusive"
  /\ pc[c] = "finish" =>
       /\ ending[c] \in Terminal
       /\ s = "running" \/ (s \in Terminal /\ ending[c] = "failed")
       /\ ending[c] = "succeeded" =>
            r.context /\ r.decision /\ r.baseline = "passed" /\ r.candidate \in {"passed", "failed"}
       /\ ending[c] = "inconclusive" =>
            r.context /\ ~r.decision /\ (r.baseline # "passed" \/ r.candidate = "inconclusive")

\* StatusMatchesEvidence of one run, and nothing is recorded before it runs.
Evidence(k) ==
  LET r == rows[k] IN
  /\ status[k] = "succeeded" =>
       r.context /\ r.decision /\ r.baseline = "passed" /\ r.candidate \in {"passed", "failed"}
  /\ status[k] = "inconclusive" =>
       r.context /\ ~r.decision /\ (r.baseline # "passed" \/ r.candidate = "inconclusive")
  /\ status[k] \in {"absent", "queued"} => r = NoRows

\* A terminal answer is the status of its run.
Final(c) == reply[c].status \in Terminal =>
              reply[c].key \in Keys /\ status[reply[c].key] = reply[c].status

RunInv ==
  /\ Shape /\ OneDriver
  /\ \A c \in Clients : Progress(c) /\ Final(c)
  /\ \A k \in Keys : Evidence(k)

-----------------------------------------------------------------------------
(***************************************************************************)
(* What a step of one client leaves to the others.                         *)
(***************************************************************************)
Others(c) ==
  \A d \in Clients \ {c} : /\ pc'[d] = pc[d] /\ key'[d] = key[d] /\ reply'[d] = reply[d]
                           /\ measured'[d] = measured[d] /\ ending'[d] = ending[d]

LEMMA ExistsIfDriven ==
  ASSUME RunInv, NEW d \in Clients, Driving(d)
  PROVE  status[key[d]] # "absent"
<1>1. pc[d] \in Stages \union {"start", "finish"}
  BY DEF RunInv, Shape, Driving, Labels
<1>2. QED BY <1>1 DEF RunInv, Progress, Terminal

\* The run of a driver is its own: a step that only touches it disturbs nobody.
LEMMA DriverStep ==
  ASSUME RunInv, NEW c \in Clients, NEW k \in Keys, key[c] = k, Shape', Others(c),
         Driving(c) \/ (status[k] = "absent" /\ ~Driving(c)) \/ (UNCHANGED <<status, rows>>),
         Driving(c)' => key'[c] = k /\ (Driving(c) \/ status[k] = "absent"),
         \A j \in Keys \ {k} : status'[j] = status[j] /\ rows'[j] = rows[j],
         status[k] \in Terminal => status'[k] = status[k],
         Progress(c)', Final(c)', Evidence(k)'
  PROVE  RunInv'
<1> USE DEF RunInv
<1>1. ASSUME NEW d \in Clients \ {c}, Driving(d)
      PROVE  key[d] \in Keys /\ status'[key[d]] = status[key[d]] /\ rows'[key[d]] = rows[key[d]]
  <2>1. key[d] \in Keys
    BY <1>1 DEF Shape, Driving
  <2>2. CASE Driving(c)
    BY <1>1, <2>1, <2>2 DEF OneDriver
  <2>3. status[key[d]] # "absent"
    BY <1>1, ExistsIfDriven
  <2>4. QED BY <2>1, <2>2, <2>3
<1>2. OneDriver'
  <2>1. SUFFICES ASSUME NEW d \in Clients, NEW e \in Clients, d # e,
                        Driving(d)', Driving(e)', key'[d] = key'[e]
                 PROVE  FALSE
    BY DEF OneDriver
  <2>2. CASE d # c /\ e # c
    BY <2>1, <2>2 DEF OneDriver, Others, Driving
  <2>3. ASSUME NEW f \in Clients \ {c}, Driving(f)', key'[f] = k, Driving(c)' PROVE FALSE
    <3>1. Driving(f) /\ key[f] = k
      BY <2>3 DEF Others, Driving
    <3>2. ~Driving(c)
      BY <3>1 DEF OneDriver
    <3>3. status[k] = "absent"
      BY <2>3, <3>2
    <3>4. status[k] # "absent"
      BY <3>1, ExistsIfDriven
    <3>5. QED BY <3>3, <3>4
  <2>4. QED BY <2>1, <2>2, <2>3
<1>3. ASSUME NEW d \in Clients PROVE Progress(d)' /\ Final(d)'
  <2>1. CASE d = c
    BY <2>1
  <2>2. CASE d # c
    <3>1. Final(d)'
      BY <2>2 DEF Final, Others, Shape
    <3>2. CASE Driving(d)
      <4>1. key[d] \in Keys /\ status'[key[d]] = status[key[d]] /\ rows'[key[d]] = rows[key[d]]
        BY <1>1, <2>2, <3>2
      <4>2. QED BY <2>2, <3>1, <4>1 DEF Progress, Others
    <3>3. CASE ~Driving(d)
      BY <2>2, <3>1, <3>3 DEF Progress, Others, Driving, Stages, Before, Base, Cand
    <3>4. QED BY <3>2, <3>3
  <2>3. QED BY <2>1, <2>2
<1>4. ASSUME NEW j \in Keys PROVE Evidence(j)'
  BY DEF Evidence
<1>5. QED BY <1>2, <1>3, <1>4

\* A stage: the run goes on and only its rows may change.
LEMMA StageStep ==
  ASSUME RunInv, NEW c \in Clients, pc[c] \in Stages \union {"finish"}, status[key[c]] = "running",
         pc'[c] \in Stages \union {"finish"}, UNCHANGED <<key, reply, status>>,
         Shape', Others(c), \A j \in Keys \ {key[c]} : rows'[j] = rows[j], Progress(c)'
  PROVE  RunInv'
<1> USE DEF RunInv
<1>1. PICK k \in Keys : k = key[c]
  BY DEF Shape, Stages, Before, Base, Cand
<1>2. Driving(c)
  BY DEF Driving, Stages, Before, Base, Cand
<1>3. Final(c)' /\ Evidence(k)'
  BY <1>1 DEF Final, Evidence
<1>4. QED BY <1>1, <1>2, <1>3, DriverStep

\* A client that answers: what it says of a run that ended is true.
LEMMA AnswerStep ==
  ASSUME RunInv, NEW c \in Clients, pc[c] # "idle",
         NEW a \in Statuses \union {"error", "none"}, Answer(c, a), UNCHANGED rows,
         status' = status \/ (/\ pc[c] = "finish" /\ status[key[c]] = "running"
                              /\ status' = [status EXCEPT ![key[c]] = ending[c]]),
         a \in Terminal => status'[key[c]] = a
  PROVE  RunInv'
<1> USE DEF RunInv
<1>1. PICK k \in Keys : k = key[c]
  BY DEF Shape
<1>2. ending[c] \in Terminal \/ status' = status
  BY DEF Progress
<1>3. status' \in [Keys -> Statuses] /\ pc' = [pc EXCEPT ![c] = "idle"]
  BY <1>1, <1>2 DEF Shape, Statuses, Answer, Goto
<1>4. Shape'
  BY <1>1, <1>3 DEF Shape, Answer, Labels
<1>5. Others(c)
  BY <1>3 DEF Others, Answer, Shape
<1>6. pc'[c] = "idle" /\ ~Driving(c)' /\ Progress(c)'
  BY <1>3 DEF Shape, Driving, Progress, Stages, Before, Base, Cand
<1>7. Final(c)'
  BY <1>1 DEF Final, Answer, Shape
<1>8. Evidence(k)'
  BY <1>1, <1>2 DEF Evidence, Progress, Shape, Terminal
<1>9. Driving(c) \/ UNCHANGED <<status, rows>>
  BY DEF Driving
<1>10. \A j \in Keys \ {k} : status'[j] = status[j] /\ rows'[j] = rows[j]
  BY <1>1 DEF Shape
<1>11. status[k] \in Terminal => status'[k] = status[k]
  BY <1>1 DEF Terminal, Shape
<1>12. QED BY <1>1, <1>4, <1>5, <1>6, <1>7, <1>8, <1>9, <1>10, <1>11, DriverStep

\* A client that goes to the end of its run.
LEMMA EndStep ==
  ASSUME RunInv, NEW c \in Clients, pc[c] \in Stages \union {"finish"}, status[key[c]] = "running",
         NEW with \in Terminal, End(c, with), UNCHANGED status, rows' \in [Keys -> Rows],
         \A j \in Keys \ {key[c]} : rows'[j] = rows[j],
         LET r == rows'[key[c]] IN
           /\ with = "succeeded" =>
                r.context /\ r.decision /\ r.baseline = "passed" /\ r.candidate \in {"passed", "failed"}
           /\ with = "inconclusive" =>
                r.context /\ ~r.decision /\ (r.baseline # "passed" \/ r.candidate = "inconclusive")
  PROVE  RunInv'
<1> USE DEF RunInv
<1>1. /\ pc' = [pc EXCEPT ![c] = "finish"] /\ ending' = [ending EXCEPT ![c] = with]
      /\ UNCHANGED <<key, measured, reply>>
  BY DEF End, Goto
<1>2. Shape'
  BY <1>1 DEF Shape, Labels, Stages, Before, Base, Cand
<1>3. Others(c)
  BY <1>1 DEF Others, Shape
<1>4. pc'[c] = "finish" /\ ending'[c] = with
  BY <1>1 DEF Shape
<1>5. Progress(c)'
  BY <1>1, <1>4 DEF Progress, Stages, Before, Base, Cand
<1>6. QED BY <1>1, <1>2, <1>3, <1>4, <1>5, StageStep

-----------------------------------------------------------------------------
(***************************************************************************)
(* The actions.                                                            *)
(***************************************************************************)
LEMMA RunInit == Init => RunInv
<1> SUFFICES ASSUME Init PROVE RunInv
  OBVIOUS
<1>1. NoRows \in Rows
  BY DEF NoRows, Rows
<1>2. Shape
  BY <1>1 DEF Init, Shape, Statuses, Labels
<1>3. OneDriver /\ \A c \in Clients : Progress(c) /\ Final(c)
  BY DEF Init, OneDriver, Driving, Progress, Final, Stages, Before, Base, Cand, Terminal
<1>4. \A k \in Keys : Evidence(k)
  BY DEF Init, Evidence
<1>5. QED BY <1>2, <1>3, <1>4 DEF RunInv

LEMMA StepBegin ==
  ASSUME RunInv, NEW c \in Clients, Begin(c)
  PROVE  RunInv'
<1> USE DEF RunInv
<1>1. PICK k \in Keys : key' = [key EXCEPT ![c] = k]
  BY DEF Begin
<1>2. /\ pc[c] = "idle" /\ pc' = [pc EXCEPT ![c] = "create"]
      /\ UNCHANGED <<status, rows, measured, ending, reply>>
  BY DEF Begin, Goto, stored
<1>3. Shape'
  BY <1>1, <1>2 DEF Shape, Labels
<1>4. \A d \in Clients : Driving(d)' => Driving(d) /\ key'[d] = key[d] /\ pc'[d] = pc[d]
  BY <1>1, <1>2 DEF Driving, Shape
<1>5. OneDriver'
  BY <1>4 DEF OneDriver
<1>6. ASSUME NEW d \in Clients PROVE Progress(d)' /\ Final(d)'
  <2>1. Final(d)'
    BY <1>2 DEF Final
  <2>2. CASE Driving(d)'
    BY <1>2, <1>4, <2>1, <2>2 DEF Progress
  <2>3. CASE ~Driving(d)'
    BY <2>1, <2>3 DEF Progress, Driving, Stages, Before, Base, Cand
  <2>4. QED BY <2>2, <2>3
<1>7. \A k2 \in Keys : Evidence(k2)'
  BY <1>2 DEF Evidence
<1>8. QED BY <1>3, <1>5, <1>6, <1>7

LEMMA StepCreate ==
  ASSUME RunInv, NEW c \in Clients, Create(c)
  PROVE  RunInv'
<1> USE DEF RunInv
<1>1. pc[c] = "create" /\ UNCHANGED rows
  BY DEF Create
<1>2. PICK k \in Keys : k = key[c]
  BY <1>1 DEF Shape
<1>3. CASE status[k] = "absent" /\ status' = [status EXCEPT ![k] = "queued"] /\ Onward(c, "start")
  <2>1. pc' = [pc EXCEPT ![c] = "start"] /\ UNCHANGED <<key, measured, ending, reply>>
    BY <1>3 DEF Onward, Goto
  <2>2. Shape'
    BY <1>1, <1>3, <2>1 DEF Shape, Statuses, Labels
  <2>3. Others(c) /\ pc'[c] = "start" /\ status'[k] = "queued" /\ ~Driving(c)
    BY <1>1, <1>3, <2>1 DEF Others, Shape, Driving
  <2>4. Progress(c)'
    BY <1>2, <2>1, <2>3 DEF Progress, Stages, Before, Base, Cand
  <2>5. Final(c)' /\ Evidence(k)'
    BY <1>1, <1>3, <2>1, <2>3 DEF Final, Evidence, Shape, Terminal
  <2>6. \A j \in Keys \ {k} : status'[j] = status[j] /\ rows'[j] = rows[j]
    BY <1>1, <1>3 DEF Shape
  <2>7. status[k] \notin Terminal
    BY <1>3 DEF Terminal
  <2>8. QED BY <1>2, <1>3, <2>1, <2>2, <2>3, <2>4, <2>5, <2>6, <2>7, DriverStep
<1>4. CASE status[k] # "absent" /\ Answer(c, Reused(status[k])) /\ UNCHANGED status
  <2>1. PICK a : a = Reused(status[k])
    OBVIOUS
  <2>2. a \in Statuses /\ (a \in Terminal => status[k] = a)
    BY <2>1 DEF Reused, Shape, Statuses, Terminal
  <2>3. QED BY <1>1, <1>2, <1>4, <2>1, <2>2, AnswerStep
<1>5. QED BY <1>2, <1>3, <1>4 DEF Create

LEMMA StepStart ==
  ASSUME RunInv, NEW c \in Clients, Start(c)
  PROVE  RunInv'
<1> USE DEF RunInv
<1>1. /\ pc[c] = "start" /\ status[key[c]] = "queued" /\ pc' = [pc EXCEPT ![c] = "inspect"]
      /\ status' = [status EXCEPT ![key[c]] = "running"]
      /\ UNCHANGED <<rows, key, measured, ending, reply>>
  BY DEF Start, Onward, Goto
<1>2. PICK k \in Keys : k = key[c]
  BY <1>1 DEF Shape
<1>3. Shape'
  BY <1>1, <1>2 DEF Shape, Statuses, Labels, Stages, Before
<1>4. Others(c) /\ pc'[c] = "inspect" /\ status'[k] = "running" /\ Driving(c)
  BY <1>1, <1>2 DEF Others, Shape, Driving
<1>5. rows[k] = NoRows
  BY <1>1, <1>2 DEF Evidence
<1>6. Progress(c)'
  BY <1>1, <1>2, <1>4, <1>5 DEF Progress, NoRows, Stages, Before, Base, Cand
<1>7. Final(c)' /\ Evidence(k)'
  BY <1>1, <1>2, <1>4 DEF Final, Evidence, Shape, Terminal
<1>8. \A j \in Keys \ {k} : status'[j] = status[j] /\ rows'[j] = rows[j]
  BY <1>1, <1>2 DEF Shape
<1>9. status[k] \notin Terminal
  BY <1>1, <1>2 DEF Terminal
<1>10. QED BY <1>1, <1>2, <1>3, <1>4, <1>6, <1>7, <1>8, <1>9, DriverStep

\* Whoever is in a stage has a run that is running.
LEMMA InStage ==
  ASSUME RunInv, NEW c \in Clients, pc[c] \in Stages
  PROVE  pc[c] # "idle" /\ pc[c] # "finish" /\ key[c] \in Keys /\ Row(c) \in Rows /\ status[key[c]] = "running"
<1>1. pc[c] # "idle" /\ pc[c] # "finish"
  BY DEF Stages, Before, Base, Cand
<1>2. QED BY <1>1 DEF RunInv, Shape, Progress, Row

\* The stages that leave the rows alone and go on.
LEMMA MoveStep ==
  ASSUME RunInv, NEW c \in Clients, pc[c] \in Stages, NEW label \in Stages, Goto(c, label),
         UNCHANGED <<status, rows, key, ending, reply>>,
         measured' \in [Clients -> Verdicts \union {None}],
         \A d \in Clients \ {c} : measured'[d] = measured[d],
         Progress(c)'
  PROVE  RunInv'
<1> USE DEF RunInv
<1>1. pc' = [pc EXCEPT ![c] = label] /\ label \in Labels
  BY DEF Goto, Labels
<1>2. key[c] \in Keys /\ status[key[c]] = "running"
  BY InStage
<1>3. pc' \in [Clients -> Labels] /\ pc'[c] = label /\ \A d \in Clients \ {c} : pc'[d] = pc[d]
  BY <1>1 DEF Shape
<1>4. Shape'
  BY <1>2, <1>3 DEF Shape
<1>5. Others(c)
  BY <1>3 DEF Others
<1>6. QED BY <1>2, <1>3, <1>4, <1>5, StageStep

\* The stages that record something for the run and go on.
LEMMA RecordStep ==
  ASSUME RunInv, NEW c \in Clients, pc[c] \in Stages, NEW label \in Stages, Onward(c, label),
         NEW r \in Rows, Record(c, r), Progress(c)'
  PROVE  RunInv'
<1> USE DEF RunInv
<1>1. /\ pc' = [pc EXCEPT ![c] = label] /\ rows' = [rows EXCEPT ![key[c]] = r]
      /\ UNCHANGED <<status, key, measured, ending, reply>> /\ label \in Labels
  BY DEF Onward, Goto, Record, Labels
<1>2. key[c] \in Keys /\ status[key[c]] = "running"
  BY InStage
<1>3. pc' \in [Clients -> Labels] /\ pc'[c] = label /\ \A d \in Clients \ {c} : pc'[d] = pc[d]
  BY <1>1 DEF Shape
<1>4. rows' \in [Keys -> Rows] /\ \A j \in Keys \ {key[c]} : rows'[j] = rows[j]
  BY <1>1, <1>2 DEF Shape
<1>5. Shape'
  BY <1>1, <1>2, <1>3, <1>4 DEF Shape
<1>6. Others(c)
  BY <1>1, <1>3 DEF Others
<1>7. QED BY <1>1, <1>2, <1>3, <1>4, <1>5, <1>6, StageStep

LEMMA StepInspect ==
  ASSUME RunInv, NEW c \in Clients, Inspect(c)
  PROVE  RunInv'
<1>1. PICK label \in {"forecast", "register"} : Goto(c, label)
  BY DEF Inspect
<1>2. pc[c] = "inspect" /\ pc[c] \in Stages /\ label \in Stages /\ label \in Before
  BY DEF Inspect, Stages, Before
<1>3. UNCHANGED <<status, rows, key, measured, ending, reply>>
  BY DEF Inspect, stored
<1>4. pc'[c] = label
  BY <1>1 DEF Goto, RunInv, Shape
<1>5. Progress(c)'
  BY <1>2, <1>3, <1>4 DEF RunInv, Progress, Before, Base, Cand, Stages
<1>6. measured' \in [Clients -> Verdicts \union {None}]
  BY <1>3 DEF RunInv, Shape
<1>7. QED BY <1>1, <1>2, <1>3, <1>5, <1>6, MoveStep

LEMMA StepPredict ==
  ASSUME RunInv, NEW c \in Clients, Forecast(c) \/ Prediction(c)
  PROVE  RunInv'
<1>1. PICK label \in {"prediction", "register"} :
        /\ Onward(c, label) /\ pc[c] \in {"forecast", "prediction"}
        /\ \/ Record(c, [Row(c) EXCEPT !.forecast = TRUE])
           \/ Record(c, [Row(c) EXCEPT !.prediction = TRUE])
  BY DEF Forecast, Prediction
<1>2. pc[c] \in Stages /\ label \in Stages /\ label \in Before /\ pc[c] \in Before
  BY <1>1 DEF Stages, Before
<1>3. key[c] \in Keys /\ Row(c) \in Rows /\ status[key[c]] = "running"
  BY <1>2, InStage
<1>a. PICK r : /\ r = [Row(c) EXCEPT !.forecast = TRUE] \/ r = [Row(c) EXCEPT !.prediction = TRUE]
               /\ Record(c, r)
  BY <1>1
<1>4. r \in Rows /\ r.baseline = Row(c).baseline /\ r.decision = Row(c).decision
  BY <1>a, <1>3 DEF Rows
<1>5. pc'[c] = label /\ rows'[key[c]] = r /\ UNCHANGED <<status, key>>
  BY <1>1, <1>3, <1>a DEF Onward, Goto, Record, RunInv, Shape
<1>6. r.baseline = None /\ ~r.decision
  BY <1>2, <1>4 DEF RunInv, Progress, Row
<1>7. Progress(c)'
  BY <1>1, <1>3, <1>5, <1>6 DEF Progress, Before, Base, Cand, Stages
<1>8. QED BY <1>1, <1>2, <1>a, <1>4, <1>7, RecordStep

LEMMA StepRegister ==
  ASSUME RunInv, NEW c \in Clients, Register(c)
  PROVE  RunInv'
<1>1. pc[c] = "register" /\ UNCHANGED <<status, rows, key, measured, reply>>
  BY DEF Register, stored
<1>2. pc[c] \in Stages
  BY <1>1 DEF Stages, Before
<1>3. key[c] \in Keys /\ status[key[c]] = "running"
  BY <1>2, InStage
<1>4. CASE \E label \in {"insert", "register"} : pc' = [pc EXCEPT ![c] = label] /\ UNCHANGED ending
  <2>1. PICK label \in {"insert", "register"} : pc' = [pc EXCEPT ![c] = label]
    BY <1>4
  <2>2. label \in Stages /\ pc'[c] = label /\ Goto(c, label)
    BY <2>1 DEF Stages, Before, Goto, RunInv, Shape
  <2>3. Progress(c)'
    BY <1>1, <2>1, <2>2 DEF RunInv, Progress, Before, Base, Cand, Stages
  <2>4. measured' \in [Clients -> Verdicts \union {None}]
    BY <1>1 DEF RunInv, Shape
  <2>5. QED BY <1>1, <1>2, <1>4, <2>2, <2>3, <2>4, MoveStep
<1>5. CASE ending' = [ending EXCEPT ![c] = "failed"] /\ pc' = [pc EXCEPT ![c] = "finish"]
  <2>1. pc' \in [Clients -> Labels] /\ ending' \in [Clients -> Terminal \union {None}]
        /\ pc'[c] = "finish" /\ ending'[c] = "failed"
    BY <1>5 DEF RunInv, Shape, Labels, Terminal
  <2>2. Shape'
    BY <1>1, <1>3, <1>5, <2>1 DEF RunInv, Shape
  <2>3. Others(c)
    BY <1>1, <1>5 DEF Others, RunInv, Shape
  <2>4. Progress(c)'
    BY <1>1, <1>3, <2>1 DEF Progress, Stages, Before, Base, Cand, Terminal
  <2>5. QED BY <1>1, <1>2, <1>3, <2>1, <2>2, <2>3, <2>4, StageStep
<1>6. UNCHANGED pc => pc' = [pc EXCEPT ![c] = "register"]
  BY <1>1 DEF RunInv, Shape
<1>7. QED BY <1>4, <1>5, <1>6 DEF Register, Goto

LEMMA StepInsert ==
  ASSUME RunInv, NEW c \in Clients, Insert(c)
  PROVE  RunInv'
<1>1. pc[c] = "insert" /\ UNCHANGED <<status, rows>>
  BY DEF Insert
<1>2. pc[c] \in Stages
  BY <1>1 DEF Stages, Before
<1>3. key[c] \in Keys /\ status[key[c]] = "running"
  BY <1>2, InStage
<1>4. CASE Goto(c, "register") /\ UNCHANGED <<key, measured, ending, reply>>
  <2>1. pc'[c] = "register" /\ "register" \in Stages
    BY <1>4 DEF Goto, RunInv, Shape, Stages, Before
  <2>2. Progress(c)'
    BY <1>1, <1>4, <2>1 DEF RunInv, Progress, Before, Base, Cand, Stages
  <2>3. measured' \in [Clients -> Verdicts \union {None}]
    BY <1>4 DEF RunInv, Shape
  <2>4. QED BY <1>1, <1>2, <1>4, <2>1, <2>2, <2>3, MoveStep
<1>5. CASE End(c, "failed")
  <2>1. rows' \in [Keys -> Rows]
    BY <1>1 DEF RunInv, Shape
  <2>2. "failed" \in Terminal
    BY DEF Terminal
  <2>3. QED BY <1>1, <1>2, <1>3, <1>5, <2>1, <2>2, EndStep
<1>6. QED BY <1>4, <1>5 DEF Insert

LEMMA StepContext ==
  ASSUME RunInv, NEW c \in Clients, Context(c)
  PROVE  RunInv'
<1>1. PICK r : r = [Row(c) EXCEPT !.context = TRUE] /\ Record(c, r)
  BY DEF Context
<1>2. pc[c] = "register" /\ pc[c] \in Stages
  BY DEF Context, Stages, Before
<1>3. key[c] \in Keys /\ Row(c) \in Rows /\ status[key[c]] = "running"
  BY <1>2, InStage
<1>4. r \in Rows /\ r.context /\ r.baseline = Row(c).baseline /\ r.decision = Row(c).decision
  BY <1>1, <1>3 DEF Rows
<1>5. r.baseline = None /\ ~r.decision
  BY <1>2, <1>4 DEF RunInv, Progress, Row, Before
<1>6. rows'[key[c]] = r /\ rows' \in [Keys -> Rows] /\ UNCHANGED status
      /\ \A j \in Keys \ {key[c]} : rows'[j] = rows[j]
  BY <1>1, <1>3, <1>4 DEF Record, RunInv, Shape
<1>7. CASE Onward(c, "baseline")
  <2>1. pc'[c] = "baseline" /\ UNCHANGED key /\ "baseline" \in Stages
    BY <1>7 DEF Onward, Goto, RunInv, Shape, Stages, Base
  <2>2. Progress(c)'
    BY <1>3, <1>4, <1>5, <1>6, <2>1 DEF Progress, Before, Base, Cand, Stages
  <2>3. QED BY <1>1, <1>2, <1>4, <1>7, <2>1, <2>2, RecordStep
<1>8. CASE End(c, "inconclusive")
  <2>1. "inconclusive" \in Terminal /\ None # "passed"
    BY AnalysisAssumption DEF Terminal
  <2>2. QED BY <1>2, <1>3, <1>4, <1>5, <1>6, <1>8, <2>1, EndStep
<1>9. QED BY <1>7, <1>8 DEF Context

LEMMA StepMeasure ==
  ASSUME RunInv, NEW c \in Clients, Measure(c)
  PROVE  RunInv'
<1>1. PICK v \in Verdicts : measured' = [measured EXCEPT ![c] = v]
  BY DEF Measure
<1>2. /\ pc[c] \in {"baseline", "candidate"} /\ UNCHANGED <<status, rows, key, ending, reply>>
      /\ \/ pc[c] = "baseline" /\ Goto(c, "record_baseline")
         \/ pc[c] = "candidate" /\ Goto(c, "record_candidate")
  BY DEF Measure, stored
<1>3. pc[c] \in Stages /\ "record_baseline" \in Stages /\ "record_candidate" \in Stages
  BY <1>2 DEF Stages, Base, Cand
<1>4. /\ measured' \in [Clients -> Verdicts \union {None}] /\ measured'[c] \in Verdicts
      /\ \A d \in Clients \ {c} : measured'[d] = measured[d]
  BY <1>1 DEF RunInv, Shape
<1>5. \/ pc[c] = "baseline" /\ pc'[c] = "record_baseline"
      \/ pc[c] = "candidate" /\ pc'[c] = "record_candidate"
  BY <1>2 DEF Goto, RunInv, Shape
<1>6. Progress(c)'
  BY <1>2, <1>4, <1>5 DEF RunInv, Progress, Before, Base, Cand, Stages
<1>7. QED BY <1>2, <1>3, <1>4, <1>6, MoveStep

LEMMA StepRecordBaseline ==
  ASSUME RunInv, NEW c \in Clients, RecordBaseline(c)
  PROVE  RunInv'
<1>1. PICK r : r = [Row(c) EXCEPT !.baseline = measured[c]] /\ Record(c, r)
  BY DEF RecordBaseline
<1>2. pc[c] = "record_baseline" /\ pc[c] \in Stages /\ Onward(c, "observe_baseline")
      /\ "observe_baseline" \in Stages
  BY DEF RecordBaseline, Stages, Base
<1>3. key[c] \in Keys /\ Row(c) \in Rows /\ status[key[c]] = "running"
  BY <1>2, InStage
<1>4. measured[c] \in Verdicts /\ Row(c).context /\ ~Row(c).decision
  BY <1>2 DEF RunInv, Progress, Row, Base
<1>5. r \in Rows /\ r.context /\ ~r.decision /\ r.baseline = measured[c]
  BY <1>1, <1>3, <1>4 DEF Rows
<1>6. pc'[c] = "observe_baseline" /\ rows'[key[c]] = r /\ UNCHANGED <<status, key, measured>>
  BY <1>1, <1>2, <1>3 DEF Onward, Goto, Record, RunInv, Shape
<1>7. Progress(c)'
  BY <1>3, <1>4, <1>5, <1>6 DEF Progress, Before, Base, Cand, Stages
<1>8. QED BY <1>1, <1>2, <1>5, <1>7, RecordStep

LEMMA StepRecordCandidate ==
  ASSUME RunInv, NEW c \in Clients, RecordCandidate(c)
  PROVE  RunInv'
<1>1. PICK r : r = [Row(c) EXCEPT !.candidate = measured[c]] /\ Record(c, r)
  BY DEF RecordCandidate
<1>2. pc[c] = "record_candidate" /\ pc[c] \in Stages /\ Onward(c, "observe_candidate")
      /\ "observe_candidate" \in Stages
  BY DEF RecordCandidate, Stages, Cand
<1>3. key[c] \in Keys /\ Row(c) \in Rows /\ status[key[c]] = "running"
  BY <1>2, InStage
<1>4. measured[c] \in Verdicts /\ Row(c).context /\ ~Row(c).decision /\ Row(c).baseline = "passed"
  BY <1>2 DEF RunInv, Progress, Row, Cand
<1>5. r \in Rows /\ r.context /\ ~r.decision /\ r.baseline = "passed" /\ r.candidate = measured[c]
  BY <1>1, <1>3, <1>4 DEF Rows
<1>6. pc'[c] = "observe_candidate" /\ rows'[key[c]] = r /\ UNCHANGED <<status, key, measured>>
  BY <1>1, <1>2, <1>3 DEF Onward, Goto, Record, RunInv, Shape
<1>7. Progress(c)'
  BY <1>3, <1>4, <1>5, <1>6 DEF Progress, Before, Base, Cand, Stages
<1>8. QED BY <1>1, <1>2, <1>5, <1>7, RecordStep

\* Telemetry that is lost is a stage that leaves the rows alone.
LEMMA StepObserve ==
  ASSUME RunInv, NEW c \in Clients, Observe(c)
  PROVE  RunInv'
<1>1. PICK phase \in {"baseline", "candidate"}, label \in {"judge_baseline", "judge_candidate"} :
        /\ Observes(c, phase) /\ Onward(c, label)
        /\ \/ pc[c] = "observe_baseline" /\ label = "judge_baseline"
           \/ pc[c] = "observe_candidate" /\ label = "judge_candidate"
  BY DEF Observe
<1>2. pc[c] \in Stages /\ label \in Stages
  BY <1>1 DEF Stages, Base, Cand
<1>3. key[c] \in Keys /\ Row(c) \in Rows /\ status[key[c]] = "running"
  BY <1>2, InStage
<1>4. pc'[c] = label /\ UNCHANGED <<status, key, measured, ending, reply>>
  <2>1. pc'[c] = label /\ UNCHANGED <<key, measured, ending, reply>>
    BY <1>1 DEF Onward, Goto, RunInv, Shape
  <2>2. QED BY <1>1, <2>1 DEF Observes, Record, stored
<1>5. ASSUME NEW r \in Rows, rows'[key[c]] = r, r.baseline = Row(c).baseline,
             r.candidate = Row(c).candidate, r.context = Row(c).context, r.decision = Row(c).decision
      PROVE  Progress(c)'
  BY <1>1, <1>3, <1>4, <1>5 DEF RunInv, Progress, Row, Before, Base, Cand, Stages
<1>6. CASE Record(c, [Row(c) EXCEPT !.observed = @ \union {phase}])
  <2>1. PICK r : r = [Row(c) EXCEPT !.observed = @ \union {phase}] /\ Record(c, r)
    BY <1>6
  <2>2. /\ r \in Rows /\ r.baseline = Row(c).baseline /\ r.candidate = Row(c).candidate
        /\ r.context = Row(c).context /\ r.decision = Row(c).decision
    BY <1>1, <1>3, <2>1 DEF Rows
  <2>3. rows'[key[c]] = r
    BY <1>3, <2>1 DEF Record, RunInv, Shape
  <2>4. QED BY <1>1, <1>2, <1>5, <2>1, <2>2, <2>3, RecordStep
<1>7. CASE UNCHANGED stored
  <2>1. UNCHANGED rows
    BY <1>7 DEF stored
  <2>2. Progress(c)'
    BY <1>3, <1>5, <2>1 DEF Row
  <2>3. measured' \in [Clients -> Verdicts \union {None}] /\ Goto(c, label)
    BY <1>1, <1>4 DEF RunInv, Shape, Onward
  <2>4. QED BY <1>2, <1>4, <2>1, <2>2, <2>3, MoveStep
<1>8. QED BY <1>1, <1>6, <1>7 DEF Observes

LEMMA StepJudge ==
  ASSUME RunInv, NEW c \in Clients, Judge(c)
  PROVE  RunInv'
<1>1. pc[c] \in {"judge_baseline", "judge_candidate"} /\ UNCHANGED <<status, rows>>
  BY DEF Judge, stored
<1>2. pc[c] \in Stages
  BY <1>1 DEF Stages, Base, Cand
<1>3. key[c] \in Keys /\ Row(c) \in Rows /\ status[key[c]] = "running"
  BY <1>2, InStage
<1>4. measured[c] \in Verdicts /\ Row(c).context /\ ~Row(c).decision
  BY <1>1 DEF RunInv, Progress, Row, Base, Cand, Stages
<1>5. ASSUME NEW label \in {"candidate", "decide"}, Onward(c, label),
             \/ pc[c] = "judge_baseline" /\ label = "candidate" /\ measured[c] = "passed"
             \/ pc[c] = "judge_candidate" /\ label = "decide" /\ measured[c] # "inconclusive"
      PROVE  RunInv'
  <2>1. pc'[c] = label /\ UNCHANGED <<key, measured, ending, reply>> /\ Goto(c, label)
    BY <1>5 DEF Onward, Goto, RunInv, Shape
  <2>2. label \in Stages
    BY DEF Stages, Cand
  <2>3. Progress(c)'
    BY <1>1, <1>3, <1>4, <1>5, <2>1 DEF RunInv, Progress, Row, Before, Base, Cand, Stages
  <2>4. measured' \in [Clients -> Verdicts \union {None}]
    BY <2>1 DEF RunInv, Shape
  <2>5. QED BY <1>1, <1>2, <2>1, <2>2, <2>3, <2>4, MoveStep
<1>6. ASSUME End(c, "inconclusive"),
             \/ pc[c] = "judge_baseline" /\ measured[c] # "passed"
             \/ pc[c] = "judge_candidate" /\ measured[c] = "inconclusive"
      PROVE  RunInv'
  <2>1. Row(c).baseline # "passed" \/ Row(c).candidate = "inconclusive"
    BY <1>6 DEF RunInv, Progress, Row
  <2>2. rows'[key[c]] = Row(c) /\ rows' \in [Keys -> Rows]
    BY <1>1 DEF Row, RunInv, Shape
  <2>3. "inconclusive" \in Terminal
    BY DEF Terminal
  <2>4. QED BY <1>1, <1>2, <1>3, <1>4, <1>6, <2>1, <2>2, <2>3, EndStep
<1>7. QED BY <1>5, <1>6 DEF Judge

LEMMA StepDecide ==
  ASSUME RunInv, NEW c \in Clients, Decide(c)
  PROVE  RunInv'
<1>1. PICK r : r = [Row(c) EXCEPT !.decision = TRUE] /\ Record(c, r)
  BY DEF Decide
<1>2. pc[c] = "decide" /\ pc[c] \in Stages /\ End(c, "succeeded")
  BY DEF Decide, Stages
<1>3. key[c] \in Keys /\ Row(c) \in Rows /\ status[key[c]] = "running"
  BY <1>2, InStage
<1>4. Row(c).context /\ Row(c).baseline = "passed" /\ Row(c).candidate \in {"passed", "failed"}
  BY <1>2 DEF RunInv, Progress, Row, Verdicts
<1>5. r \in Rows /\ r.context /\ r.decision /\ r.baseline = "passed" /\ r.candidate \in {"passed", "failed"}
  BY <1>1, <1>3, <1>4 DEF Rows
<1>6. rows'[key[c]] = r /\ rows' \in [Keys -> Rows] /\ UNCHANGED status
      /\ \A j \in Keys \ {key[c]} : rows'[j] = rows[j]
  BY <1>1, <1>3, <1>5 DEF Record, RunInv, Shape
<1>7. "succeeded" \in Terminal
  BY DEF Terminal
<1>8. QED BY <1>2, <1>3, <1>5, <1>6, <1>7, EndStep

LEMMA StepFinish ==
  ASSUME RunInv, NEW c \in Clients, Finish(c)
  PROVE  RunInv'
<1>1. pc[c] = "finish" /\ UNCHANGED rows
  BY DEF Finish
<1>2. key[c] \in Keys /\ ending[c] \in Terminal
  BY <1>1 DEF RunInv, Shape, Progress
<1>3. ending[c] \in Statuses \union {"error", "none"} /\ "error" \notin Terminal
  BY <1>2 DEF Statuses, Terminal
<1>4. CASE status[key[c]] = "running" /\ status' = [status EXCEPT ![key[c]] = ending[c]]
           /\ Answer(c, ending[c])
  <2>1. status'[key[c]] = ending[c]
    BY <1>2, <1>4 DEF RunInv, Shape
  <2>2. QED BY <1>1, <1>3, <1>4, <2>1, AnswerStep
<1>5. CASE /\ status[key[c]] # "running" /\ UNCHANGED status
           /\ Answer(c, IF status[key[c]] = ending[c] THEN ending[c] ELSE "error")
  <2>1. PICK a : a = IF status[key[c]] = ending[c] THEN ending[c] ELSE "error"
    OBVIOUS
  <2>2. a \in Statuses \union {"error", "none"} /\ (a \in Terminal => status[key[c]] = a)
    BY <1>3, <2>1
  <2>3. QED BY <1>1, <1>5, <2>1, <2>2, AnswerStep
<1>6. QED BY <1>4, <1>5 DEF Finish

LEMMA StepRaises ==
  ASSUME RunInv, NEW c \in Clients, StageRaises(c) \/ StoreRaises(c)
  PROVE  RunInv'
<1>1. UNCHANGED <<status, rows>> /\ rows' \in [Keys -> Rows]
  BY DEF StageRaises, StoreRaises, stored, RunInv, Shape
<1>2. CASE Answer(c, "error") /\ pc[c] # "idle"
  <2>1. "error" \in Statuses \union {"error", "none"} /\ "error" \notin Terminal
    BY DEF Terminal
  <2>2. QED BY <1>1, <1>2, <2>1, AnswerStep
<1>3. CASE End(c, "failed") /\ (pc[c] \in Stages \/ (pc[c] = "finish" /\ ending[c] # "failed"))
  <2>1. pc[c] \in Stages \union {"finish"} /\ "failed" \in Terminal
    BY <1>3 DEF Terminal
  <2>2. status[key[c]] = "running"
    BY <1>3, InStage DEF RunInv, Progress
  <2>3. QED BY <1>1, <1>3, <2>1, <2>2, EndStep
<1>4. pc[c] \in {"inspect", "baseline", "candidate", "decide", "forecast", "prediction", "register",
                 "insert", "record_baseline", "record_candidate"} => pc[c] \in Stages
  BY DEF Stages, Before, Base, Cand
<1>5. QED BY <1>2, <1>3, <1>4 DEF StageRaises, StoreRaises

\* The run has ended, but its client believes that finishing it failed.
LEMMA StepUnacknowledged ==
  ASSUME RunInv, NEW c \in Clients, FinishUnacknowledged(c)
  PROVE  RunInv'
<1> USE DEF RunInv
<1>1. /\ pc[c] = "finish" /\ status[key[c]] = "running" /\ ending[c] # "failed"
      /\ status' = [status EXCEPT ![key[c]] = ending[c]]
      /\ pc' = [pc EXCEPT ![c] = "finish"] /\ ending' = [ending EXCEPT ![c] = "failed"]
      /\ UNCHANGED <<rows, key, measured, reply>>
  BY DEF FinishUnacknowledged, End, Goto
<1>2. PICK k \in Keys : k = key[c]
  BY <1>1 DEF Shape
<1>3. ending[c] \in Terminal
  BY <1>1 DEF Progress
<1>4. status' \in [Keys -> Statuses] /\ pc' = pc /\ ending' \in [Clients -> Terminal \union {None}]
  BY <1>1, <1>2, <1>3 DEF Shape, Statuses, Terminal
<1>5. Shape'
  BY <1>1, <1>4 DEF Shape
<1>6. Others(c)
  BY <1>1 DEF Others, Shape
<1>7. pc'[c] = "finish" /\ ending'[c] = "failed" /\ status'[k] = ending[c] /\ Driving(c)
  BY <1>1, <1>2, <1>4 DEF Shape, Driving
<1>8. Progress(c)'
  BY <1>1, <1>2, <1>3, <1>7 DEF Progress, Stages, Before, Base, Cand, Terminal
<1>9. Final(c)'
  BY <1>1, <1>2 DEF Final, Shape, Terminal
<1>10. Evidence(k)'
  BY <1>1, <1>2, <1>3, <1>7 DEF Evidence, Progress, Terminal
<1>11. \A j \in Keys \ {k} : status'[j] = status[j] /\ rows'[j] = rows[j]
  BY <1>1, <1>2 DEF Shape
<1>12. status[k] \notin Terminal
  BY <1>1, <1>2 DEF Terminal
<1>13. QED BY <1>1, <1>2, <1>5, <1>6, <1>7, <1>8, <1>9, <1>10, <1>11, <1>12, DriverStep

LEMMA StepCrash ==
  ASSUME RunInv, NEW c \in Clients, Crash(c)
  PROVE  RunInv'
<1>1. pc[c] # "idle" /\ Answer(c, "none") /\ UNCHANGED <<status, rows>>
  BY DEF Crash, stored
<1>2. "none" \in Statuses \union {"error", "none"} /\ "none" \notin Terminal
  BY DEF Terminal
<1>3. QED BY <1>1, <1>2, AnswerStep

LEMMA StepIdle ==
  ASSUME RunInv, UNCHANGED <<status, rows, client>>
  PROVE  RunInv'
<1>1. UNCHANGED <<status, rows, pc, key, measured, ending, reply>>
  BY DEF client
<1>2. Shape' /\ OneDriver' /\ \A k \in Keys : Evidence(k)'
  BY <1>1 DEF RunInv, Shape, OneDriver, Driving, Evidence
<1>3. \A c \in Clients : Progress(c)' /\ Final(c)'
  BY <1>1 DEF RunInv, Progress, Final
<1>4. QED BY <1>2, <1>3 DEF RunInv

LEMMA RunStep ==
  ASSUME RunInv, [Next]_vars
  PROVE  RunInv'
<1>1. CASE Edit \/ UNCHANGED vars
  BY <1>1, StepIdle DEF Edit, vars, stored
<1>2. ASSUME NEW c \in Clients, Begin(c) \/ Serve(c) \/ Crash(c) PROVE RunInv'
  <2>1. CASE Begin(c)
    BY <2>1, StepBegin
  <2>2. CASE Serve(c)
    BY <2>2, StepCreate, StepStart, StepInspect, StepPredict, StepRegister, StepInsert, StepContext,
       StepMeasure, StepRecordBaseline, StepRecordCandidate, StepObserve, StepJudge, StepDecide,
       StepFinish, StepRaises, StepUnacknowledged DEF Serve
  <2>3. CASE Crash(c)
    BY <2>3, StepCrash
  <2>4. QED BY <1>2, <2>1, <2>2, <2>3
<1>3. QED BY <1>1, <1>2 DEF Next

-----------------------------------------------------------------------------
(***************************************************************************)
(* The theorems.                                                           *)
(***************************************************************************)
\* What the three properties rest on is kept by every step of every client.
THEOREM RunInvariant == Spec => []RunInv
<1>1. Init => RunInv
  BY RunInit
<1>2. RunInv /\ [Next]_vars => RunInv'
  BY RunStep
<1>3. QED BY <1>1, <1>2, PTL DEF Spec

\* At most one client drives the run of a deduplication key, whichever requests
\* are identical and wherever clients die.
THEOREM OneDriverCorrect == Spec => []OneDriver
<1>1. RunInv => OneDriver
  BY DEF RunInv
<1>2. QED BY <1>1, RunInvariant, PTL

\* A run that ended as succeeded or inconclusive has recorded what that status
\* says of it (analysis.run against persistence.finish).
THEOREM EvidenceCorrect == Spec => []StatusMatchesEvidence
<1>1. RunInv => StatusMatchesEvidence
  BY DEF RunInv, Evidence, StatusMatchesEvidence
<1>2. QED BY <1>1, RunInvariant, PTL

\* A client that was told how a run ended was told its status for good.
THEOREM FinalCorrect == Spec => []AnswersFinal
<1>1. RunInv => AnswersFinal
  BY DEF RunInv, Final, AnswersFinal
<1>2. QED BY <1>1, RunInvariant, PTL

\* Every step of the service is one the reference repository of
\* lou.persistence.in_memory allows, or none of it.
LEMMA RegistryStep ==
  ASSUME RunInv, [Next]_vars
  PROVE  [Registry!Next]_status
<1>1. ASSUME NEW k \in Keys, status[k] = "absent", status' = [status EXCEPT ![k] = "queued"]
      PROVE  Registry!Next
  BY <1>1 DEF Registry!Next, Registry!CreateOrGet
<1>2. ASSUME NEW k \in Keys, NEW to \in Terminal, status[k] = "running",
             status' = [status EXCEPT ![k] = to]
      PROVE  Registry!Next
  <2>1. to \in Registry!RunStatuses /\ to \in Registry!Terminal
    BY DEF Terminal, Registry!RunStatuses, Registry!Terminal
  <2>2. to \in Registry!Allowed["running"]
    BY <2>1 DEF Registry!Allowed, Registry!RunStatuses
  <2>3. Registry!Transition(k, to)
    BY <1>2, <2>2 DEF Registry!Transition
  <2>4. QED BY <2>1, <2>3 DEF Registry!Next
<1>3. ASSUME NEW k \in Keys, status[k] = "queued", status' = [status EXCEPT ![k] = "running"]
      PROVE  Registry!Next
  <2>1. "running" \in Registry!RunStatuses /\ "running" \in Registry!Allowed["queued"]
    BY DEF Registry!Allowed, Registry!RunStatuses
  <2>2. Registry!Transition(k, "running")
    BY <1>3, <2>1 DEF Registry!Transition
  <2>3. QED BY <2>1, <2>2 DEF Registry!Next
<1>4. CASE UNCHANGED status
  BY <1>4
<1>5. ASSUME NEW c \in Clients, Create(c) PROVE [Registry!Next]_status
  <2>1. key[c] \in Keys
    BY <1>5 DEF Create, RunInv, Shape
  <2>2. QED BY <1>1, <1>5, <2>1 DEF Create
<1>6. ASSUME NEW c \in Clients, Start(c) PROVE [Registry!Next]_status
  <2>1. key[c] \in Keys
    BY <1>6 DEF Start, RunInv, Shape
  <2>2. QED BY <1>3, <1>6, <2>1 DEF Start
<1>7. ASSUME NEW c \in Clients, Finish(c) \/ FinishUnacknowledged(c) PROVE [Registry!Next]_status
  <2>1. key[c] \in Keys /\ ending[c] \in Terminal
    BY <1>7 DEF Finish, FinishUnacknowledged, RunInv, Shape, Progress
  <2>2. QED BY <1>2, <1>7, <2>1 DEF Finish, FinishUnacknowledged
<1>8. ASSUME NEW c \in Clients,
             \/ Begin(c) \/ Crash(c) \/ Inspect(c) \/ Forecast(c) \/ Prediction(c) \/ Register(c)
             \/ Insert(c) \/ Context(c) \/ Measure(c) \/ RecordBaseline(c) \/ RecordCandidate(c)
             \/ Observe(c) \/ Judge(c) \/ Decide(c) \/ StageRaises(c) \/ StoreRaises(c)
      PROVE  UNCHANGED status
  BY <1>8 DEF Begin, Crash, Inspect, Forecast, Prediction, Register, Insert, Context, Measure,
     RecordBaseline, RecordCandidate, Observe, Observes, Judge, Decide, StageRaises, StoreRaises,
     Record, stored
<1>9. Edit \/ UNCHANGED vars => UNCHANGED status
  BY DEF Edit, vars, stored
<1>10. QED BY <1>4, <1>5, <1>6, <1>7, <1>8, <1>9 DEF Next, Serve

\* The service implements the reference repository: a run is created once, is
\* started once, ends once, and never leaves the status it ended with.
THEOREM RegistryCorrect == Spec => ImplementsRegistry
<1>1. Init => Registry!Init
  BY DEF Init, Registry!Init
<1>2. RunInv /\ [Next]_vars => [Registry!Next]_status
  BY RegistryStep
<1>3. QED BY <1>1, <1>2, RunInvariant, PTL DEF Spec, ImplementsRegistry, Registry!Spec

-----------------------------------------------------------------------------
(***************************************************************************)
(* Runs that are left behind, when every client sends one request.         *)
(***************************************************************************)
\* A client that was answered has sent its request, and one at work has no answer yet.
Asked(c) ==
  /\ sent[c] \in Nat
  /\ pc[c] # "idle" => sent[c] >= 1 /\ reply[c].key = None
  /\ reply[c].key # None => sent[c] >= 1
\* Somebody drives the run, or was told that its store failed, or died.
Cared(k) ==
  \E c \in Clients : \/ Driving(c) /\ key[c] = k
                     \/ reply[c].key = k /\ reply[c].status \in {"error", "none"}
LeftInv ==
  /\ sent \in [Clients -> Nat]
  /\ \A c \in Clients : Asked(c)
  /\ \A k \in Keys : status[k] \in {"queued", "running"} => Cared(k)

\* What the step of one client does to its run: it is driven on, or ends, or its client
\* answers; only a client that drove the run can leave it.
DrivesOn(c, k) == Driving(c)' /\ key'[c] = k /\ reply'[c] = reply[c]
Answers(c, k) ==
  /\ pc'[c] = "idle" /\ reply'[c].key = k
  /\ \/ reply'[c].status \in {"error", "none"}
     \/ ~Driving(c) /\ status'[k] = status[k]
     \/ status'[k] \in Terminal

LEMMA LeftStep ==
  ASSUME RunInv, LeftInv, NEW c \in Clients, NEW k \in Keys, pc[c] # "idle", key[c] = k,
         Others(c), UNCHANGED sent, DrivesOn(c, k) \/ Answers(c, k),
         \A j \in Keys \ {k} : status'[j] = status[j]
  PROVE  LeftInv'
<1> USE DEF LeftInv
<1>1. Asked(c) /\ k # None
  BY AnalysisAssumption
<1>2. ASSUME NEW d \in Clients PROVE Asked(d)'
  <2>1. CASE d = c
    BY <1>1, <2>1 DEF Asked, DrivesOn, Answers
  <2>2. CASE d # c
    <3>1. Asked(d) /\ pc'[d] = pc[d] /\ reply'[d] = reply[d] /\ sent'[d] = sent[d]
      BY <2>2 DEF Others
    <3>2. QED BY <3>1 DEF Asked
  <2>3. QED BY <2>1, <2>2
<1>3. ASSUME NEW d \in Clients \ {c}, NEW j \in Keys,
             \/ Driving(d) /\ key[d] = j
             \/ reply[d].key = j /\ reply[d].status \in {"error", "none"}
      PROVE  Cared(j)'
  BY <1>3 DEF Cared, Others, Driving
<1>4. ASSUME NEW j \in Keys, status'[j] \in {"queued", "running"} PROVE Cared(j)'
  <2>1. CASE j = k /\ DrivesOn(c, k)
    BY <2>1 DEF DrivesOn, Cared
  <2>2. CASE j = k /\ Answers(c, k) /\ reply'[c].status \in {"error", "none"}
    BY <2>2 DEF Answers, Cared
  <2>3. CASE j # k \/ (~Driving(c) /\ status'[k] = status[k])
    <3>1. status[j] \in {"queued", "running"}
      BY <1>4, <2>3
    <3>2. PICK d \in Clients : \/ Driving(d) /\ key[d] = j
                               \/ reply[d].key = j /\ reply[d].status \in {"error", "none"}
      BY <3>1 DEF Cared
    <3>3. d # c
      BY <1>1, <2>3, <3>2, AnalysisAssumption DEF Asked
    <3>4. QED BY <1>3, <3>2, <3>3
  <2>4. CASE j = k /\ Answers(c, k) /\ status'[k] \in Terminal
    BY <1>4, <2>4 DEF Terminal
  <2>5. QED BY <2>1, <2>2, <2>3, <2>4 DEF Answers
<1>5. sent' \in [Clients -> Nat]
  OBVIOUS
<1>6. QED BY <1>2, <1>4, <1>5

\* The answers.
LEMMA AnswersLeave ==
  ASSUME RunInv, LeftInv, NEW c \in Clients, NEW k \in Keys, pc[c] # "idle", key[c] = k,
         NEW a, Answer(c, a), UNCHANGED sent,
         \A j \in Keys \ {k} : status'[j] = status[j],
         \/ a \in {"error", "none"} \/ (~Driving(c) /\ status'[k] = status[k]) \/ status'[k] \in Terminal
  PROVE  LeftInv'
<1>1. /\ reply' = [reply EXCEPT ![c] = [key |-> k, status |-> a]]
      /\ pc' = [pc EXCEPT ![c] = "idle"]
      /\ \A d \in Clients \ {c} : key'[d] = key[d] /\ measured'[d] = measured[d] /\ ending'[d] = ending[d]
  BY DEF Answer, Goto, RunInv, Shape
<1>2. Others(c)
  BY <1>1 DEF Others, RunInv, Shape
<1>3. Answers(c, k)
  BY <1>1 DEF Answers, RunInv, Shape
<1>4. QED BY <1>2, <1>3, LeftStep

\* The steps that drive the run on, whether or not its status changes.
LEMMA DrivenLeave ==
  ASSUME RunInv, LeftInv, NEW c \in Clients, NEW k \in Keys, pc[c] # "idle", key[c] = k,
         NEW label \in Labels \ {"idle", "create"}, pc' = [pc EXCEPT ![c] = label],
         UNCHANGED <<key, reply, sent>>,
         \A d \in Clients \ {c} : measured'[d] = measured[d] /\ ending'[d] = ending[d],
         \A j \in Keys \ {k} : status'[j] = status[j]
  PROVE  LeftInv'
<1>1. Others(c)
  BY DEF Others, RunInv, Shape
<1>2. pc'[c] = label
  BY DEF RunInv, Shape
<1>3. DrivesOn(c, k)
  BY <1>2 DEF DrivesOn, Driving
<1>4. QED BY <1>1, <1>3, LeftStep

LEMMA LeftServe ==
  ASSUME RunInv, LeftInv, NEW c \in Clients, Serve(c) \/ Crash(c)
  PROVE  LeftInv'
<1> USE DEF RunInv
<1>1. pc[c] # "idle"
  BY DEF Serve, Crash, Create, Start, Inspect, Forecast, Prediction, Register, Insert, Context,
     Measure, RecordBaseline, RecordCandidate, Observe, Judge, Decide, Finish, StageRaises,
     StoreRaises, FinishUnacknowledged
<1>2. PICK k \in Keys : k = key[c]
  BY <1>1 DEF Shape
<1>3. ASSUME NEW label \in Labels \ {"idle", "create"}, Onward(c, label),
             \A j \in Keys \ {k} : status'[j] = status[j]
      PROVE  LeftInv'
  BY <1>1, <1>2, <1>3, DrivenLeave DEF Onward, Goto
<1>4. ASSUME NEW with, End(c, with), \A j \in Keys \ {k} : status'[j] = status[j]
      PROVE  LeftInv'
  <2>1. /\ pc' = [pc EXCEPT ![c] = "finish"] /\ UNCHANGED <<key, reply, sent, measured>>
        /\ \A d \in Clients \ {c} : ending'[d] = ending[d]
    BY <1>4 DEF End, Goto, Shape
  <2>2. "finish" \in Labels \ {"idle", "create"}
    BY DEF Labels
  <2>3. QED BY <1>1, <1>2, <1>4, <2>1, <2>2, DrivenLeave
<1>5. ASSUME NEW a, Answer(c, a), UNCHANGED <<sent, status>>, a \in {"error", "none"} \/ ~Driving(c)
      PROVE  LeftInv'
  BY <1>1, <1>2, <1>5, AnswersLeave
<1>6. ASSUME Record(c, Row(c)) \/ UNCHANGED stored \/ (\E r : Record(c, r))
      PROVE  UNCHANGED status
  BY <1>6 DEF Record, stored
<1>7. {"start", "inspect", "forecast", "prediction", "register", "insert", "baseline",
       "observe_baseline", "record_baseline", "judge_baseline", "candidate", "record_candidate",
       "observe_candidate", "judge_candidate", "decide"} \subseteq Labels \ {"idle", "create"}
  BY DEF Labels, Stages, Before, Base, Cand
<1>8. CASE Create(c)
  <2>1. CASE status' = [status EXCEPT ![k] = "queued"] /\ Onward(c, "start")
    BY <1>3, <1>7, <2>1 DEF Shape
  <2>2. CASE Answer(c, Reused(status[k])) /\ UNCHANGED status
    <3>1. PICK a : a = Reused(status[k])
      OBVIOUS
    <3>2. pc[c] = "create" /\ UNCHANGED sent
      BY <1>8, <2>2 DEF Create, Answer
    <3>3. ~Driving(c)
      BY <3>2 DEF Driving
    <3>4. QED BY <1>5, <2>2, <3>1, <3>2, <3>3
  <2>3. QED BY <1>2, <1>8, <2>1, <2>2 DEF Create
<1>9. CASE Start(c)
  <2>1. status' = [status EXCEPT ![k] = "running"] /\ Onward(c, "inspect")
    BY <1>2, <1>9 DEF Start
  <2>2. QED BY <1>3, <1>7, <2>1 DEF Shape
<1>10. CASE Inspect(c) \/ Measure(c)
  <2>1. PICK label \in Labels \ {"idle", "create"} : Goto(c, label)
    BY <1>7, <1>10 DEF Inspect, Measure
  <2>2. UNCHANGED <<key, reply, sent, ending, status>>
    BY <1>10 DEF Inspect, Measure, stored
  <2>3. \A d \in Clients \ {c} : measured'[d] = measured[d]
    BY <1>10 DEF Inspect, Measure, Shape
  <2>4. QED BY <1>1, <1>2, <2>1, <2>2, <2>3, DrivenLeave DEF Goto
<1>11. CASE Forecast(c) \/ Prediction(c) \/ RecordBaseline(c) \/ RecordCandidate(c) \/ Observe(c)
  <2>1. PICK label \in Labels \ {"idle", "create"} : Onward(c, label)
    BY <1>7, <1>11 DEF Forecast, Prediction, RecordBaseline, RecordCandidate, Observe
  <2>2. UNCHANGED status
    BY <1>11 DEF Forecast, Prediction, RecordBaseline, RecordCandidate, Observe, Observes, Record, stored
  <2>3. QED BY <1>3, <2>1, <2>2
<1>12. CASE Register(c)
  <2>1. pc[c] = "register" /\ UNCHANGED <<status, key, measured, sent, reply>>
    BY <1>12 DEF Register, stored
  <2>2. PICK label \in {"insert", "register", "finish"} : pc' = [pc EXCEPT ![c] = label]
    BY <1>12, <2>1 DEF Register, Goto, Shape
  <2>3. \A d \in Clients \ {c} : ending'[d] = ending[d]
    BY <1>12 DEF Register, Shape
  <2>4. label \in Labels \ {"idle", "create"}
    BY <1>7 DEF Labels
  <2>5. QED BY <1>1, <1>2, <2>1, <2>2, <2>3, <2>4, DrivenLeave
<1>13. CASE Insert(c)
  <2>1. CASE Goto(c, "register") /\ UNCHANGED <<key, measured, ending, sent, reply>>
    BY <1>1, <1>2, <1>7, <1>13, <2>1, DrivenLeave DEF Insert, Goto
  <2>2. CASE End(c, "failed")
    BY <1>4, <1>13, <2>2 DEF Insert
  <2>3. QED BY <1>13, <2>1, <2>2 DEF Insert
<1>14. CASE Context(c) \/ Judge(c) \/ Decide(c)
  <2>1. UNCHANGED status
    BY <1>14 DEF Context, Judge, Decide, Record, stored
  <2>2. CASE \E label \in {"baseline", "candidate", "decide"} : Onward(c, label)
    BY <1>3, <1>7, <2>1, <2>2
  <2>3. CASE \E with \in Terminal : End(c, with)
    BY <1>4, <2>1, <2>3
  <2>4. QED BY <1>14, <2>2, <2>3 DEF Context, Judge, Decide, Terminal
<1>15. CASE Finish(c)
  <2>1. pc[c] = "finish" /\ ending[c] \in Terminal /\ status[k] \in {"running"} \union Terminal
    BY <1>2, <1>15 DEF Finish, Progress
  <2>2. PICK a : Answer(c, a)
    BY <1>15 DEF Finish
  <2>3. status'[k] \in Terminal /\ UNCHANGED sent /\ \A j \in Keys \ {k} : status'[j] = status[j]
    BY <1>2, <1>15, <2>1 DEF Finish, Answer, Shape
  <2>4. QED BY <1>1, <1>2, <2>2, <2>3, AnswersLeave
<1>16. CASE StageRaises(c) \/ StoreRaises(c) \/ Crash(c)
  <2>1. UNCHANGED status
    BY <1>16 DEF StageRaises, StoreRaises, Crash, stored
  <2>2. CASE Answer(c, "error") \/ Answer(c, "none")
    BY <1>5, <2>1, <2>2 DEF Answer
  <2>3. CASE End(c, "failed")
    BY <1>4, <2>1, <2>3
  <2>4. QED BY <1>16, <2>2, <2>3 DEF StageRaises, StoreRaises, Crash
<1>17. CASE FinishUnacknowledged(c)
  BY <1>2, <1>4, <1>17 DEF FinishUnacknowledged, Shape
<1>18. QED BY <1>8, <1>9, <1>10, <1>11, <1>12, <1>13, <1>14, <1>15, <1>16, <1>17 DEF Serve

\* A client that sends its only request had no answer yet.
LEMMA LeftBegin ==
  ASSUME RunInv, LeftInv, MaxRequests = 1, NEW c \in Clients, Begin(c)
  PROVE  LeftInv'
<1> USE DEF RunInv, LeftInv
<1>1. /\ pc[c] = "idle" /\ sent[c] < 1 /\ pc' = [pc EXCEPT ![c] = "create"]
      /\ sent' = [sent EXCEPT ![c] = @ + 1] /\ UNCHANGED <<status, reply>>
      /\ \E k \in Keys : key' = [key EXCEPT ![c] = k]
  BY DEF Begin, Goto, stored
<1>2. Asked(c) /\ reply[c].key = None
  BY <1>1 DEF Asked
<1>3. ASSUME NEW d \in Clients PROVE Asked(d)'
  BY <1>1, <1>2 DEF Asked, Shape
<1>4. ASSUME NEW k \in Keys, Cared(k) PROVE Cared(k)'
  <2>1. PICK d \in Clients : \/ Driving(d) /\ key[d] = k
                             \/ reply[d].key = k /\ reply[d].status \in {"error", "none"}
    BY <1>4 DEF Cared
  <2>2. d # c
    BY <1>1, <1>2, <2>1, AnalysisAssumption DEF Driving
  <2>3. pc'[d] = pc[d] /\ key'[d] = key[d] /\ reply'[d] = reply[d]
    BY <1>1, <2>2 DEF Shape
  <2>4. QED BY <2>1, <2>3 DEF Cared, Driving
<1>5. sent' \in [Clients -> Nat]
  BY <1>1
<1>6. QED BY <1>1, <1>3, <1>4, <1>5

LEMMA LeftKept ==
  ASSUME RunInv, LeftInv, MaxRequests = 1, [Next]_vars
  PROVE  LeftInv'
<1>1. CASE Edit \/ UNCHANGED vars
  <2>1. UNCHANGED <<status, pc, key, reply, sent>>
    BY <1>1 DEF Edit, vars, stored, client
  <2>2. QED BY <2>1 DEF LeftInv, Asked, Cared, Driving
<1>2. QED BY <1>1, LeftBegin, LeftServe DEF Next

\* When every client sends one request, which is what the property can tell (a client's
\* latest answer is then its only one), a run that has not ended is driven, or left by
\* a client that died or was told of an error of the store (application/analysis.py:204).
THEOREM LeftBehindCorrect ==
  ASSUME MaxRequests = 1
  PROVE  Spec => []NoRunLeftBehind
<1>1. RunInv /\ LeftInv => NoRunLeftBehind
  BY DEF LeftInv, Cared, NoRunLeftBehind
<1>2. Init => LeftInv
  BY DEF Init, LeftInv, Asked
<1>3. RunInv /\ LeftInv /\ [Next]_vars => LeftInv'
  BY LeftKept
<1>4. QED BY <1>1, <1>2, <1>3, RunInvariant, RunInit, RunStep, PTL DEF Spec
=============================================================================
