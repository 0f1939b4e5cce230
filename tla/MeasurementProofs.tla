------------------------- MODULE MeasurementProofs -------------------------
(***************************************************************************)
(* Proofs about Measurement for any number of runs, checks, editions,      *)
(* worlds and faults: what a run leaves behind in the Docker daemon, and   *)
(* that a decided verdict is that of an undisturbed measurement.           *)
(***************************************************************************)
EXTENDS Measurement, FiniteSetTheorems, TLAPS

\* The application of a run between its start and the finally clause that removes it.
Attended(c) ==
  /\ c[1] \in Runs /\ c = App(c[1])
  /\ At(c[1], "logs") \/ (At(c[1], "sandbox") /\ run[c[1]].kind = "k6")

\* Where a run holds its image.
Holding == {"sandbox", "app", "logs", "untag"}

Named == {"pc", "phase", "argv", "kind", "at", "now", "observed", "stop", "verdict"}
Shape ==
  /\ run = [r \in Runs |-> run[r]]
  /\ \A r \in Runs : Named \subseteq DOMAIN run[r]

\* What is in the daemon has somebody who will remove it, or its removal failed.
LeftInv ==
  /\ Shape
  /\ \A c \in containers \ (lost \union unready) : Attended(c)
  /\ \A tag \in images \ stale : tag = Base \/ \E r \in Runs : Holds(r, tag)

\* An image loses its tag only under a container that is not accounted for, or where two
\* runs hold it.
ApartInv ==
  /\ untagged \subseteq shared \union {Image(c) : c \in lost \union unready}
  /\ \A tag : \A r, d \in Runs : r # d /\ Holds(r, tag) /\ Holds(d, tag) => tag \in shared

-----------------------------------------------------------------------------
(***************************************************************************)
(* How a run moves.                                                        *)
(***************************************************************************)
LEMMA Fields ==
  ASSUME NEW f, NEW g, NEW names, names \subseteq DOMAIN g
  PROVE  /\ names \subseteq DOMAIN (f ++ g)
         /\ \A k \in names : (f ++ g)[k] = IF k \in DOMAIN f THEN f[k] ELSE g[k]
<1>1. \A k \in names : k \in DOMAIN f \union DOMAIN g
  OBVIOUS
<1>2. DOMAIN (f ++ g) = DOMAIN f \union DOMAIN g
  BY DEF ++
<1>3. \A k \in DOMAIN f \union DOMAIN g : (f ++ g)[k] = IF k \in DOMAIN f THEN f[k] ELSE g[k]
  BY DEF ++
<1>4. QED BY <1>1, <1>2, <1>3

\* Every other run stays as it was.
Aside(r) == Shape' /\ \A d \in Runs \ {r} : run'[d] = run[d]

LEMMA Moved ==
  ASSUME Shape, NEW r \in Runs, NEW changes, Move(r, changes)
  PROVE  /\ Aside(r)
         /\ \A k \in Named : run'[r][k] = IF k \in DOMAIN changes THEN changes[k] ELSE run[r][k]
<1>1. run' = [run EXCEPT ![r] = changes ++ run[r]]
  BY DEF Move
<1>2. run'[r] = changes ++ run[r] /\ \A d \in Runs \ {r} : run'[d] = run[d]
  BY <1>1 DEF Shape
<1>3. Named \subseteq DOMAIN run[r]
  BY DEF Shape
<1>4. /\ Named \subseteq DOMAIN (changes ++ run[r])
      /\ \A k \in Named : (changes ++ run[r])[k] = IF k \in DOMAIN changes THEN changes[k] ELSE run[r][k]
  BY <1>3, Fields
<1>5. run' = [d \in Runs |-> run'[d]]
  BY <1>1 DEF Shape
<1>6. QED BY <1>2, <1>4, <1>5 DEF Aside, Shape

\* A move within a phase, to a place and perhaps to another kind of container.
Arrives(r, labels) ==
  /\ Aside(r) /\ run'[r].phase = run[r].phase
  /\ run'[r].pc \in labels

LEMMA SamePhase ==
  ASSUME NEW r, run'[r].phase = run[r].phase, UNCHANGED world
  PROVE  Tag(r)' = Tag(r) /\ App(r)' = App(r)
BY DEF Tag, App, Container, Phase

LEMMA MovesTo ==
  ASSUME Shape, NEW r \in Runs, NEW changes, Move(r, changes),
         "pc" \in DOMAIN changes, "phase" \notin DOMAIN changes
  PROVE  /\ Arrives(r, {changes.pc})
         /\ run'[r].kind = IF "kind" \in DOMAIN changes THEN changes.kind ELSE run[r].kind
<1>1. /\ run'[r]["pc"] = changes["pc"] /\ run'[r]["phase"] = run[r]["phase"]
      /\ run'[r]["kind"] = IF "kind" \in DOMAIN changes THEN changes["kind"] ELSE run[r]["kind"]
  BY Moved DEF Named
<1>2. Aside(r)
  BY Moved
<1>3. QED BY <1>1, <1>2 DEF Arrives

\* Where the end of a phase leads.
LEMMA Concludes ==
  ASSUME Shape, NEW r \in Runs, Move(r, Concluded(r)) \/ Move(r, Ended("error"))
  PROVE  run'[r].pc \in {"ended", "enter"}
<1>1. /\ \A verdict : "pc" \in DOMAIN Ended(verdict) /\ Ended(verdict)["pc"] = "ended"
      /\ \A o : "pc" \in DOMAIN NextPhase(r, o) /\ NextPhase(r, o)["pc"] = "enter"
  BY DEF Ended, NextPhase, Idle, ++
<1>2. \A f, verdict : "pc" \notin DOMAIN f =>
        "pc" \in DOMAIN (f ++ Ended(verdict)) /\ (f ++ Ended(verdict))["pc"] = "ended"
  BY <1>1 DEF ++
<1>3. PICK changes : Move(r, changes) /\ changes \in {Concluded(r), Ended("error")}
  OBVIOUS
<1>4. "pc" \in DOMAIN changes /\ changes["pc"] \in {"ended", "enter"}
  BY <1>1, <1>2, <1>3 DEF Concluded, Analysed, Remediated
<1>5. QED BY <1>3, <1>4, Moved DEF Named

\* What comes next of a phase.
LEMMA NextOfPhase ==
  ASSUME NEW r, NEW n
  PROVE  /\ From(r, n).pc \in {"sandbox", "app", "untag"}
         /\ "pc" \in DOMAIN From(r, n) /\ "phase" \notin DOMAIN From(r, n)
         /\ From(r, n).pc = "sandbox" => "kind" \in DOMAIN From(r, n) /\ From(r, n).kind = "check"
BY DEF From, Unwind, RaiseTo

-----------------------------------------------------------------------------
(***************************************************************************)
(* What a step of one run must show.                                       *)
(***************************************************************************)
\* A container that is not accounted for is that of another run or attended; an image
\* was there before and is not the run's own, or the run holds it.
LEMMA Keeps ==
  ASSUME LeftInv, NEW r \in Runs, Aside(r), UNCHANGED world,
         lost \subseteq lost', unready \subseteq unready', stale \subseteq stale',
         \A c \in containers' \ (lost' \union unready') : Attended(c)' \/ (c \in containers /\ c[1] # r),
         \A tag \in images' \ stale' :
           tag = Base \/ Holds(r, tag)' \/ (tag \in images /\ ~Holds(r, tag))
  PROVE  LeftInv'
<1>1. \A d \in Runs \ {r} : run'[d] = run[d] /\ Tag(d)' = Tag(d) /\ App(d)' = App(d)
  BY SamePhase DEF Aside
<1>2. ASSUME NEW c \in containers' \ (lost' \union unready') PROVE Attended(c)'
  <2>1. CASE c \in containers /\ c[1] # r
    <3>1. Attended(c)
      BY <1>2, <2>1 DEF LeftInv
    <3>2. QED BY <1>1, <2>1, <3>1 DEF Attended, At
  <2>2. QED BY <1>2, <2>1
<1>3. ASSUME NEW tag \in images' \ stale' PROVE tag = Base' \/ \E d \in Runs : Holds(d, tag)'
  <2> SUFFICES ASSUME tag # Base PROVE \E d \in Runs : Holds(d, tag)'
    BY DEF Base
  <2>1. CASE tag \in images /\ ~Holds(r, tag)
    <3>1. PICK d \in Runs : Holds(d, tag)
      BY <1>3, <2>1 DEF LeftInv
    <3>2. d # r
      BY <2>1, <3>1
    <3>3. QED BY <1>1, <3>1, <3>2 DEF Holds
  <2>2. QED BY <1>3, <2>1
<1>4. QED BY <1>2, <1>3 DEF LeftInv, Aside

\* A run that has no application has no container that is not accounted for.
LEMMA Unattended ==
  ASSUME LeftInv, NEW r \in Runs, ~At(r, "logs"), At(r, "sandbox") => run[r].kind # "k6",
         NEW c \in containers \ (lost \union unready)
  PROVE  c[1] # r
BY DEF LeftInv, Attended

\* A step that leaves the daemon alone, and neither takes nor gives up an image.
LEMMA KeepsDaemon ==
  ASSUME LeftInv, NEW r \in Runs, Aside(r), UNCHANGED <<world, daemon, history>>,
         At(r, "enter") \/ At(r, "leave")
  PROVE  LeftInv'
<1>1. \A c \in containers' \ (lost' \union unready') : c \in containers /\ c[1] # r
  BY Unattended DEF At, daemon, history
<1>2. \A tag \in images' \ stale' : tag \in images /\ ~Holds(r, tag)
  BY DEF At, Holds, Holding, daemon, history
<1>3. QED BY <1>1, <1>2, Keeps DEF daemon, history

\* A step within a phase after which the run still holds its image.
LEMMA HoldsOn ==
  ASSUME NEW r, Arrives(r, Holding), UNCHANGED <<world, images, stale>>
  PROVE  \A tag \in images' \ stale' : Holds(r, tag)' \/ (tag \in images /\ ~Holds(r, tag))
<1>1. Tag(r)' = Tag(r) /\ run'[r].pc \in Holding
  BY SamePhase DEF Arrives
<1>2. QED BY <1>1 DEF Holds, Holding

-----------------------------------------------------------------------------
(***************************************************************************)
(* The actions.                                                            *)
(***************************************************************************)
LEMMA EnterKeeps ==
  ASSUME LeftInv, NEW r \in Runs, Enter(r)
  PROVE  LeftInv'
<1>1. PICK changes : Move(r, changes)
  BY DEF Enter
<1>2. QED BY <1>1, Moved, KeepsDaemon DEF LeftInv, Enter

LEMMA LeaveKeeps ==
  ASSUME LeftInv, NEW r \in Runs, Leave(r) \/ LeaveFails(r)
  PROVE  LeftInv'
<1>1. PICK changes : Move(r, changes)
  BY DEF Leave, LeaveFails
<1>2. QED BY <1>1, Moved, KeepsDaemon DEF LeftInv, Leave, LeaveFails

LEMMA BuildKeeps ==
  ASSUME LeftInv, NEW r \in Runs, Build(r)
  PROVE  LeftInv'
<1>1. /\ At(r, "build") /\ UNCHANGED <<world, containers, lost, unready>> /\ Shape
      /\ images' \subseteq images \union {Base, Tag(r)} /\ stale \subseteq stale'
  BY DEF Build, LeftInv
<1>2. \A c \in containers' \ (lost' \union unready') : c \in containers /\ c[1] # r
  BY <1>1, Unattended DEF At
<1>3. \A tag : ~Holds(r, tag)
  BY <1>1 DEF At, Holds, Holding
<1>4. CASE Move(r, From(r, 1))
  <2>1. Arrives(r, {From(r, 1).pc}) /\ From(r, 1).pc \in Holding
    BY <1>1, <1>4, NextOfPhase, MovesTo DEF Holding
  <2>2. Holds(r, Tag(r))' /\ Aside(r)
    BY <1>1, <2>1, SamePhase DEF Arrives, Holds, Holding
  <2>3. Tag(r)' = Tag(r)
    BY <1>1, <2>1, SamePhase DEF Arrives
  <2>4. \A tag \in images' \ stale' :
          tag = Base \/ Holds(r, tag)' \/ (tag \in images /\ ~Holds(r, tag))
    BY <1>1, <1>3, <2>2, <2>3
  <2>5. QED BY <1>1, <1>2, <2>2, <2>4, Keeps
<1>5. CASE Move(r, RaiseTo("leave")) /\ stale' = stale \union {Tag(r)}
  <2>1. Aside(r)
    BY <1>1, <1>5, Moved
  <2>2. \A tag \in images' \ stale' : tag = Base \/ (tag \in images /\ ~Holds(r, tag))
    BY <1>1, <1>3, <1>5
  <2>3. QED BY <1>1, <1>2, <2>1, <2>2, Keeps
<1>6. QED BY <1>4, <1>5 DEF Build

LEMMA RemoveImageKeeps ==
  ASSUME LeftInv, NEW r \in Runs, RemoveImage(r)
  PROVE  LeftInv'
<1>1. /\ At(r, "untag") /\ UNCHANGED <<world, containers, lost, unready>> /\ stale \subseteq stale'
      /\ images' \subseteq images /\ Tag(r) \notin images' \ stale'
  BY DEF RemoveImage
<1>2. Aside(r)
  BY Moved DEF RemoveImage, LeftInv
<1>3. \A c \in containers' \ (lost' \union unready') : c \in containers /\ c[1] # r
  BY <1>1, Unattended DEF At
<1>4. \A tag \in images' \ stale' : tag \in images /\ ~Holds(r, tag)
  BY <1>1 DEF Holds
<1>5. QED BY <1>1, <1>2, <1>3, <1>4, Keeps

LEMMA RemoveAppKeeps ==
  ASSUME LeftInv, NEW r \in Runs, RemoveApp(r)
  PROVE  LeftInv'
<1>1. /\ UNCHANGED <<world, images, unready, stale>> /\ lost \subseteq lost'
      /\ containers' \subseteq containers /\ App(r) \notin containers' \ lost' /\ Shape
  BY DEF RemoveApp, LeftInv
<1>2. Arrives(r, {"untag"})
  BY <1>1, MovesTo DEF RemoveApp
<1>3. Arrives(r, Holding) /\ Aside(r)
  BY <1>2 DEF Arrives, Holding
<1>4. \A c \in containers' \ (lost' \union unready') : c \in containers /\ c[1] # r
  BY <1>1 DEF LeftInv, Attended
<1>5. QED BY <1>1, <1>3, <1>4, HoldsOn, Keeps

LEMMA StartAppKeeps ==
  ASSUME LeftInv, NEW r \in Runs, StartApp(r)
  PROVE  LeftInv'
<1>1. /\ At(r, "app") /\ UNCHANGED <<world, images, stale>>
      /\ lost \subseteq lost' /\ unready \subseteq unready' /\ Shape
      /\ containers' \subseteq containers \union {App(r)}
  BY DEF StartApp, LeftInv
<1>2. \A c \in containers \ (lost \union unready) : c[1] # r
  BY <1>1, Unattended DEF At
<1>3. App(r)[1] = r
  BY DEF App, Container
<1>4. CASE Move(r, [pc |-> "sandbox", kind |-> "k6", at |-> 0,
                    now |-> [run[r].now EXCEPT !.load = NoSamples]])
  <2>1. Arrives(r, {"sandbox"}) /\ run'[r].kind = "k6"
    BY <1>1, <1>4, MovesTo
  <2>2. Arrives(r, Holding) /\ Aside(r) /\ Attended(App(r))'
    BY <1>1, <1>3, <2>1, SamePhase DEF Arrives, Holding, Attended, At
  <2>3. App(r)' = App(r)
    BY <1>1, <2>1, SamePhase DEF Arrives
  <2>4. \A c \in containers' \ (lost' \union unready') :
          Attended(c)' \/ (c \in containers /\ c[1] # r)
    BY <1>1, <1>2, <2>2, <2>3
  <2>5. QED BY <1>1, <2>2, <2>4, HoldsOn, Keeps
<1>5. CASE Move(r, Unwind) /\ App(r) \notin containers' \ (containers \union lost' \union unready')
  <2>1. Arrives(r, {"untag"})
    BY <1>1, <1>5, MovesTo DEF Unwind, RaiseTo
  <2>2. Arrives(r, Holding) /\ Aside(r)
    BY <2>1 DEF Arrives, Holding
  <2>3. \A c \in containers' \ (lost' \union unready') : c \in containers /\ c[1] # r
    BY <1>1, <1>2, <1>5
  <2>4. QED BY <1>1, <2>2, <2>3, HoldsOn, Keeps
<1>6. QED BY <1>4, <1>5 DEF StartApp

\* A container of a sandbox that is still there has failed to be removed.
LEMMA SandboxDaemon ==
  ASSUME NEW r \in Runs, RunSandbox(r)
  PROVE  /\ lost \subseteq lost' /\ containers' \subseteq containers \union {Current(r)}
         /\ Current(r) \notin containers' \ lost'
         /\ \E result : IF run[r].kind = "check" THEN RecordCheck(r, result)
                                                ELSE RecordAttempt(r, result)
<1>1. PICK result \in Results(r), left \in SUBSET {Current(r)} :
        LET late == "create" \in result.fault
            fault == result.fault \union (IF left # {} /\ ~late THEN {"rm"} ELSE {})
            created == IF Tag(r) \in images THEN {Current(r)} ELSE {}
        IN  /\ containers' = (containers \union created) \ ({Current(r)} \ left)
            /\ lost' = IF late \/ "rm" \in fault THEN lost \union {Current(r)} ELSE lost
            /\ IF run[r].kind = "check" THEN RecordCheck(r, result) ELSE RecordAttempt(r, result)
  BY DEF RunSandbox
<1>2. lost \subseteq lost' /\ containers' \subseteq containers \union {Current(r)}
  BY <1>1
<1>3. CASE left = {}
  BY <1>1, <1>2, <1>3
<1>4. CASE left # {}
  <2>1. lost' = lost \union {Current(r)}
    BY <1>1, <1>4
  <2>2. QED BY <1>1, <1>2, <2>1
<1>5. QED BY <1>3, <1>4

LEMMA CheckGoesOn ==
  ASSUME Shape, NEW r \in Runs, NEW result, RecordCheck(r, result)
  PROVE  Arrives(r, Holding)
<1>1. PICK now : Move(r, [now |-> now] ++ From(r, run[r].at + 1))
  BY DEF RecordCheck
<1> DEFINE next == From(r, run[r].at + 1)
           changes == [now |-> now] ++ next
<1>2. /\ DOMAIN changes = {"now"} \union DOMAIN next
      /\ changes["pc"] = next["pc"]
  BY NextOfPhase DEF ++
<1>3. "pc" \in DOMAIN changes /\ "phase" \notin DOMAIN changes /\ changes.pc = next.pc
  BY <1>2, NextOfPhase
<1>4. Arrives(r, {changes.pc}) /\ changes.pc \in Holding
  BY <1>1, <1>3, NextOfPhase, MovesTo DEF Holding
<1>5. QED BY <1>4 DEF Arrives

LEMMA AttemptGoesOn ==
  ASSUME Shape, NEW r \in Runs, NEW result, RecordAttempt(r, result)
  PROVE  /\ Arrives(r, {"logs", "sandbox"})
         /\ run'[r].kind = run[r].kind
<1>1. CASE Move(r, [pc |-> "logs"]) \/ Move(r, UnwindToApp)
  BY <1>1, MovesTo DEF Arrives, UnwindToApp, RaiseTo
<1>2. CASE \E now, next : /\ next \in {[pc |-> "logs"], [pc |-> "sandbox", at |-> run[r].at + 1]}
                          /\ Move(r, [now |-> now] ++ next)
  <2>1. PICK now, next : /\ next \in {[pc |-> "logs"], [pc |-> "sandbox", at |-> run[r].at + 1]}
                         /\ Move(r, [now |-> now] ++ next)
    BY <1>2
  <2> DEFINE changes == [now |-> now] ++ next
  <2>2. /\ DOMAIN changes = {"now"} \union DOMAIN next /\ changes["pc"] = next["pc"]
        /\ "pc" \in DOMAIN next /\ "phase" \notin DOMAIN next /\ "kind" \notin DOMAIN next
        /\ next["pc"] \in {"logs", "sandbox"}
    BY <2>1 DEF ++
  <2>3. /\ "pc" \in DOMAIN changes /\ "phase" \notin DOMAIN changes /\ "kind" \notin DOMAIN changes
        /\ changes.pc \in {"logs", "sandbox"}
    BY <2>2
  <2>4. Arrives(r, {changes.pc}) /\ run'[r].kind = run[r].kind
    BY <2>1, <2>3, MovesTo
  <2>5. QED BY <2>3, <2>4 DEF Arrives
<1>3. QED BY <1>1, <1>2 DEF RecordAttempt

LEMMA RunSandboxKeeps ==
  ASSUME LeftInv, NEW r \in Runs, RunSandbox(r)
  PROVE  LeftInv'
<1>1. At(r, "sandbox") /\ UNCHANGED <<world, images, unready, stale>> /\ Shape
  BY DEF RunSandbox, LeftInv
<1>2. /\ lost \subseteq lost'
      /\ \A c \in containers' \ (lost' \union unready') : c \in containers \ (lost \union unready)
  BY <1>1, SandboxDaemon
<1>3. PICK result : IF run[r].kind = "check" THEN RecordCheck(r, result)
                                             ELSE RecordAttempt(r, result)
  BY SandboxDaemon
<1>4. CASE run[r].kind = "check"
  <2>1. Arrives(r, Holding) /\ Aside(r)
    BY <1>1, <1>3, <1>4, CheckGoesOn DEF Arrives
  <2>2. \A c \in containers' \ (lost' \union unready') : c \in containers /\ c[1] # r
    BY <1>1, <1>2, <1>4, Unattended DEF At
  <2>3. QED BY <1>1, <1>2, <2>1, <2>2, HoldsOn, Keeps
<1>5. CASE run[r].kind # "check"
  <2>1. Arrives(r, {"logs", "sandbox"}) /\ run'[r].kind = run[r].kind
    BY <1>1, <1>3, <1>5, AttemptGoesOn
  <2>2. Arrives(r, Holding) /\ Aside(r) /\ App(r)' = App(r)
    BY <1>1, <2>1, SamePhase DEF Arrives, Holding
  <2>3. ASSUME NEW c \in containers' \ (lost' \union unready'), c[1] = r PROVE Attended(c)'
    <3>1. Attended(c)
      BY <1>2, <2>3 DEF LeftInv
    <3>2. c = App(r) /\ run[r].kind = "k6"
      BY <1>1, <2>3, <3>1 DEF Attended, At
    <3>3. QED BY <2>1, <2>2, <2>3, <3>2 DEF Attended, At, Arrives
  <2>4. \A c \in containers' \ (lost' \union unready') :
          Attended(c)' \/ (c \in containers /\ c[1] # r)
    BY <1>2, <2>3
  <2>5. QED BY <1>1, <1>2, <2>2, <2>4, HoldsOn, Keeps
<1>6. QED BY <1>4, <1>5

-----------------------------------------------------------------------------
LEMMA LeftStep == LeftInv /\ [Next]_vars => LeftInv'
<1> SUFFICES ASSUME LeftInv, [Next]_vars PROVE LeftInv'
  OBVIOUS
<1>1. CASE UNCHANGED vars
  BY <1>1 DEF vars, daemon, history, LeftInv, Shape, Attended, Holds, App, Tag, Container, Phase, At
<1>2. ASSUME NEW r \in Runs, Step(r) PROVE LeftInv'
  BY <1>2, EnterKeeps, BuildKeeps, RunSandboxKeeps, StartAppKeeps, RemoveAppKeeps,
     RemoveImageKeeps, LeaveKeeps DEF Step
<1>3. QED BY <1>1, <1>2 DEF Next

-----------------------------------------------------------------------------
(***************************************************************************)
(* Images without their tags.                                              *)
(***************************************************************************)
\* What a step of one run must show.
LEMMA StaysApart ==
  ASSUME ApartInv, NEW r \in Runs, Aside(r), UNCHANGED world,
         lost \subseteq lost', unready \subseteq unready', shared \subseteq shared',
         untagged' \subseteq untagged \union shared' \union {Image(c) : c \in lost' \union unready'},
         \A tag : Holds(r, tag)' => \/ Holds(r, tag)
                                   \/ \A d \in Runs \ {r} : Holds(d, tag) => tag \in shared'
  PROVE  ApartInv'
<1>1. untagged' \subseteq shared' \union {Image(c) : c \in lost' \union unready'}
  BY DEF ApartInv
<1>2. \A tag : \A d \in Runs \ {r} : Holds(d, tag)' <=> Holds(d, tag)
  BY SamePhase DEF Aside, Holds
<1>3. ASSUME NEW a \in Runs, NEW d \in Runs, NEW tag, a # d, Holds(a, tag)', Holds(d, tag)'
      PROVE  tag \in shared'
  BY <1>2, <1>3 DEF ApartInv
<1>4. QED BY <1>1, <1>3 DEF ApartInv

\* Only a build gives a run an image.
LEMMA HoldsNoMore ==
  ASSUME LeftInv, NEW r \in Runs, Step(r), ~Build(r)
  PROVE  \A tag : Holds(r, tag)' => Holds(r, tag)
<1>1. UNCHANGED world /\ Shape
  BY DEF Step, Enter, RunSandbox, StartApp, RemoveApp, RemoveImage, Leave, LeaveFails, LeftInv
<1>2. CASE Arrives(r, Holding) /\ run[r].pc \in Holding
  BY <1>1, <1>2, SamePhase DEF Arrives, Holds, Holding
<1>3. CASE run'[r].pc \notin Holding
  BY <1>3 DEF Holds, Holding
<1>4. CASE RunSandbox(r)
  <2>1. PICK result : IF run[r].kind = "check" THEN RecordCheck(r, result)
                                               ELSE RecordAttempt(r, result)
    BY <1>4, SandboxDaemon
  <2>2. Arrives(r, Holding)
    BY <1>1, <2>1, CheckGoesOn, AttemptGoesOn DEF Arrives, Holding
  <2>3. QED BY <1>2, <1>4, <2>2 DEF RunSandbox, At, Holding
<1>5. CASE StartApp(r)
  <2>1. \/ Move(r, [pc |-> "sandbox", kind |-> "k6", at |-> 0,
                    now |-> [run[r].now EXCEPT !.load = NoSamples]])
        \/ Move(r, Unwind)
    BY <1>5 DEF StartApp
  <2>2. Arrives(r, {"sandbox"}) \/ Arrives(r, {"untag"})
    BY <1>1, <2>1, MovesTo DEF Unwind, RaiseTo
  <2>3. QED BY <1>2, <1>5, <2>2 DEF StartApp, At, Holding, Arrives
<1>6. CASE RemoveApp(r)
  <2>1. Arrives(r, {"untag"})
    BY <1>1, <1>6, MovesTo DEF RemoveApp
  <2>2. QED BY <1>2, <1>6, <2>1 DEF RemoveApp, At, Holding, Arrives
<1>7. CASE RemoveImage(r)
  <2>1. Arrives(r, {"leave"})
    BY <1>1, <1>7, MovesTo DEF RemoveImage
  <2>2. QED BY <1>3, <2>1 DEF Arrives, Holding
<1>8. CASE Enter(r)
  <2>1. \E changes : Move(r, changes) /\ "pc" \in DOMAIN changes /\ changes["pc"] \in {"leave", "build"}
    BY <1>8 DEF Enter, RaiseTo
  <2>2. run'[r]["pc"] \in {"leave", "build"}
    BY <1>1, <2>1, Moved DEF Named
  <2>3. QED BY <1>3, <2>2 DEF Holding
<1>9. CASE Leave(r) \/ LeaveFails(r)
  <2>1. run'[r].pc \in {"ended", "enter"}
    BY <1>1, <1>9, Concludes DEF Leave, LeaveFails
  <2>2. QED BY <1>3, <2>1 DEF Holding
<1>10. QED BY <1>4, <1>5, <1>6, <1>7, <1>8, <1>9 DEF Step

\* Every step is a move of one run, and what went wrong is not forgotten.
LEMMA Steps ==
  ASSUME Shape, NEW r \in Runs, Step(r)
  PROVE  /\ Aside(r) /\ UNCHANGED world
         /\ lost \subseteq lost' /\ unready \subseteq unready' /\ shared \subseteq shared'
<1> DEFINE Kept == /\ UNCHANGED world
                   /\ lost \subseteq lost' /\ unready \subseteq unready' /\ shared \subseteq shared'
<1>1. CASE Enter(r)
  <2>1. \E changes : Move(r, changes)
    BY <1>1 DEF Enter
  <2>2. Kept
    BY <1>1 DEF Enter, history
  <2>3. QED BY <2>1, <2>2, Moved
<1>2. CASE Build(r)
  <2>1. \E changes : Move(r, changes)
    BY <1>2 DEF Build
  <2>2. Kept
    BY <1>2 DEF Build
  <2>3. QED BY <2>1, <2>2, Moved
<1>3. CASE RunSandbox(r)
  <2>1. \A result : RecordCheck(r, result) => \E changes : Move(r, changes)
    BY DEF RecordCheck
  <2>2. \A result : RecordAttempt(r, result) => \E changes : Move(r, changes)
    BY DEF RecordAttempt
  <2>3. \E changes : Move(r, changes)
    BY <1>3, <2>1, <2>2, SandboxDaemon
  <2>4. Kept
    BY <1>3, SandboxDaemon DEF RunSandbox
  <2>5. QED BY <2>3, <2>4, Moved
<1>4. CASE StartApp(r)
  <2>1. \E changes : Move(r, changes)
    BY <1>4 DEF StartApp
  <2>2. Kept
    BY <1>4 DEF StartApp
  <2>3. QED BY <2>1, <2>2, Moved
<1>5. CASE RemoveApp(r) \/ RemoveImage(r)
  <2>1. \E changes : Move(r, changes)
    BY <1>5 DEF RemoveApp, RemoveImage
  <2>2. Kept
    BY <1>5 DEF RemoveApp, RemoveImage
  <2>3. QED BY <2>1, <2>2, Moved
<1>6. CASE Leave(r) \/ LeaveFails(r)
  <2>1. Move(r, Concluded(r)) \/ Move(r, Ended("error"))
    BY <1>6 DEF Leave, LeaveFails
  <2>2. Kept
    BY <1>6 DEF Leave, LeaveFails, history
  <2>3. QED BY <2>1, <2>2, Moved
<1>7. QED BY <1>1, <1>2, <1>3, <1>4, <1>5, <1>6 DEF Step

LEMMA ApartStep == LeftInv /\ ApartInv /\ [Next]_vars => ApartInv'
<1> SUFFICES ASSUME LeftInv, ApartInv, [Next]_vars PROVE ApartInv'
  OBVIOUS
<1>1. CASE UNCHANGED vars
  BY <1>1 DEF vars, daemon, history, ApartInv, Holds, Tag, Phase
<1>2. ASSUME NEW r \in Runs, Step(r) PROVE ApartInv'
  <2>1. UNCHANGED world /\ lost \subseteq lost' /\ unready \subseteq unready' /\ shared \subseteq shared'
    BY <1>2, Steps DEF LeftInv
  <2>2. Aside(r)
    BY <1>2, Steps DEF LeftInv
  <2>3. CASE Build(r)
    <3>1. untagged' \subseteq untagged
      BY <2>3 DEF Build
    <3>2. CASE Move(r, From(r, 1)) /\ shared' = shared \union {tag \in {Tag(r)} : \E d \in Runs \ {r} : Holds(d, tag)}
      <4>1. Arrives(r, {From(r, 1).pc})
        BY <3>2, NextOfPhase, MovesTo DEF LeftInv
      <4>2. Tag(r)' = Tag(r)
        BY <2>1, <4>1, SamePhase DEF Arrives
      <4>3. \A tag : Holds(r, tag)' => \A d \in Runs \ {r} : Holds(d, tag) => tag \in shared'
        BY <3>2, <4>2 DEF Holds
      <4>4. QED BY <2>1, <2>2, <3>1, <4>3, StaysApart
    <3>3. CASE Move(r, RaiseTo("leave"))
      <4>1. Arrives(r, {"leave"})
        BY <3>3, MovesTo DEF LeftInv, RaiseTo
      <4>2. \A tag : ~Holds(r, tag)'
        BY <4>1 DEF Arrives, Holds
      <4>3. QED BY <2>1, <2>2, <3>1, <4>2, StaysApart
    <3>4. QED BY <2>3, <3>2, <3>3 DEF Build
  <2>4. CASE RemoveImage(r)
    <3>1. untagged' \subseteq untagged \/ (untagged' \subseteq untagged \union {Tag(r)} /\ InUse(r))
      BY <2>4 DEF RemoveImage
    <3>2. Holds(r, Tag(r)) /\ At(r, "untag")
      BY <2>4 DEF RemoveImage, Holds, At
    <3>3. ASSUME NEW c \in containers, Image(c) = Tag(r), c \notin lost \union unready
          PROVE  Tag(r) \in shared
      <4>1. Attended(c)
        BY <3>3 DEF LeftInv
      <4>2. c[1] \in Runs /\ c = <<c[1], Phase(c[1]), "app", 0>>
        BY <4>1 DEF Attended, App, Container
      <4>3. Image(c) = Tag(c[1])
        BY <4>2 DEF Image, Tag
      <4>4. Holds(c[1], Tag(r)) /\ c[1] # r
        BY <3>2, <3>3, <4>1, <4>3 DEF Attended, Holds, At
      <4>5. QED BY <3>2, <4>2, <4>4 DEF ApartInv
    <3>4. ASSUME NEW d \in Runs \ {r}, At(d, "sandbox"), Tag(d) = Tag(r) PROVE Tag(r) \in shared
      BY <3>2, <3>4 DEF ApartInv, Holds, At
    <3>5. InUse(r) => Tag(r) \in shared' \union {Image(c) : c \in lost' \union unready'}
      BY <2>1, <3>3, <3>4 DEF InUse
    <3>6. untagged' \subseteq untagged \union shared' \union {Image(c) : c \in lost' \union unready'}
      BY <3>1, <3>5
    <3>7. \A tag : Holds(r, tag)' => Holds(r, tag)
      BY <1>2, <2>4, HoldsNoMore DEF RemoveImage, Build, At
    <3>8. QED BY <2>1, <2>2, <3>6, <3>7, StaysApart
  <2>5. CASE ~Build(r) /\ ~RemoveImage(r)
    <3>1. UNCHANGED untagged
      BY <1>2, <2>5 DEF Step, Enter, RunSandbox, StartApp, RemoveApp, Leave, LeaveFails, daemon
    <3>2. QED BY <1>2, <2>1, <2>2, <2>5, <3>1, HoldsNoMore, StaysApart
  <2>6. QED BY <2>3, <2>4, <2>5
<1>3. QED BY <1>1, <1>2 DEF Next

\* However many runs share the daemon, whatever their phases end in and whatever fails, an
\* ended run leaves only the base image, what the daemon would not create, answer for or
\* remove in time, and the image another run of the commit was using: the finally clauses
\* of runtime.py and experiment.py reach everything else.
THEOREM LeftCorrect == Spec => []NothingElseLeft
<1>1. Init => LeftInv /\ ApartInv
  BY DEF Init, LeftInv, ApartInv, Shape, Named, Holds
<1>2. LeftInv /\ ApartInv => NothingElseLeft
  BY DEF LeftInv, ApartInv, NothingElseLeft, Attended, Holds, At
<1>3. QED BY <1>1, <1>2, LeftStep, ApartStep, PTL DEF Spec
-----------------------------------------------------------------------------
(***************************************************************************)
(* What a run has measured.                                                *)
(***************************************************************************)
\* The checks of a phase that did run said what its code does, and those whose container
\* did not start that the test failed.
Told(r, w, p, gone, checks) ==
  \A id \in DOMAIN checks :
    checks[id].outcome \in
      {"command_failed", IF checks[id].argv \in w.truth[p].passes /\ <<r, p, id>> \notin gone
                         THEN "passed" ELSE "test_failed"}

\* They are told by the commands of the run, which a remediation takes from its fixture.
Credible(r, w, p, gone, checks) ==
  /\ Told(r, w, p, gone, checks)
  /\ Kind[r] # "analysis" => \A id \in DOMAIN checks : checks[id].argv = Fixture

\* The n samples of a load test: the latencies may be disturbed.
Sampled(w, p, load, n) ==
  /\ load = [queries |-> load.queries, p95 |-> load.p95]
  /\ load.queries = Constant(w.truth[p].queries, n)
  /\ load.p95 \in Seq(Nat) /\ Len(load.p95) = n

\* What is observed of a phase that no exception ended.
Measured(w, p, o) ==
  /\ DOMAIN o.checks = ToSet(Checks)
  /\ w.loads \in {0, 1} /\ (o.load = None <=> w.loads = 0)
  /\ o.load # None => \E n \in 0..Repetitions : Sampled(w, p, o.load, n)

\* The workloads whose checks are among the first n.
Done(n) == {Checks[i] : i \in 1..n}

\* What the phase was entered with.
Entered(r) ==
  /\ Kind[r] # "analysis" => run[r].argv = Fixture
  /\ Phase(r) = "fix" => World.applies

\* What is measured of the current phase, by the place in it.
Underway(r) ==
  LET now == run[r].now IN
  /\ now = [checks |-> now.checks, load |-> now.load]
  /\ run[r].pc \in {"enter", "build"} => now = Fresh
  /\ run[r].pc = "sandbox" /\ run[r].kind = "check" =>
       /\ run[r].at \in 1..Len(Checks) /\ DOMAIN now.checks = Done(run[r].at - 1) /\ now.load = None
  /\ run[r].pc = "app" => DOMAIN now.checks = ToSet(Checks) /\ now.load = None /\ World.loads = 1
  /\ run[r].pc = "sandbox" /\ run[r].kind # "check" =>
       /\ run[r].at \in 0..Repetitions /\ DOMAIN now.checks = ToSet(Checks) /\ World.loads = 1
       /\ now.load # None
       /\ Sampled(World, Phase(r), now.load, IF run[r].at = 0 THEN 0 ELSE run[r].at - 1)
  /\ run[r].pc \in {"logs", "untag", "leave"} /\ run[r].stop = None =>
       Measured(World, Phase(r), now)
  /\ run[r].pc \notin {"enter", "ended"} /\ run[r].stop = None => Entered(r)

\* What was measured of the phases that are over.
Past(r) ==
  LET o == run[r].observed IN
  /\ o \in Seq(ToSet(o))
  /\ run[r].pc # "ended" => run[r].phase \in 1..Len(Phases(r)) /\ Len(o) = run[r].phase - 1
  /\ \A i \in DOMAIN o : Measured(World, Phases(r)[i], o[i])
  /\ run[r].stop \in {None, "raised", "timed_out", "rejected"}
  /\ run[r].pc \in {"enter", "build", "app", "sandbox"} => run[r].stop = None

Truthful(r) ==
  /\ run[r].pc # "ended" => Credible(r, World, Phase(r), unstarted, run[r].now.checks)
  /\ \A i \in DOMAIN run[r].observed :
       Credible(r, World, Phases(r)[i], unstarted, run[r].observed[i].checks)

\* A decided verdict is that of all phases.
Judged(r) ==
  LET o == run[r].observed IN
  run[r].pc = "ended" /\ run[r].verdict \in {"passed", "failed"} /\ run[r].stop = None =>
    /\ Len(o) = Len(Phases(r))
    /\ run[r].verdict = IF Kind[r] = "analysis" THEN Comparison(o[1], o[2])
                        ELSE FixStatus(o[1], o[2], o[3])
Applied(r) ==
  run[r].pc = "ended" /\ run[r].verdict = "passed" /\ Kind[r] # "analysis" =>
    run[r].stop = None /\ World.applies

Faithful(r) == Underway(r) /\ Past(r) /\ Truthful(r) /\ Judged(r) /\ Applied(r)
FaithfulInv == Shape /\ world \in DOMAIN Worlds /\ \A r \in Runs : Faithful(r)

LEMMA PhaseNames ==
  ASSUME NEW r \in Runs
  PROVE  /\ \A i \in 1..Len(Phases(r)) : Phases(r)[i] \in {"baseline", "candidate", "fix"}
         /\ Len(Phases(r)) = IF Kind[r] = "analysis" THEN 2 ELSE 3
         /\ \A i, j \in 1..Len(Phases(r)) : Phases(r)[i] = Phases(r)[j] => i = j
BY DEF Phases

LEMMA ConstantSamples ==
  ASSUME NEW n \in Nat, NEW x
  PROVE  Constant(x, n) \in Seq({x}) /\ Len(Constant(x, n)) = n
<1>1. Constant(x, n) \in Seq({x}) /\ DOMAIN Constant(x, n) = 1..n
  BY DEF Constant
<1>2. QED BY <1>1

\* Samples are never taken for the absence of a load test.
LEMMA SampledIsPresent ==
  ASSUME world \in DOMAIN Worlds, NEW p \in {"baseline", "candidate", "fix"}, NEW load, NEW n \in Nat,
         Sampled(World, p, load, n)
  PROVE  load # None
<1>1. World.truth[p].queries \in Nat
  BY MeasurementAssumption DEF World
<1>2. load.queries \in Seq(Nat)
  <2>1. load.queries = Constant(World.truth[p].queries, n)
    BY DEF Sampled
  <2>2. QED BY <1>1, <2>1 DEF Constant
<1>3. load \in [queries : Seq(Nat), p95 : Seq(Nat)]
  BY <1>2 DEF Sampled
<1>4. QED BY <1>3, MeasurementAssumption

-----------------------------------------------------------------------------
(***************************************************************************)
(* The steps, for what is measured.                                        *)
(***************************************************************************)
\* A step tells of no phase but the current one of its run which containers did not start.
OnlyHere(r) ==
  \A d, p, id : d # r \/ p # Phase(r) => (<<d, p, id>> \in unstarted' <=> <<d, p, id>> \in unstarted)

LEMMA AsTold ==
  ASSUME NEW r, NEW w, NEW p, NEW checks, NEW gone, NEW now,
         \A id : <<r, p, id>> \in now <=> <<r, p, id>> \in gone, Credible(r, w, p, gone, checks)
  PROVE  Credible(r, w, p, now, checks)
<1>1. Told(r, w, p, now, checks)
  BY DEF Credible, Told
<1>2. QED BY <1>1 DEF Credible

LEMMA FaithfulAside ==
  ASSUME NEW d \in Runs, Faithful(d), run'[d] = run[d], UNCHANGED world,
         \A p, id : <<d, p, id>> \in unstarted' <=> <<d, p, id>> \in unstarted
  PROVE  Faithful(d)'
<1>1. World' = World /\ Phase(d)' = Phase(d)
  BY DEF World, Phase
<1>2. \A p, checks : Credible(d, World, p, unstarted, checks) => Credible(d, World, p, unstarted', checks)
  BY AsTold
<1>4. Truthful(d)'
  BY <1>1, <1>2 DEF Faithful, Truthful
<1>3. QED BY <1>1, <1>4 DEF Faithful, Underway, Entered, Past, Judged, Applied

\* A step within a phase.
LEMMA WithinPhase ==
  ASSUME NEW r \in Runs, Faithful(r), UNCHANGED world, OnlyHere(r),
         run[r].pc # "ended", run'[r].pc \in {"build", "sandbox", "app", "logs", "untag", "leave"},
         run'[r].phase = run[r].phase, run'[r].observed = run[r].observed,
         run'[r].stop \in {None, "raised", "timed_out", "rejected"},
         run'[r].pc \in {"build", "app", "sandbox"} => run'[r].stop = None,
         Underway(r)',
         Credible(r, World, Phase(r), unstarted', run'[r].now.checks)
  PROVE  Faithful(r)'
<1>1. World' = World /\ Phase(r)' = Phase(r) /\ run'[r].pc # "ended" /\ run'[r].pc # "enter"
  BY DEF World, Phase
<1>2. Past(r)'
  BY <1>1 DEF Faithful, Past
<1>3. Truthful(r)'
  <2>1. \A i \in DOMAIN run[r].observed : i # run[r].phase /\ i \in 1..Len(Phases(r))
    <3>1. /\ run[r].observed \in Seq(ToSet(run[r].observed))
          /\ run[r].phase \in 1..Len(Phases(r)) /\ Len(run[r].observed) = run[r].phase - 1
      BY DEF Faithful, Past
    <3>2. Len(Phases(r)) \in Nat
      BY PhaseNames
    <3>3. QED BY <3>1, <3>2
  <2>2. \A i \in DOMAIN run[r].observed : Phases(r)[i] # Phase(r)
    <3>1. run[r].phase \in 1..Len(Phases(r))
      BY DEF Faithful, Past
    <3>2. QED BY <2>1, <3>1, PhaseNames DEF Phase
  <2>3. ASSUME NEW i \in DOMAIN run[r].observed
        PROVE  Credible(r, World, Phases(r)[i], unstarted', run[r].observed[i].checks)
    <3>1. Credible(r, World, Phases(r)[i], unstarted, run[r].observed[i].checks)
      BY DEF Faithful, Truthful
    <3>2. \A id : <<r, Phases(r)[i], id>> \in unstarted' <=> <<r, Phases(r)[i], id>> \in unstarted
      BY <2>2 DEF OnlyHere
    <3>3. QED BY <3>1, <3>2, AsTold
  <2>4. QED BY <1>1, <2>3 DEF Truthful
<1>4. Judged(r)' /\ Applied(r)'
  BY <1>1 DEF Judged, Applied
<1>5. QED BY <1>2, <1>3, <1>4 DEF Faithful

LEMMA Untold ==
  ASSUME NEW r, UNCHANGED unstarted
  PROVE  OnlyHere(r)
BY DEF OnlyHere

LEMMA NothingTold ==
  /\ \A r, w, p, gone : Credible(r, w, p, gone, Fresh.checks)
  /\ Fresh = [checks |-> Fresh.checks, load |-> Fresh.load]
BY DEF Credible, Told, Fresh

\* An exception.
LEMMA Raises ==
  ASSUME NEW r \in Runs, Shape, Faithful(r), UNCHANGED world, OnlyHere(r),
         run[r].pc # "ended", NEW label \in {"logs", "untag", "leave"}, Move(r, RaiseTo(label))
  PROVE  Faithful(r)'
<1>1. /\ run'[r].pc = label /\ run'[r].phase = run[r].phase /\ run'[r].observed = run[r].observed
      /\ run'[r].stop = "raised" /\ run'[r].now = Fresh
  BY Moved DEF Named, RaiseTo
<1>2. "raised" # None
  BY MeasurementAssumption
<1>3. Underway(r)'
  BY <1>1, <1>2, NothingTold DEF Underway
<1>4. QED BY <1>1, <1>3, NothingTold, WithinPhase

\* A step of a finally clause, which keeps what was measured.
LEMMA MovesOn ==
  ASSUME NEW r \in Runs, Shape, Faithful(r), UNCHANGED <<world, unstarted>>,
         run[r].pc \in {"logs", "untag"}, NEW label \in {"untag", "leave"}, Move(r, [pc |-> label])
  PROVE  Faithful(r)'
<1>1. /\ run'[r].pc = label /\ run'[r].phase = run[r].phase /\ run'[r].observed = run[r].observed
      /\ run'[r].stop = run[r].stop /\ run'[r].now = run[r].now /\ run'[r].argv = run[r].argv
  BY Moved DEF Named
<1>2. World' = World /\ Phase(r)' = Phase(r)
  BY <1>1 DEF World, Phase
<1>3. Underway(r)'
  BY <1>1, <1>2 DEF Faithful, Underway, Entered
<1>4. QED BY <1>1, <1>3, WithinPhase, Untold DEF Faithful, Past, Truthful

LEMMA EnterFaithful ==
  ASSUME NEW r \in Runs, Shape, Faithful(r), Enter(r)
  PROVE  Faithful(r)'
<1>1. At(r, "enter") /\ run[r].pc = "enter" /\ UNCHANGED world /\ OnlyHere(r)
  BY Untold DEF Enter, At, history
<1>2. run[r].now = Fresh /\ run[r].stop = None
  BY <1>1 DEF Faithful, Underway, Past
<1>3. CASE Move(r, RaiseTo("leave"))
  BY <1>1, <1>3, Raises
<1>4. ASSUME NEW stop \in {"raised", "timed_out", "rejected"}, Move(r, [pc |-> "leave", stop |-> stop])
      PROVE  Faithful(r)'
  <2>1. /\ run'[r].pc = "leave" /\ run'[r].phase = run[r].phase /\ run'[r].observed = run[r].observed
        /\ run'[r].stop = stop /\ run'[r].now = Fresh
    BY <1>2, <1>4, Moved DEF Named
  <2>2. stop # None
    BY MeasurementAssumption
  <2>3. Underway(r)'
    BY <2>1, <2>2, NothingTold DEF Underway
  <2>4. QED BY <1>1, <2>1, <2>3, NothingTold, WithinPhase
<1>5. ASSUME NEW argv, Move(r, [pc |-> "build", argv |-> argv]),
             Kind[r] # "analysis" => argv = Fixture, Phase(r) = "fix" => World.applies
      PROVE  Faithful(r)'
  <2>1. /\ run'[r].pc = "build" /\ run'[r].phase = run[r].phase /\ run'[r].observed = run[r].observed
        /\ run'[r].stop = None /\ run'[r].now = Fresh /\ run'[r].argv = argv
    BY <1>2, <1>5, Moved DEF Named
  <2>2. World' = World /\ Phase(r)' = Phase(r)
    BY <1>1, <2>1 DEF World, Phase
  <2>3. Underway(r)'
    BY <1>5, <2>1, <2>2, NothingTold DEF Underway, Entered
  <2>4. QED BY <1>1, <2>1, <2>3, NothingTold, WithinPhase
<1>6. QED BY <1>3, <1>4, <1>5 DEF Enter

\* What comes next of a phase, one by one.
LEMMA FromCases ==
  ASSUME NEW r, NEW n
  PROVE  \/ n <= Len(Checks) /\ From(r, n) = [pc |-> "sandbox", kind |-> "check", at |-> n]
         \/ From(r, n) = Unwind
         \/ ~(n <= Len(Checks)) /\ World.loads = 0 /\ From(r, n) = [pc |-> "untag"]
         \/ ~(n <= Len(Checks)) /\ World.loads = 1 /\ From(r, n) = [pc |-> "app"]
BY DEF From

\* The place a run comes to when its first n - 1 checks have run.
LEMMA ComesTo ==
  ASSUME NEW r \in Runs, Shape, Faithful(r), UNCHANGED world, OnlyHere(r),
         run[r].pc \in {"build", "sandbox"},
         NEW n \in 1..(Len(Checks) + 1), NEW now,
         now = [checks |-> now.checks, load |-> now.load],
         DOMAIN now.checks = Done(n - 1), now.load = None,
         Credible(r, World, Phase(r), unstarted', now.checks),
         run'[r].phase = run[r].phase, run'[r].observed = run[r].observed, run'[r].now = now,
         run'[r].argv = run[r].argv,
         \/ /\ n <= Len(Checks) /\ run'[r].pc = "sandbox" /\ run'[r].kind = "check"
            /\ run'[r].at = n /\ run'[r].stop = run[r].stop
         \/ run'[r].pc = "untag" /\ run'[r].stop = "raised"
         \/ /\ ~(n <= Len(Checks)) /\ World.loads = 0
            /\ run'[r].pc = "untag" /\ run'[r].stop = run[r].stop
         \/ /\ ~(n <= Len(Checks)) /\ World.loads = 1
            /\ run'[r].pc = "app" /\ run'[r].stop = run[r].stop
  PROVE  Faithful(r)'
<1>1. World' = World /\ Phase(r)' = Phase(r) /\ run[r].stop = None /\ Len(Checks) \in Nat
  BY MeasurementAssumption DEF World, Phase, Faithful, Past
<1>2. "raised" # None
  BY MeasurementAssumption
<1>3. ~(n <= Len(Checks)) => Done(n - 1) = ToSet(Checks)
  <2>1. ~(n <= Len(Checks)) => n - 1 = Len(Checks)
    BY <1>1
  <2>2. Done(Len(Checks)) = ToSet(Checks)
    BY MeasurementAssumption DEF Done, ToSet
  <2>3. QED BY <2>1, <2>2
<1>4. ~(n <= Len(Checks)) /\ World.loads = 0 => Measured(World, Phase(r), now)
  BY <1>3 DEF Measured
<1>5. Entered(r)'
  BY <1>1 DEF Faithful, Underway, Entered
<1>6. Underway(r)'
  BY <1>1, <1>2, <1>3, <1>4, <1>5 DEF Underway
<1>7. QED BY <1>1, <1>6, WithinPhase

LEMMA BuildFaithful ==
  ASSUME NEW r \in Runs, Shape, Faithful(r), Build(r)
  PROVE  Faithful(r)'
<1>1. run[r].pc = "build" /\ UNCHANGED world /\ OnlyHere(r) /\ Len(Checks) \in Nat
  BY MeasurementAssumption, Untold DEF Build, At
<1>2. run[r].now = Fresh
  BY <1>1 DEF Faithful, Underway
<1>3. CASE Move(r, RaiseTo("leave"))
  BY <1>1, <1>3, Raises
<1>4. CASE Move(r, From(r, 1))
  <2>1. CASE From(r, 1) = Unwind
    BY <1>1, <1>4, <2>1, Raises DEF Unwind
  <2>2. CASE From(r, 1) # Unwind
    <3>1. DOMAIN Fresh.checks = Done(1 - 1) /\ Fresh.load = None
      BY DEF Fresh, Done
    <3>2. PICK changes : changes = From(r, 1) /\ Move(r, changes)
      BY <1>4
    <3>3. /\ run'[r].phase = run[r].phase /\ run'[r].observed = run[r].observed /\ run'[r].now = Fresh
          /\ run'[r].stop = run[r].stop /\ run'[r].argv = run[r].argv
          /\ \/ 1 <= Len(Checks) /\ run'[r].pc = "sandbox" /\ run'[r].kind = "check" /\ run'[r].at = 1
             \/ ~(1 <= Len(Checks)) /\ World.loads = 0 /\ run'[r].pc = "untag"
             \/ ~(1 <= Len(Checks)) /\ World.loads = 1 /\ run'[r].pc = "app"
      BY <1>2, <2>2, <3>2, FromCases, Moved DEF Named
    <3>4. QED BY <1>1, <3>1, <3>3, NothingTold, ComesTo
  <2>3. QED BY <2>1, <2>2
<1>5. QED BY <1>3, <1>4 DEF Build

\* A move that sets what is measured.
LEMMA Merged ==
  ASSUME Shape, NEW r \in Runs, NEW now, NEW next, Move(r, [now |-> now] ++ next)
  PROVE  \A k \in Named : run'[r][k] = IF k = "now" THEN now
                                       ELSE IF k \in DOMAIN next THEN next[k] ELSE run[r][k]
<1> PICK changes : changes = [now |-> now] ++ next
  OBVIOUS
<1>1. DOMAIN changes = {"now"} \union DOMAIN next
  BY DEF ++
<1>2. \A k \in DOMAIN changes : changes[k] = IF k = "now" THEN now ELSE next[k]
  BY DEF ++
<1>3. \A k \in Named : run'[r][k] = IF k \in DOMAIN changes THEN changes[k] ELSE run[r][k]
  BY Moved
<1>4. QED BY <1>1, <1>2, <1>3

\* What a check says: what the code does, unless its container did not start.
LEMMA CheckTold ==
  ASSUME NEW r \in Runs, RunSandbox(r), run[r].kind = "check"
  PROVE  \E result : /\ RecordCheck(r, result)
                     /\ result.outcome \in
                          {"command_failed", IF run[r].argv \in Truth(r).passes /\ "start" \notin result.fault
                                             THEN "passed" ELSE "test_failed"}
<1>1. PICK result \in Results(r) : RecordCheck(r, result)
  BY DEF RunSandbox
<1>2. result.outcome \in
        {"command_failed", IF run[r].argv \in Truth(r).passes /\ "start" \notin result.fault
                           THEN "passed" ELSE "test_failed"}
  BY DEF Results, CheckResults, NotCreated, Result
<1>3. QED BY <1>1, <1>2

LEMMA CheckFaithful ==
  ASSUME NEW r \in Runs, Shape, Faithful(r), RunSandbox(r), run[r].kind = "check"
  PROVE  Faithful(r)'
<1>1. run[r].pc = "sandbox" /\ UNCHANGED world /\ Len(Checks) \in Nat
  BY MeasurementAssumption DEF RunSandbox, At
<1>2. /\ run[r].now = [checks |-> run[r].now.checks, load |-> run[r].now.load]
      /\ run[r].at \in 1..Len(Checks) /\ DOMAIN run[r].now.checks = Done(run[r].at - 1)
      /\ run[r].now.load = None
  BY <1>1 DEF Faithful, Underway
<1>3. /\ Credible(r, World, Phase(r), unstarted, run[r].now.checks)
      /\ Kind[r] # "analysis" => run[r].argv = Fixture
  BY <1>1 DEF Faithful, Truthful, Underway, Entered, Past
<1>4. PICK result :
        /\ RecordCheck(r, result)
        /\ result.outcome \in
             {"command_failed", IF run[r].argv \in Truth(r).passes /\ "start" \notin result.fault
                                THEN "passed" ELSE "test_failed"}
  BY CheckTold
<1> PICK id : id = Checks[run[r].at]
  OBVIOUS
<1> PICK check : check = [outcome |-> result.outcome, argv |-> run[r].argv]
  OBVIOUS
<1> PICK checks : checks = [w \in {id} |-> check] ++ run[r].now.checks
  OBVIOUS
<1> PICK now : now = [checks |-> checks, load |-> None]
  OBVIOUS
<1> PICK n : n = run[r].at + 1
  OBVIOUS
<1>5. Move(r, [now |-> now] ++ From(r, n))
  <2>1. [run[r].now EXCEPT !.checks = [w \in {id} |-> check] ++ @] = now
    BY <1>2
  <2>2. QED BY <1>4, <2>1 DEF RecordCheck
<1>6. /\ DOMAIN checks = {id} \union DOMAIN run[r].now.checks
      /\ \A w \in DOMAIN checks : checks[w] = IF w = id THEN check ELSE run[r].now.checks[w]
  BY DEF ++
<1>7. n \in 1..(Len(Checks) + 1) /\ n - 1 = run[r].at
  BY <1>1, <1>2
<1>8. DOMAIN checks = Done(n - 1)
  <2>1. \A i : i \in 1..run[r].at <=> i \in 1..(run[r].at - 1) \/ i = run[r].at
    BY <1>1, <1>2
  <2>2. Done(run[r].at) = Done(run[r].at - 1) \union {id}
    BY <2>1 DEF Done
  <2>3. QED BY <1>2, <1>6, <1>7, <2>2
<1>16. /\ OnlyHere(r)
       /\ <<r, Phase(r), id>> \in unstarted' <=> "start" \in result.fault
       /\ \A w : w # id => (<<r, Phase(r), w>> \in unstarted' <=> <<r, Phase(r), w>> \in unstarted)
  <2>1. unstarted' = (unstarted \ {<<r, Phase(r), id>>})
                      \union {c \in {<<r, Phase(r), id>>} : "start" \in result.fault}
    BY <1>4 DEF RecordCheck
  <2>2. QED BY <2>1 DEF OnlyHere
<1>9. Credible(r, World, Phase(r), unstarted', checks)
  <2>1. Told(r, World, Phase(r), unstarted', checks)
    <3> SUFFICES ASSUME NEW w \in DOMAIN checks
                 PROVE  checks[w].outcome \in
                          {"command_failed",
                           IF checks[w].argv \in World.truth[Phase(r)].passes /\ <<r, Phase(r), w>> \notin unstarted'
                           THEN "passed" ELSE "test_failed"}
      BY DEF Told
    <3>1. CASE w = id
      BY <1>4, <1>6, <1>16, <3>1 DEF Truth
    <3>2. CASE w # id
      BY <1>3, <1>6, <1>16, <3>2 DEF Credible, Told
    <3>3. QED BY <3>1, <3>2
  <2>2. QED BY <1>3, <1>6, <2>1 DEF Credible
<1>10. now = [checks |-> now.checks, load |-> now.load] /\ now.checks = checks /\ now.load = None
  OBVIOUS
<1>11. \A k \in Named : run'[r][k] = IF k = "now" THEN now
                                     ELSE IF k \in DOMAIN From(r, n) THEN From(r, n)[k] ELSE run[r][k]
  BY <1>5, Merged
<1> PICK next : next = From(r, n)
  OBVIOUS
<1>12. /\ run'[r].now = now
       /\ run'[r].phase = IF "phase" \in DOMAIN next THEN next["phase"] ELSE run[r].phase
       /\ run'[r].observed = IF "observed" \in DOMAIN next THEN next["observed"] ELSE run[r].observed
       /\ run'[r].pc = IF "pc" \in DOMAIN next THEN next["pc"] ELSE run[r].pc
       /\ run'[r].stop = IF "stop" \in DOMAIN next THEN next["stop"] ELSE run[r].stop
       /\ run'[r].kind = IF "kind" \in DOMAIN next THEN next["kind"] ELSE run[r].kind
       /\ run'[r].at = IF "at" \in DOMAIN next THEN next["at"] ELSE run[r].at
       /\ run'[r].argv = IF "argv" \in DOMAIN next THEN next["argv"] ELSE run[r].argv
  BY <1>11 DEF Named
<1>13. \/ n <= Len(Checks) /\ next = [pc |-> "sandbox", kind |-> "check", at |-> n]
       \/ next = [pc |-> "untag", stop |-> "raised", now |-> Fresh]
       \/ ~(n <= Len(Checks)) /\ World.loads = 0 /\ next = [pc |-> "untag"]
       \/ ~(n <= Len(Checks)) /\ World.loads = 1 /\ next = [pc |-> "app"]
  BY FromCases DEF Unwind, RaiseTo
<1>14. /\ run'[r].phase = run[r].phase /\ run'[r].observed = run[r].observed /\ run'[r].now = now
       /\ run'[r].argv = run[r].argv
       /\ \/ /\ n <= Len(Checks) /\ run'[r].pc = "sandbox" /\ run'[r].kind = "check"
             /\ run'[r].at = n /\ run'[r].stop = run[r].stop
          \/ run'[r].pc = "untag" /\ run'[r].stop = "raised"
          \/ /\ ~(n <= Len(Checks)) /\ World.loads = 0
             /\ run'[r].pc = "untag" /\ run'[r].stop = run[r].stop
          \/ /\ ~(n <= Len(Checks)) /\ World.loads = 1
             /\ run'[r].pc = "app" /\ run'[r].stop = run[r].stop
  BY <1>12, <1>13
<1>15. QED BY <1>1, <1>7, <1>8, <1>9, <1>10, <1>14, <1>16, ComesTo

\* The samples of one attempt more.
LEMMA SampledMore ==
  ASSUME NEW w, NEW p, NEW load, NEW m \in Nat, Sampled(w, p, load, m), NEW y \in Nat, NEW more,
         more = [queries |-> Append(load.queries, w.truth[p].queries), p95 |-> Append(load.p95, y)]
  PROVE  Sampled(w, p, more, m + 1)
<1> PICK x : x = w.truth[p].queries
  OBVIOUS
<1>1. Append(Constant(x, m), x) = Constant(x, m + 1)
  <2>1. Constant(x, m) \in Seq({x}) /\ Len(Constant(x, m)) = m
    BY ConstantSamples
  <2>2. QED BY <2>1 DEF Constant
<1>2. more.queries = Constant(x, m + 1)
  BY <1>1 DEF Sampled
<1>3. more.p95 \in Seq(Nat) /\ Len(more.p95) = m + 1
  BY DEF Sampled
<1>4. QED BY <1>2, <1>3 DEF Sampled

\* What k6 reports of an attempt is a latency.
LEMMA AttemptTold ==
  ASSUME NEW r \in Runs, world \in DOMAIN Worlds, Phase(r) \in {"baseline", "candidate", "fix"},
         RunSandbox(r), run[r].kind # "check"
  PROVE  \E result :
           /\ RecordAttempt(r, result)
           /\ result.outcome = "passed" => result.p95 \in Nat
           /\ result.outcome \in {"passed", "failed", "malformed", "command_failed"}
<1>1. PICK result \in Results(r) : RecordAttempt(r, result)
  BY DEF RunSandbox
<1>2. Truth(r).p95 \in Nat
  BY MeasurementAssumption DEF Truth, World
<1>3. Truth(r).p95 * Disturbance \in Nat
  BY <1>2, MeasurementAssumption
<1>4. \/ result.outcome \in {"failed", "malformed", "command_failed"}
      \/ result.outcome = "passed" /\ result.p95 \in {Truth(r).p95, Truth(r).p95 * Disturbance}
  BY DEF Results, K6Results, Disturbed, NotCreated, Result
<1>5. QED BY <1>1, <1>2, <1>3, <1>4

LEMMA Loaded ==
  ASSUME NEW checks, NEW load, NEW kept
  PROVE  [[checks |-> checks, load |-> load] EXCEPT !.load = kept] = [checks |-> checks, load |-> kept]
OBVIOUS

LEMMA AttemptFaithful ==
  ASSUME NEW r \in Runs, Shape, world \in DOMAIN Worlds, Faithful(r), RunSandbox(r), run[r].kind # "check"
  PROVE  Faithful(r)'
<1> PICK load : load = run[r].now.load
  OBVIOUS
<1> PICK checks : checks = run[r].now.checks
  OBVIOUS
<1> PICK m : m = IF run[r].at = 0 THEN 0 ELSE run[r].at - 1
  OBVIOUS
<1>1. /\ run[r].pc = "sandbox" /\ UNCHANGED world
      /\ Repetitions \in Nat \ {0}
  BY VerdictAssumption DEF RunSandbox, At
<1>2. /\ run[r].now = [checks |-> checks, load |-> load]
      /\ run[r].at \in 0..Repetitions /\ DOMAIN checks = ToSet(Checks) /\ World.loads = 1
      /\ load # None /\ Sampled(World, Phase(r), load, m)
  BY <1>1 DEF Faithful, Underway
<1>3. /\ Credible(r, World, Phase(r), unstarted, checks)
      /\ run[r].stop = None
      /\ run[r].phase \in 1..Len(Phases(r)) /\ Entered(r)
  BY <1>1 DEF Faithful, Truthful, Past, Underway
<1>4. m \in 0..Repetitions /\ Phase(r) \in {"baseline", "candidate", "fix"}
  BY <1>1, <1>2, <1>3, PhaseNames DEF Phase
<1>5. PICK result :
        /\ RecordAttempt(r, result)
        /\ result.outcome = "passed" => result.p95 \in Nat
        /\ result.outcome \in {"passed", "failed", "malformed", "command_failed"}
  BY <1>4, AttemptTold
<1>10. UNCHANGED unstarted /\ OnlyHere(r)
  BY <1>5, Untold DEF RecordAttempt
<1>6. CASE result.outcome \in {"failed", "command_failed"}
  <2>1. Move(r, [pc |-> "logs"])
    BY <1>5, <1>6 DEF RecordAttempt
  <2>2. /\ run'[r].pc = "logs" /\ run'[r].phase = run[r].phase /\ run'[r].observed = run[r].observed
        /\ run'[r].stop = run[r].stop /\ run'[r].now = run[r].now /\ run'[r].argv = run[r].argv
    BY <2>1, Moved DEF Named
  <2>3. World' = World /\ Phase(r)' = Phase(r)
    BY <1>1, <2>2 DEF World, Phase
  <2>4. Measured(World, Phase(r), run[r].now)
    BY <1>2, <1>4 DEF Measured
  <2>5. Underway(r)'
    BY <1>2, <1>3, <2>2, <2>3, <2>4 DEF Underway, Entered
  <2>6. QED BY <1>1, <1>2, <1>3, <1>10, <2>2, <2>5, WithinPhase
<1>7. CASE result.outcome = "malformed"
  <2>1. Move(r, RaiseTo("logs"))
    BY <1>5, <1>7 DEF RecordAttempt, UnwindToApp
  <2>2. QED BY <1>1, <1>10, <2>1, Raises
<1>8. CASE result.outcome = "passed"
  <2>1. PICK more : more = [queries |-> Append(load.queries, Truth(r).queries),
                            p95 |-> Append(load.p95, result.p95)]
    OBVIOUS
  <2>2. PICK kept : kept = IF run[r].at = 0 THEN load ELSE more
    OBVIOUS
  <2>3. PICK now : now = [checks |-> checks, load |-> kept]
    OBVIOUS
  <2>4. PICK next : next = IF run[r].at = Repetitions THEN [pc |-> "logs"]
                           ELSE [pc |-> "sandbox", at |-> run[r].at + 1]
    BY Zenon
  <2>5. Move(r, [now |-> now] ++ next)
    <3>1. [run[r].now EXCEPT !.load = kept] = now
      BY <1>2, <2>3, Loaded
    <3>2. QED BY <1>5, <1>8, <2>1, <2>2, <2>4, <3>1 DEF RecordAttempt
  <2>6. Sampled(World, Phase(r), kept, run[r].at)
    <3>1. CASE run[r].at = 0
      BY <1>2, <2>2, <3>1
    <3>2. CASE run[r].at # 0
      <4>1. m \in Nat /\ m + 1 = run[r].at
        BY <1>1, <1>2, <3>2
      <4>2. result.p95 \in Nat
        BY <1>5, <1>8
      <4>3. more = [queries |-> Append(load.queries, World.truth[Phase(r)].queries),
                    p95 |-> Append(load.p95, result.p95)]
        BY <2>1 DEF Truth
      <4>4. Sampled(World, Phase(r), more, m + 1)
        BY <1>2, <4>1, <4>2, <4>3, SampledMore
      <4>5. QED BY <2>2, <3>2, <4>1, <4>4
    <3>3. QED BY <3>1, <3>2
  <2>7. run[r].at \in Nat
    BY <1>1, <1>2
  <2>8. kept # None
    BY <1>4, <2>6, <2>7, SampledIsPresent
  <2>9. /\ run'[r].now = now /\ run'[r].kind = run[r].kind /\ run'[r].stop = None
        /\ run'[r].argv = run[r].argv
        /\ run'[r].phase = run[r].phase /\ run'[r].observed = run[r].observed
        /\ \/ run[r].at = Repetitions /\ run'[r].pc = "logs"
           \/ run[r].at # Repetitions /\ run'[r].pc = "sandbox" /\ run'[r].at = run[r].at + 1
    <3>1. \A k \in Named : run'[r][k] = IF k = "now" THEN now
                                        ELSE IF k \in DOMAIN next THEN next[k] ELSE run[r][k]
      BY <2>5, Merged
    <3>2. CASE run[r].at = Repetitions
      BY <1>3, <2>4, <3>1, <3>2 DEF Named
    <3>3. CASE run[r].at # Repetitions
      BY <1>3, <2>4, <3>1, <3>3 DEF Named
    <3>4. QED BY <3>2, <3>3
  <2>10. World' = World /\ Phase(r)' = Phase(r)
    BY <1>1, <2>9 DEF World, Phase
  <2>11. now.checks = checks /\ now.load = kept /\ now = [checks |-> now.checks, load |-> now.load]
    BY <2>3
  <2>12. Measured(World, Phase(r), now)
    BY <1>2, <2>6, <2>8, <2>11 DEF Measured
  <2>13. Entered(r)'
    BY <1>3, <2>9, <2>10 DEF Entered
  <2>14. Underway(r)'
    <3>1. CASE run[r].at = Repetitions
      BY <2>9, <2>10, <2>11, <2>12, <2>13, <3>1 DEF Underway
    <3>2. CASE run[r].at # Repetitions
      <4>1. run[r].at \in 0..Repetitions /\ run'[r].at = run[r].at + 1
        BY <1>2, <2>9, <3>2
      <4>2. /\ run'[r].at \in 0..Repetitions /\ run'[r].at # 0 /\ run'[r].at - 1 = run[r].at
        BY <1>1, <3>2, <4>1
      <4>3. QED BY <1>2, <2>6, <2>8, <2>9, <2>10, <2>11, <2>13, <3>2, <4>2 DEF Underway
    <3>3. QED BY <3>1, <3>2
  <2>15. QED BY <1>1, <1>2, <1>3, <1>10, <2>9, <2>11, <2>14, WithinPhase
<1>9. QED BY <1>5, <1>6, <1>7, <1>8

LEMMA StartFaithful ==
  ASSUME NEW r \in Runs, Shape, world \in DOMAIN Worlds, Faithful(r), StartApp(r)
  PROVE  Faithful(r)'
<1>1. /\ run[r].pc = "app" /\ UNCHANGED <<world, unstarted>> /\ OnlyHere(r) /\ Repetitions \in Nat
  BY VerdictAssumption, Untold DEF StartApp, At
<1>2. /\ run[r].now = [checks |-> run[r].now.checks, load |-> run[r].now.load]
      /\ DOMAIN run[r].now.checks = ToSet(Checks) /\ World.loads = 1
  BY <1>1 DEF Faithful, Underway
<1>3. /\ Credible(r, World, Phase(r), unstarted, run[r].now.checks)
      /\ run[r].stop = None
      /\ run[r].phase \in 1..Len(Phases(r)) /\ Entered(r)
  BY <1>1 DEF Faithful, Truthful, Past, Underway
<1>4. Phase(r) \in {"baseline", "candidate", "fix"}
  BY <1>3, PhaseNames DEF Phase
<1>5. CASE Move(r, Unwind)
  BY <1>1, <1>5, Raises DEF Unwind
<1>6. CASE Move(r, [pc |-> "sandbox", kind |-> "k6", at |-> 0,
                    now |-> [run[r].now EXCEPT !.load = NoSamples]])
  <2>1. Sampled(World, Phase(r), NoSamples, 0) /\ NoSamples # None
    <3>1. Sampled(World, Phase(r), NoSamples, 0)
      BY DEF Sampled, NoSamples, Constant
    <3>2. QED BY <1>4, <3>1, SampledIsPresent
  <2> PICK now : now = [checks |-> run[r].now.checks, load |-> NoSamples]
    OBVIOUS
  <2>2. [run[r].now EXCEPT !.load = NoSamples] = now
    BY <1>2
  <2>3. /\ run'[r].pc = "sandbox" /\ run'[r].kind = "k6" /\ run'[r].at = 0 /\ run'[r].now = now
        /\ run'[r].phase = run[r].phase /\ run'[r].observed = run[r].observed /\ run'[r].stop = None
        /\ run'[r].argv = run[r].argv
    BY <1>3, <1>6, <2>2, Moved DEF Named
  <2>4. World' = World /\ Phase(r)' = Phase(r)
    BY <1>1, <2>3 DEF World, Phase
  <2>5. /\ now.checks = run[r].now.checks /\ now.load = NoSamples
        /\ now = [checks |-> now.checks, load |-> now.load]
    OBVIOUS
  <2>6. Entered(r)'
    BY <1>3, <2>3, <2>4 DEF Entered
  <2>7. Underway(r)'
    BY <1>1, <1>2, <2>1, <2>3, <2>4, <2>5, <2>6 DEF Underway
  <2>8. QED BY <1>1, <1>3, <2>3, <2>5, <2>7, WithinPhase
<1>7. QED BY <1>5, <1>6 DEF StartApp

-----------------------------------------------------------------------------
(***************************************************************************)
(* The end of a phase.                                                     *)
(***************************************************************************)
\* What is known of the phases o when a phase is left.
Known(r, o) ==
  /\ o \in Seq(ToSet(o))
  /\ \A i \in DOMAIN o : Measured(World, Phases(r)[i], o[i])
  /\ \A i \in DOMAIN o : Credible(r, World, Phases(r)[i], unstarted, o[i].checks)

\* A run that ends keeps all phases if its verdict is decided.
LEMMA Ends ==
  ASSUME NEW r \in Runs, Faithful(r), UNCHANGED <<world, unstarted>>, NEW o, Known(r, o),
         run'[r].pc = "ended", run'[r].observed = o, run'[r].stop = run[r].stop, run'[r].now = Fresh,
         run'[r].verdict \in {"passed", "failed"} /\ run[r].stop = None =>
           /\ Len(o) = Len(Phases(r))
           /\ run'[r].verdict = IF Kind[r] = "analysis" THEN Comparison(o[1], o[2])
                                ELSE FixStatus(o[1], o[2], o[3]),
         run'[r].verdict = "passed" /\ Kind[r] # "analysis" => run[r].stop = None /\ World.applies
  PROVE  Faithful(r)'
<1>1. World' = World /\ Phases(r)' = Phases(r)
  BY DEF World, Phases
<1>2. Underway(r)'
  BY NothingTold DEF Underway
<1>3. Past(r)'
  BY <1>1 DEF Past, Known, Faithful
<1>4. Truthful(r)'
  BY <1>1 DEF Truthful, Known
<1>5. Judged(r)' /\ Applied(r)'
  BY <1>1 DEF Judged, Applied
<1>6. QED BY <1>2, <1>3, <1>4, <1>5 DEF Faithful

LEMMA NothingKnown ==
  ASSUME NEW r
  PROVE  Known(r, <<>>)
BY DEF Known

\* A run that goes on to its next phase.
LEMMA GoesOn ==
  ASSUME NEW r \in Runs, Faithful(r), UNCHANGED <<world, unstarted>>, NEW o, Known(r, o),
         run[r].stop = None, run[r].phase \in 1..(Len(Phases(r)) - 1), Len(o) = run[r].phase,
         run'[r].pc = "enter", run'[r].phase = run[r].phase + 1, run'[r].observed = o,
         run'[r].stop = run[r].stop, run'[r].now = Fresh
  PROVE  Faithful(r)'
<1>1. World' = World /\ Phases(r)' = Phases(r) /\ Len(Phases(r)) \in Nat
  BY PhaseNames DEF World, Phases
<1>2. Underway(r)'
  BY NothingTold DEF Underway
<1>3. run'[r].phase \in 1..Len(Phases(r))' /\ Len(run'[r].observed) = run'[r].phase - 1
  BY <1>1
<1>4. Past(r)'
  BY <1>1, <1>3 DEF Past, Known
<1>5. Truthful(r)'
  BY <1>1, NothingTold DEF Truthful, Known
<1>6. Judged(r)' /\ Applied(r)'
  BY DEF Judged, Applied
<1>7. QED BY <1>2, <1>4, <1>5, <1>6 DEF Faithful

\* The places at the end of a phase, one by one.
LEMMA EndMoves ==
  ASSUME Shape, NEW r \in Runs
  PROVE  /\ \A verdict : Move(r, Ended(verdict)) =>
              /\ run'[r].pc = "ended" /\ run'[r].verdict = verdict /\ run'[r].observed = <<>>
              /\ run'[r].now = Fresh /\ run'[r].stop = run[r].stop
         /\ \A o : Move(r, NextPhase(r, o)) =>
              /\ run'[r].pc = "enter" /\ run'[r].phase = run[r].phase + 1 /\ run'[r].observed = o
              /\ run'[r].now = Fresh /\ run'[r].stop = run[r].stop
         /\ \A verdict, o :
              \/ Move(r, [observed |-> o] ++ Ended(verdict))
              \/ \E finding : Move(r, [finding |-> finding, observed |-> o] ++ Ended(verdict))
              => /\ run'[r].pc = "ended" /\ run'[r].verdict = verdict /\ run'[r].observed = o
                 /\ run'[r].now = Fresh /\ run'[r].stop = run[r].stop
<1>1. DOMAIN Idle = {"argv", "kind", "at", "now"} /\ Idle["now"] = Fresh
  BY DEF Idle
<1>2. \A verdict :
        /\ DOMAIN Ended(verdict) = {"pc", "verdict", "observed", "argv", "kind", "at", "now"}
        /\ Ended(verdict)["pc"] = "ended" /\ Ended(verdict)["verdict"] = verdict
        /\ Ended(verdict)["observed"] = <<>> /\ Ended(verdict)["now"] = Fresh
  BY <1>1 DEF Ended, ++
<1>3. \A o : /\ DOMAIN NextPhase(r, o) = {"pc", "phase", "observed", "argv", "kind", "at", "now"}
             /\ NextPhase(r, o)["pc"] = "enter" /\ NextPhase(r, o)["phase"] = run[r].phase + 1
             /\ NextPhase(r, o)["observed"] = o /\ NextPhase(r, o)["now"] = Fresh
  BY <1>1 DEF NextPhase, ++
<1>4. ASSUME NEW verdict, NEW o, NEW f, NEW changes,
             DOMAIN f \subseteq {"finding", "observed"}, "observed" \in DOMAIN f, f["observed"] = o,
             changes = f ++ Ended(verdict)
      PROVE  /\ {"pc", "verdict", "observed", "now"} \subseteq DOMAIN changes /\ "stop" \notin DOMAIN changes
             /\ changes["pc"] = "ended" /\ changes["verdict"] = verdict /\ changes["now"] = Fresh
             /\ changes["observed"] = o
  <2>1. PICK e : e = Ended(verdict)
    OBVIOUS
  <2>2. /\ DOMAIN changes = DOMAIN f \union DOMAIN e
        /\ \A k \in DOMAIN f \union DOMAIN e : changes[k] = IF k \in DOMAIN f THEN f[k] ELSE e[k]
    <3>1. changes = f ++ e
      BY <1>4, <2>1
    <3>2. QED BY <3>1 DEF ++
  <2>3. /\ DOMAIN e = {"pc", "verdict", "observed", "argv", "kind", "at", "now"}
        /\ e["pc"] = "ended" /\ e["verdict"] = verdict /\ e["now"] = Fresh
    BY <1>2, <2>1
  <2>4. QED BY <1>4, <2>2, <2>3
<1>5. ASSUME NEW verdict, Move(r, Ended(verdict))
      PROVE  /\ run'[r].pc = "ended" /\ run'[r].verdict = verdict /\ run'[r].observed = <<>>
             /\ run'[r].now = Fresh /\ run'[r].stop = run[r].stop
  BY <1>2, <1>5, Moved DEF Named
<1>6. ASSUME NEW o, Move(r, NextPhase(r, o))
      PROVE  /\ run'[r].pc = "enter" /\ run'[r].phase = run[r].phase + 1 /\ run'[r].observed = o
             /\ run'[r].now = Fresh /\ run'[r].stop = run[r].stop
  BY <1>3, <1>6, Moved DEF Named
<1>7. ASSUME NEW verdict, NEW o,
             \/ Move(r, [observed |-> o] ++ Ended(verdict))
             \/ \E finding : Move(r, [finding |-> finding, observed |-> o] ++ Ended(verdict))
      PROVE  /\ run'[r].pc = "ended" /\ run'[r].verdict = verdict /\ run'[r].observed = o
             /\ run'[r].now = Fresh /\ run'[r].stop = run[r].stop
  <2>1. PICK f : /\ DOMAIN f \subseteq {"finding", "observed"} /\ "observed" \in DOMAIN f
                 /\ f["observed"] = o /\ Move(r, f ++ Ended(verdict))
    <3>1. CASE Move(r, [observed |-> o] ++ Ended(verdict))
      <4>1. PICK f : f = [observed |-> o]
        OBVIOUS
      <4>2. DOMAIN f = {"observed"} /\ f["observed"] = o
        BY <4>1
      <4>3. QED BY <3>1, <4>1, <4>2
    <3>2. ASSUME NEW finding, Move(r, [finding |-> finding, observed |-> o] ++ Ended(verdict))
          PROVE  \E f : /\ DOMAIN f \subseteq {"finding", "observed"} /\ "observed" \in DOMAIN f
                        /\ f["observed"] = o /\ Move(r, f ++ Ended(verdict))
      <4>1. PICK f : f = [finding |-> finding, observed |-> o]
        OBVIOUS
      <4>2. DOMAIN f = {"finding", "observed"} /\ f["observed"] = o
        BY <4>1
      <4>3. QED BY <3>2, <4>1, <4>2
    <3>3. QED BY <1>7, <3>1, <3>2
  <2> PICK changes : changes = f ++ Ended(verdict)
    OBVIOUS
  <2>2. /\ {"pc", "verdict", "observed", "now"} \subseteq DOMAIN changes /\ "stop" \notin DOMAIN changes
        /\ changes["pc"] = "ended" /\ changes["verdict"] = verdict /\ changes["now"] = Fresh
        /\ changes["observed"] = o
    BY <1>4, <2>1
  <2>3. QED BY <2>1, <2>2, Moved DEF Named
<1>8. QED BY <1>5, <1>6, <1>7

LEMMA Contained ==
  ASSUME NEW S, NEW s \in Seq(S)
  PROVE  s \in Seq(ToSet(s))
<1>1. Len(s) \in Nat /\ s = [i \in 1..Len(s) |-> s[i]]
  OBVIOUS
<1>2. \A i \in 1..Len(s) : s[i] \in ToSet(s)
  BY <1>1 DEF ToSet
<1>3. QED BY <1>1, <1>2

\* What is known when a phase is left without an exception, and with one.
LEMMA KnownAtTheEnd ==
  ASSUME NEW r \in Runs, Faithful(r), At(r, "leave"), NEW o,
         o = IF run[r].stop = None THEN Append(run[r].observed, run[r].now) ELSE run[r].observed
  PROVE  /\ Known(r, o)
         /\ run[r].stop = None => Len(o) = run[r].phase
<1> PICK observed : observed = run[r].observed
  OBVIOUS
<1> PICK now : now = run[r].now
  OBVIOUS
<1>1. /\ observed \in Seq(ToSet(observed)) /\ Len(observed) = run[r].phase - 1
      /\ run[r].phase \in 1..Len(Phases(r)) /\ Len(Phases(r)) \in Nat
      /\ \A i \in DOMAIN observed : Measured(World, Phases(r)[i], observed[i])
  BY PhaseNames DEF Faithful, Past, At
<1>2. /\ run[r].stop = None => Measured(World, Phase(r), now)
      /\ Credible(r, World, Phase(r), unstarted, now.checks)
      /\ \A i \in DOMAIN observed : Credible(r, World, Phases(r)[i], unstarted, observed[i].checks)
  BY DEF Faithful, Underway, Truthful, At
<1>3. CASE run[r].stop # None
  BY <1>1, <1>2, <1>3 DEF Known
<1>4. CASE run[r].stop = None
  <2>1. o = Append(observed, now)
    BY <1>4
  <2>2. /\ DOMAIN o = 1..run[r].phase /\ Len(o) = run[r].phase
        /\ \A i \in 1..(run[r].phase - 1) : i \in DOMAIN observed /\ o[i] = observed[i]
        /\ o[run[r].phase] = now
    BY <1>1, <2>1
  <2>3. o \in Seq(ToSet(o))
    <3>1. o \in Seq(ToSet(observed) \union {now})
      BY <1>1, <2>1
    <3>2. QED BY <3>1, Contained
  <2>4. Phase(r) = Phases(r)[run[r].phase]
    BY DEF Phase
  <2>5. \A i \in DOMAIN o : i \in 1..(run[r].phase - 1) \/ i = run[r].phase
    BY <1>1, <2>2
  <2>6. \A i \in DOMAIN o : Measured(World, Phases(r)[i], o[i])
    BY <1>1, <1>2, <1>4, <2>2, <2>4, <2>5
  <2>7. \A i \in DOMAIN o : Credible(r, World, Phases(r)[i], unstarted, o[i].checks)
    BY <1>2, <2>2, <2>4, <2>5
  <2>8. QED BY <2>2, <2>3, <2>6, <2>7 DEF Known
<1>5. QED BY <1>3, <1>4

LEMMA ConcludedFaithful ==
  ASSUME NEW r \in Runs, Shape, Faithful(r), At(r, "leave"), UNCHANGED <<world, unstarted>>,
         Move(r, Concluded(r))
  PROVE  Faithful(r)'
<1>1. PICK o : /\ o = IF run[r].stop = None THEN Append(run[r].observed, run[r].now) ELSE run[r].observed
               /\ Move(r, IF Kind[r] = "analysis" THEN Analysed(r, o) ELSE Remediated(r, o))
  BY DEF Concluded
<1>2. UNCHANGED <<world, unstarted>> /\ At(r, "leave") /\ run[r].pc = "leave"
  BY DEF At
<1>3. Known(r, o) /\ (run[r].stop = None => Len(o) = run[r].phase)
  BY <1>1, <1>2, KnownAtTheEnd
<1>4. /\ run[r].stop \in {None, "raised", "timed_out", "rejected"}
      /\ run[r].phase \in 1..Len(Phases(r))
      /\ None \notin {"raised", "timed_out", "rejected"}
  BY <1>2, MeasurementAssumption DEF Faithful, Past
<1>5. ASSUME NEW verdict, Move(r, Ended(verdict)),
             verdict # "passed", verdict = "failed" => run[r].stop # None
      PROVE  Faithful(r)'
  BY <1>2, <1>5, EndMoves, NothingKnown, Ends
<1>6. CASE Kind[r] = "analysis"
  <2>1. Phases(r) = <<"baseline", "candidate">> /\ Len(Phases(r)) = 2 /\ Move(r, Analysed(r, o))
    BY <1>1, <1>6 DEF Phases
  <2>2. CASE run[r].stop # None
    <3>1. Move(r, Ended("error"))
      BY <2>1, <2>2 DEF Analysed
    <3>2. QED BY <1>5, <3>1
  <2>3. CASE run[r].stop = None /\ Phase(r) = "baseline"
    <3>1. run[r].phase \in 1..(Len(Phases(r)) - 1)
      BY <1>4, <2>1, <2>3 DEF Phase
    <3>2. CASE PhaseStatus(run[r].now) = "passed"
      <4>1. Move(r, NextPhase(r, o))
        BY <2>1, <2>3, <3>2 DEF Analysed
      <4>2. QED BY <1>2, <1>3, <2>3, <3>1, <4>1, EndMoves, GoesOn
    <3>3. CASE PhaseStatus(run[r].now) # "passed"
      <4>1. Move(r, Ended("unmeasured"))
        BY <2>1, <2>3, <3>3 DEF Analysed
      <4>2. QED BY <1>5, <4>1
    <3>4. QED BY <3>2, <3>3
  <2>4. CASE run[r].stop = None /\ Phase(r) # "baseline"
    <3>1. run[r].phase \in 1..2 /\ run[r].phase # 1
      BY <1>4, <2>1, <2>4 DEF Phase
    <3>2. run[r].phase = 2
      BY <3>1
    <3>3. Len(o) = Len(Phases(r))
      BY <1>3, <2>1, <2>4, <3>2
    <3>4. Move(r, [finding |-> Finding(o[1], o[2]), observed |-> o] ++ Ended(Comparison(o[1], o[2])))
      BY <2>1, <2>4 DEF Analysed
    <3>5. /\ run'[r].pc = "ended" /\ run'[r].verdict = Comparison(o[1], o[2]) /\ run'[r].observed = o
          /\ run'[r].now = Fresh /\ run'[r].stop = run[r].stop
      BY <3>4, EndMoves
    <3>6. QED BY <1>2, <1>3, <1>6, <3>3, <3>5, Ends
  <2>5. QED BY <2>2, <2>3, <2>4
<1>7. CASE Kind[r] # "analysis"
  <2>1. /\ Phases(r) = <<"baseline", "candidate", "fix">> /\ Len(Phases(r)) = 3
        /\ Move(r, Remediated(r, o))
    BY <1>1, <1>7 DEF Phases
  <2>2. CASE Phase(r) # "fix" /\ run[r].stop # None
    <3>1. Move(r, Ended("error"))
      BY <2>1, <2>2 DEF Remediated
    <3>2. QED BY <1>5, <3>1
  <2>3. CASE Phase(r) # "fix" /\ run[r].stop = None
    <3>1. run[r].phase \in 1..(Len(Phases(r)) - 1)
      BY <1>4, <2>1, <2>3 DEF Phase
    <3>2. Move(r, NextPhase(r, o))
      BY <2>1, <2>3 DEF Remediated
    <3>3. QED BY <1>2, <1>3, <2>3, <3>1, <3>2, EndMoves, GoesOn
  <2>4. CASE Phase(r) = "fix" /\ run[r].stop = "raised"
    <3>1. Move(r, Ended("inconclusive"))
      BY <2>1, <2>4 DEF Remediated
    <3>2. QED BY <1>5, <3>1
  <2>8. CASE Phase(r) = "fix" /\ run[r].stop = "timed_out"
    <3>1. Move(r, Ended("error"))
      BY <2>1, <2>8 DEF Remediated
    <3>2. QED BY <1>5, <3>1
  <2>5. CASE Phase(r) = "fix" /\ run[r].stop = "rejected"
    <3>1. Move(r, Ended("failed"))
      BY <2>1, <2>5 DEF Remediated
    <3>2. QED BY <1>4, <1>5, <2>5, <3>1
  <2>6. CASE Phase(r) = "fix" /\ run[r].stop = None
    <3>1. run[r].phase \in 1..3 /\ run[r].phase # 1 /\ run[r].phase # 2
      BY <1>4, <2>1, <2>6 DEF Phase
    <3>2. run[r].phase = 3
      BY <3>1
    <3>3. Len(o) = Len(Phases(r))
      BY <1>3, <2>1, <2>6, <3>2
    <3>4. Move(r, [observed |-> o] ++ Ended(FixStatus(o[1], o[2], o[3])))
      BY <1>4, <2>1, <2>6 DEF Remediated
    <3>5. /\ run'[r].pc = "ended" /\ run'[r].verdict = FixStatus(o[1], o[2], o[3])
          /\ run'[r].observed = o /\ run'[r].now = Fresh /\ run'[r].stop = run[r].stop
      BY <3>4, EndMoves
    <3>6. World.applies
      BY <1>2, <2>6 DEF Faithful, Underway, Entered
    <3>7. QED BY <1>2, <1>3, <1>7, <2>6, <3>3, <3>5, <3>6, Ends
  <2>7. QED BY <1>4, <2>2, <2>3, <2>4, <2>5, <2>6, <2>8
<1>8. QED BY <1>6, <1>7

LEMMA LeaveFaithful ==
  ASSUME NEW r \in Runs, Shape, Faithful(r), Leave(r) \/ LeaveFails(r)
  PROVE  Faithful(r)'
<1>1. UNCHANGED <<world, unstarted>> /\ At(r, "leave")
  BY DEF Leave, LeaveFails, history
<1>2. CASE Move(r, Concluded(r))
  BY <1>1, <1>2, ConcludedFaithful
<1>3. CASE Move(r, Ended("error"))
  BY <1>1, <1>3, EndMoves, NothingKnown, Ends
<1>4. QED BY <1>2, <1>3 DEF Leave, LeaveFails

LEMMA FaithfulStep == FaithfulInv /\ [Next]_vars => FaithfulInv'
<1> SUFFICES ASSUME FaithfulInv, [Next]_vars PROVE FaithfulInv'
  OBVIOUS
<1>1. CASE UNCHANGED vars
  <2>1. UNCHANGED <<world, unstarted, run>>
    BY <1>1 DEF vars, history
  <2>2. \A d \in Runs : Faithful(d)'
    BY <2>1, FaithfulAside DEF FaithfulInv
  <2>3. QED BY <2>1, <2>2 DEF FaithfulInv, Shape
<1>2. ASSUME NEW r \in Runs, Step(r) PROVE FaithfulInv'
  <2>1. UNCHANGED world /\ OnlyHere(r)
    <3>1. UNCHANGED world /\ (~RunSandbox(r) => UNCHANGED unstarted)
      BY <1>2 DEF Step, Enter, Build, RunSandbox, StartApp, RemoveApp, RemoveImage, Leave, LeaveFails, history
    <3>2. ASSUME NEW result, RecordCheck(r, result) PROVE OnlyHere(r)
      <4>1. PICK id : unstarted' = (unstarted \ {<<r, Phase(r), id>>})
                                   \union {c \in {<<r, Phase(r), id>>} : "start" \in result.fault}
        BY <3>2 DEF RecordCheck
      <4>2. QED BY <4>1 DEF OnlyHere
    <3>3. ASSUME NEW result, RecordAttempt(r, result) PROVE OnlyHere(r)
      BY <3>3, Untold DEF RecordAttempt
    <3>4. QED BY <3>1, <3>2, <3>3, Untold, SandboxDaemon
  <2>2. Aside(r)
    BY <1>2, Steps DEF FaithfulInv
  <2>3. Faithful(r)'
    <3>1. CASE RemoveApp(r) \/ RemoveImage(r)
      BY <3>1, MovesOn DEF FaithfulInv, RemoveApp, RemoveImage, At
    <3>2. CASE RunSandbox(r)
      BY <3>2, CheckFaithful, AttemptFaithful DEF FaithfulInv
    <3>3. QED BY <1>2, <3>1, <3>2, EnterFaithful, BuildFaithful, StartFaithful, LeaveFaithful
              DEF FaithfulInv, Step
  <2>4. \A d \in Runs \ {r} : Faithful(d)'
    BY <2>1, <2>2, FaithfulAside DEF Aside, FaithfulInv, OnlyHere
  <2>5. QED BY <2>1, <2>2, <2>3, <2>4 DEF Aside, FaithfulInv
<1>3. QED BY <1>1, <1>2 DEF Next

LEMMA FaithfulInit == Init => FaithfulInv
<1> SUFFICES ASSUME Init PROVE FaithfulInv
  OBVIOUS
<1>1. Shape /\ world \in DOMAIN Worlds
  BY DEF Init, Shape, Named
<1>2. ASSUME NEW r \in Runs PROVE Faithful(r)
  <2>1. /\ run[r].pc = "enter" /\ run[r].phase = 1 /\ run[r].now = Fresh
        /\ run[r].observed = <<>> /\ run[r].stop = None
    BY DEF Init
  <2>2. Past(r)
    <3>1. 1 \in 1..Len(Phases(r))
      BY DEF Phases
    <3>2. QED BY <2>1, <3>1 DEF Past
  <2>3. QED BY <2>1, <2>2, NothingTold DEF Faithful, Underway, Truthful, Judged, Applied
<1>3. QED BY <1>1, <1>2 DEF FaithfulInv

-----------------------------------------------------------------------------
(***************************************************************************)
(* The samples of an undisturbed load test.                                *)
(***************************************************************************)
LEMMA RankedConstant ==
  ASSUME NEW x \in Int, NEW n \in Nat \ {0}, NEW k \in 1..n
  PROVE  Ranked(Constant(x, n), k) = x
<1> PICK s : s = Constant(x, n)
  OBVIOUS
<1>1. DOMAIN s = 1..n /\ \A i \in 1..n : s[i] = x
  BY DEF Constant
<1>2. ToSet(s) = {x}
  BY <1>1 DEF ToSet
<1>3. {i \in DOMAIN s : s[i] < x} = {} /\ {i \in DOMAIN s : s[i] <= x} = 1..n
  BY <1>1
<1>4. Cardinality({}) = 0 /\ Cardinality(1..n) = n
  BY FS_EmptySet, FS_Interval
<1>5. /\ Cardinality({i \in DOMAIN s : s[i] < x}) < k
      /\ Cardinality({i \in DOMAIN s : s[i] <= x}) >= k
  <2>1. 0 < k /\ n >= k
    OBVIOUS
  <2>2. Cardinality({i \in DOMAIN s : s[i] < x}) = 0 /\ Cardinality({i \in DOMAIN s : s[i] <= x}) = n
    BY <1>3, <1>4, Zenon
  <2>3. QED BY <2>1, <2>2
<1>6. \E y \in ToSet(s) : /\ Cardinality({i \in DOMAIN s : s[i] < y}) < k
                          /\ Cardinality({i \in DOMAIN s : s[i] <= y}) >= k
  BY <1>2, <1>5
<1>7. Ranked(s, k) \in ToSet(s)
  BY <1>6 DEF Ranked
<1>8. QED BY <1>2, <1>7

\* The median of an undisturbed load test is what the code does.
LEMMA MedianConstant ==
  ASSUME NEW x \in Nat
  PROVE  TwiceMedian(Constant(x, Repetitions)) = 2 * x
<1>1. Repetitions \in Nat \ {0} /\ Len(Constant(x, Repetitions)) = Repetitions
  BY VerdictAssumption, ConstantSamples
<1>2. (Repetitions + 1) \div 2 \in 1..Repetitions /\ Repetitions \div 2 + 1 \in 1..Repetitions
  BY <1>1
<1>3. Constant(x, Repetitions) # <<>>
  BY <1>1
<1>4. /\ Ranked(Constant(x, Repetitions), (Repetitions + 1) \div 2) = x
      /\ Ranked(Constant(x, Repetitions), Repetitions \div 2 + 1) = x
  BY <1>1, <1>2, RankedConstant
<1>5. QED BY <1>1, <1>3, <1>4 DEF TwiceMedian

LEMMA TwiceAsMuch ==
  ASSUME NEW a \in Nat, NEW b \in Nat, NEW ratio \in Nat
  PROVE  AtLeast(2 * a, 2 * b, ratio) <=> AtLeast(a, b, ratio)
<1>1. 2 * b = 0 <=> b = 0
  OBVIOUS
<1>2. 2 * a = 0 <=> a = 0
  OBVIOUS
<1>3. PICK c \in Int : c = ratio * b
  OBVIOUS
<1>4. ratio * (2 * b) = 2 * c
  BY <1>3
<1>5. 2 * a >= ratio * (2 * b) <=> a >= ratio * b
  BY <1>3, <1>4
<1>6. QED BY <1>1, <1>2, <1>5 DEF AtLeast

-----------------------------------------------------------------------------
(***************************************************************************)
(* The verdict.                                                            *)
(***************************************************************************)
Agree(o, u) ==
  /\ DOMAIN o.checks = DOMAIN u.checks /\ \A w : Outcome(o, w) = Outcome(u, w)
  /\ o.load = None <=> u.load = None
  /\ o.load # None => /\ o.load.queries = u.load.queries
                      /\ P95(o) = P95(u) \/ Scattered(o.load.p95)

\* What is known of the i-th phase of a run that is over, and of its samples.
Trusted(r, i) ==
  LET o == run[r].observed[i] IN
  /\ i \in 1..Len(Phases(r)) /\ i \in DOMAIN run[r].observed
  /\ Measured(World, Phases(r)[i], o)
  /\ Told(r, World, Phases(r)[i], unstarted, o.checks)

LEMMA Expected ==
  ASSUME NEW r \in Runs, world \in DOMAIN Worlds, NEW i \in 1..Len(Phases(r)), World.loads \in {0, 1},
         NEW u, u = Undisturbed(r, i), NEW truth, truth = World.truth[Phases(r)[i]]
  PROVE  /\ DOMAIN u.checks = ToSet(Checks)
         /\ \A id \in ToSet(Checks) : u.checks[id].outcome =
              IF Passes(r, i, id, run[r].observed[i].checks[id].argv) THEN "passed" ELSE "test_failed"
         /\ u.load = None <=> World.loads = 0
         /\ u.load # None => /\ u.load.queries = Constant(truth.queries, Repetitions)
                             /\ Queries(u) = 2 * truth.queries /\ P95(u) = 2 * truth.p95
<1>1. /\ u.checks = [id \in ToSet(Checks) |->
            [outcome |-> IF Passes(r, i, id, run[r].observed[i].checks[id].argv) THEN "passed" ELSE "test_failed",
             argv |-> run[r].observed[i].checks[id].argv]]
      /\ u.load = IF World.loads = 0 THEN None
                  ELSE [queries |-> Constant(truth.queries, Repetitions),
                        p95 |-> Constant(truth.p95, Repetitions)]
  BY DEF Undisturbed
<1>2. Phases(r)[i] \in {"baseline", "candidate", "fix"}
  BY PhaseNames
<1>3. truth.queries \in Nat /\ truth.p95 \in Nat /\ Repetitions \in Nat
  BY <1>2, MeasurementAssumption, VerdictAssumption DEF World
<1>4. [queries |-> Constant(truth.queries, Repetitions), p95 |-> Constant(truth.p95, Repetitions)] # None
  <2>1. Constant(truth.queries, Repetitions) \in Seq(Nat) /\ Constant(truth.p95, Repetitions) \in Seq(Nat)
    BY <1>3 DEF Constant
  <2>2. QED BY <2>1, MeasurementAssumption
<1>5. ASSUME u.load # None
      PROVE  /\ u.load.queries = Constant(truth.queries, Repetitions)
             /\ Queries(u) = 2 * truth.queries /\ P95(u) = 2 * truth.p95
  <2>1. /\ u.load.queries = Constant(truth.queries, Repetitions)
        /\ u.load.p95 = Constant(truth.p95, Repetitions)
    BY <1>1, <1>5
  <2>2. QED BY <1>3, <2>1, MedianConstant DEF Queries, P95
<1>6. u.load = None <=> World.loads = 0
  BY <1>1, <1>4
<1>7. DOMAIN u.checks = ToSet(Checks)
  BY <1>1
<1>8. \A id \in ToSet(Checks) : u.checks[id].outcome =
        IF Passes(r, i, id, run[r].observed[i].checks[id].argv) THEN "passed" ELSE "test_failed"
  BY <1>1
<1>9. QED BY <1>5, <1>6, <1>7, <1>8

\* A phase none of whose commands failed is observed as without any disturbance, but for the
\* latencies, whose median is right or which scatter.
LEMMA Agreeing ==
  ASSUME NEW r \in Runs, world \in DOMAIN Worlds, Shows(r), NEW i, Trusted(r, i),
         NEW o, o = run[r].observed[i], ~CommandFailed(o)
  PROVE  Agree(o, Undisturbed(r, i))
<1> PICK u : u = Undisturbed(r, i)
  OBVIOUS
<1> PICK truth : truth = World.truth[Phases(r)[i]]
  OBVIOUS
<1>1. i \in 1..Len(Phases(r)) /\ World.loads \in {0, 1} /\ i \in DOMAIN run[r].observed
  BY DEF Trusted, Measured
<1>2. /\ DOMAIN u.checks = ToSet(Checks)
      /\ \A id \in ToSet(Checks) : u.checks[id].outcome =
           IF Passes(r, i, id, o.checks[id].argv) THEN "passed" ELSE "test_failed"
      /\ u.load = None <=> World.loads = 0
      /\ u.load # None => u.load.queries = Constant(truth.queries, Repetitions) /\ P95(u) = 2 * truth.p95
  BY <1>1, Expected
<1>3. DOMAIN o.checks = ToSet(Checks) /\ (o.load = None <=> World.loads = 0)
  BY DEF Trusted, Measured
<1>4. \A id \in ToSet(Checks) : o.checks[id].outcome =
        IF Passes(r, i, id, o.checks[id].argv) THEN "passed" ELSE "test_failed"
  <2>1. \A id \in DOMAIN o.checks : o.checks[id].outcome # "command_failed"
    BY DEF CommandFailed, Outcome
  <2>2. QED BY <1>3, <2>1 DEF Trusted, Told, Passes
<1>5. \A w : Outcome(o, w) = Outcome(u, w)
  BY <1>2, <1>3, <1>4 DEF Outcome
<1>6. ASSUME o.load # None
      PROVE  o.load.queries = u.load.queries /\ (P95(o) = P95(u) \/ Scattered(o.load.p95))
  <2>1. PICK n \in 0..Repetitions : Sampled(World, Phases(r)[i], o.load, n)
    BY <1>6 DEF Trusted, Measured
  <2>2. n = Repetitions
    BY <1>6, <2>1 DEF Sampled, CommandFailed, LoadFailed
  <2>3. o.load.queries = u.load.queries
    BY <1>2, <1>3, <1>6, <2>1, <2>2 DEF Sampled
  <2>4. Scattered(o.load.p95) \/ P95(o) = 2 * truth.p95
    BY <1>1, <1>6 DEF Shows
  <2>5. QED BY <1>2, <1>3, <1>6, <2>3, <2>4
<1>7. QED BY <1>2, <1>3, <1>5, <1>6 DEF Agree

\* A comparison that is decided does not depend on samples that scatter.
LEMMA SameComparison ==
  ASSUME NEW b, NEW c, NEW ub, NEW uc, Agree(b, ub), Agree(c, uc),
         b.load = None <=> c.load = None,
         Comparison(b, c) \in {"passed", "failed"}
  PROVE  Comparison(b, c) = "failed" <=> Regressed(ub, uc)
<1>1. ~ToolFailure(b, c)
  BY DEF Comparison
<1>2. CandidateOnly(b, c) = CandidateOnly(ub, uc)
  BY DEF CandidateOnly, Agree
<1>3. QueryRegression(b, c) <=> QueryRegression(ub, uc)
  BY DEF QueryRegression, Queries, Agree
<1>4. CASE CandidateOnly(b, c) # {} \/ QueryRegression(b, c)
  BY <1>1, <1>2, <1>3, <1>4 DEF Comparison, Regressed
<1>5. CASE ~(CandidateOnly(b, c) # {} \/ QueryRegression(b, c))
  <2>1. ~Noisy(b, c)
    BY <1>1, <1>5 DEF Comparison
  <2>2. b.load # None => P95(b) = P95(ub) /\ P95(c) = P95(uc)
    BY <2>1 DEF Noisy, Agree
  <2>3. LatencyRegression(b, c) <=> LatencyRegression(ub, uc)
    BY <2>2 DEF LatencyRegression, Agree
  <2>4. Comparison(b, c) = "failed" <=> LatencyRegression(b, c)
    BY <1>1, <1>5, <2>1 DEF Comparison
  <2>5. QED BY <1>2, <1>3, <1>5, <2>3, <2>4 DEF Regressed
<1>6. QED BY <1>4, <1>5

LEMMA Compared ==
  ASSUME NEW r \in Runs, world \in DOMAIN Worlds, Shows(r), NEW i, Trusted(r, i), NEW j, Trusted(r, j),
         Comparison(run[r].observed[i], run[r].observed[j]) \in {"passed", "failed"}
  PROVE  Comparison(run[r].observed[i], run[r].observed[j]) = "failed" <=>
           Regressed(Undisturbed(r, i), Undisturbed(r, j))
<1> PICK b : b = run[r].observed[i]
  OBVIOUS
<1> PICK c : c = run[r].observed[j]
  OBVIOUS
<1>1. ~CommandFailed(b) /\ ~CommandFailed(c)
  BY DEF Comparison, ToolFailure
<1>2. Agree(b, Undisturbed(r, i)) /\ Agree(c, Undisturbed(r, j))
  BY <1>1, Agreeing
<1>3. b.load = None <=> c.load = None
  BY DEF Trusted, Measured
<1>4. QED BY <1>2, <1>3, SameComparison

\* What a decided run has in its hands.
LEMMA Trust ==
  ASSUME FaithfulInv, NEW r \in Runs, Decided(r)
  PROVE  /\ world \in DOMAIN Worlds /\ Len(run[r].observed) = Len(Phases(r))
         /\ \A i \in 1..Len(Phases(r)) : Trusted(r, i)
         /\ run[r].verdict =
              IF Kind[r] = "analysis" THEN Comparison(run[r].observed[1], run[r].observed[2])
              ELSE FixStatus(run[r].observed[1], run[r].observed[2], run[r].observed[3])
<1> PICK o : o = run[r].observed
  OBVIOUS
<1>1. /\ Len(o) = Len(Phases(r)) /\ o \in Seq(ToSet(o)) /\ world \in DOMAIN Worlds
      /\ run[r].verdict = IF Kind[r] = "analysis" THEN Comparison(o[1], o[2])
                          ELSE FixStatus(o[1], o[2], o[3])
  BY DEF Decided, FaithfulInv, Faithful, Judged, Past, At
<1>2. \A i \in DOMAIN o : /\ Measured(World, Phases(r)[i], o[i])
                          /\ Told(r, World, Phases(r)[i], unstarted, o[i].checks)
  BY DEF FaithfulInv, Faithful, Past, Truthful, Credible
<1>3. DOMAIN o = 1..Len(Phases(r))
  BY <1>1
<1>4. QED BY <1>1, <1>2, <1>3 DEF Trusted

LEMMA DecidedFollows ==
  ASSUME FaithfulInv
  PROVE  DecidedIsUndisturbed
<1> SUFFICES ASSUME NEW r \in Runs, Decided(r), Shows(r)
             PROVE  run[r].verdict = "passed" <=>
                      IF Kind[r] = "analysis"
                      THEN ~Regressed(Undisturbed(r, 1), Undisturbed(r, 2))
                      ELSE /\ ~Regressed(Undisturbed(r, 1), Undisturbed(r, 3))
                           /\ Regressed(Undisturbed(r, 3), Undisturbed(r, 2))
  BY DEF DecidedIsUndisturbed
<1> PICK o : o = run[r].observed
  OBVIOUS
<1>1. /\ world \in DOMAIN Worlds /\ \A i \in 1..Len(Phases(r)) : Trusted(r, i)
      /\ run[r].verdict = IF Kind[r] = "analysis" THEN Comparison(o[1], o[2])
                          ELSE FixStatus(o[1], o[2], o[3])
      /\ run[r].verdict \in {"passed", "failed"}
  BY Trust DEF Decided
<1>2. CASE Kind[r] = "analysis"
  <2>1. Trusted(r, 1) /\ Trusted(r, 2)
    <3>1. Len(Phases(r)) = 2
      BY <1>2 DEF Phases
    <3>2. QED BY <1>1, <3>1
  <2>2. QED BY <1>1, <1>2, <2>1, Compared
<1>3. CASE Kind[r] # "analysis"
  <2>1. Trusted(r, 1) /\ Trusted(r, 2) /\ Trusted(r, 3)
    <3>1. Len(Phases(r)) = 3
      BY <1>3 DEF Phases
    <3>2. QED BY <1>1, <3>1
  <2>2. run[r].verdict = FixStatus(o[1], o[2], o[3])
    BY <1>1, <1>3
  <2>3. Comparison(o[1], o[3]) # "inconclusive" /\ Comparison(o[3], o[2]) # "inconclusive"
    BY <1>1, <2>2 DEF FixStatus
  <2>4. \A b, c : Comparison(b, c) \in {"inconclusive", "failed", "passed"}
    BY DEF Comparison
  <2>5. Comparison(o[1], o[3]) \in {"passed", "failed"} /\ Comparison(o[3], o[2]) \in {"passed", "failed"}
    BY <2>3, <2>4
  <2>6. Comparison(o[1], o[3]) = "failed" <=> Regressed(Undisturbed(r, 1), Undisturbed(r, 3))
    BY <1>1, <2>1, <2>5, Compared
  <2>7. Comparison(o[3], o[2]) = "failed" <=> Regressed(Undisturbed(r, 3), Undisturbed(r, 2))
    BY <1>1, <2>1, <2>5, Compared
  <2>8. run[r].verdict = "passed" <=> Comparison(o[1], o[3]) = "passed" /\ Comparison(o[3], o[2]) = "failed"
    BY <2>2, <2>5 DEF FixStatus
  <2>9. QED BY <1>3, <2>5, <2>6, <2>7, <2>8
<1>4. QED BY <1>2, <1>3

\* However many runs share the daemon and whatever fails, a verdict that is decided is the
\* one of the comparison of what the code does under the commands of each phase, a container
\* that did not start being a failed test: checks.py, comparison.py and fix.py turn a
\* container that is not created, times out or loses its image into no verdict, and latencies
\* that scatter into an inconclusive one.  Of the samples it is only supposed that a wrong
\* median scatters.
THEOREM DecidedCorrect == Spec => []DecidedIsUndisturbed
<1>1. FaithfulInv => DecidedIsUndisturbed
  BY DecidedFollows
<1>2. QED BY <1>1, FaithfulInit, FaithfulStep, PTL DEF Spec

-----------------------------------------------------------------------------
(***************************************************************************)
(* The fix.                                                                *)
(***************************************************************************)
\* Measured without disturbance by the commands of the fixture, the code of a phase is found
\* to regress exactly if it is worse.
LEMMA RegressedIsWorse ==
  ASSUME NEW r \in Runs, world \in DOMAIN Worlds, NEW i, Trusted(r, i), NEW j, Trusted(r, j),
         \A k \in {i, j}, id \in ToSet(Checks) : run[r].observed[k].checks[id].argv = Fixture
  PROVE  Regressed(Undisturbed(r, i), Undisturbed(r, j)) <=> Worse(r, i, j)
<1>1. PICK b : b = Undisturbed(r, i)
  OBVIOUS
<1>2. PICK c : c = Undisturbed(r, j)
  OBVIOUS
<1>3. PICK before : before = World.truth[Phases(r)[i]]
  OBVIOUS
<1>4. PICK after : after = World.truth[Phases(r)[j]]
  OBVIOUS
<1>5. i \in 1..Len(Phases(r)) /\ j \in 1..Len(Phases(r)) /\ World.loads \in {0, 1}
  BY DEF Trusted, Measured
<1>6. /\ DOMAIN b.checks = ToSet(Checks)
      /\ \A id \in ToSet(Checks) : b.checks[id].outcome =
           IF Passes(r, i, id, Fixture) THEN "passed" ELSE "test_failed"
      /\ b.load = None <=> World.loads = 0
      /\ b.load # None => Queries(b) = 2 * before.queries /\ P95(b) = 2 * before.p95
  BY <1>1, <1>3, <1>5, Expected
<1>7. /\ DOMAIN c.checks = ToSet(Checks)
      /\ \A id \in ToSet(Checks) : c.checks[id].outcome =
           IF Passes(r, j, id, Fixture) THEN "passed" ELSE "test_failed"
      /\ c.load = None <=> World.loads = 0
      /\ c.load # None => Queries(c) = 2 * after.queries /\ P95(c) = 2 * after.p95
  BY <1>2, <1>4, <1>5, Expected
<1>8. /\ before.queries \in Nat /\ before.p95 \in Nat /\ after.queries \in Nat /\ after.p95 \in Nat
      /\ MinQueryIncrease \in Nat /\ MinQueryRatio \in Nat /\ MinP95Ratio \in Nat
  BY <1>3, <1>4, <1>5, PhaseNames, MeasurementAssumption, VerdictAssumption DEF World
<1>9. CandidateOnly(b, c) # {} <=>
        \E id \in ToSet(Checks) : Passes(r, i, id, Fixture) /\ ~Passes(r, j, id, Fixture)
  <2>1. \A id \in ToSet(Checks) : /\ Outcome(b, id) = "passed" <=> Passes(r, i, id, Fixture)
                                  /\ Outcome(c, id) = "passed" <=> Passes(r, j, id, Fixture)
    BY <1>6, <1>7 DEF Outcome
  <2>2. CandidateOnly(b, c) =
          {id \in ToSet(Checks) : Outcome(b, id) = "passed" /\ Outcome(c, id) # "passed"}
    BY <1>6, <1>7 DEF CandidateOnly
  <2>3. QED BY <2>1, <2>2
<1>10. QueryRegression(b, c) <=>
         /\ World.loads = 1
         /\ after.queries >= before.queries + MinQueryIncrease
         /\ AtLeast(after.queries, before.queries, MinQueryRatio)
  <2>1. CASE World.loads = 0
    BY <1>6, <2>1 DEF QueryRegression
  <2>2. CASE World.loads = 1
    <3>1. /\ b.load # None /\ Queries(b) = 2 * before.queries /\ Queries(c) = 2 * after.queries
      BY <1>6, <1>7, <2>2
    <3>2. Queries(c) - Queries(b) >= 2 * MinQueryIncrease <=> after.queries >= before.queries + MinQueryIncrease
      BY <1>8, <3>1
    <3>3. AtLeast(Queries(c), Queries(b), MinQueryRatio) <=> AtLeast(after.queries, before.queries, MinQueryRatio)
      BY <1>8, <3>1, TwiceAsMuch
    <3>4. QED BY <2>2, <3>1, <3>2, <3>3 DEF QueryRegression
  <2>3. QED BY <1>5, <2>1, <2>2
<1>11. LatencyRegression(b, c) <=> World.loads = 1 /\ AtLeast(after.p95, before.p95, MinP95Ratio)
  <2>1. CASE World.loads = 0
    BY <1>6, <2>1 DEF LatencyRegression
  <2>2. CASE World.loads = 1
    <3>1. b.load # None /\ P95(b) = 2 * before.p95 /\ P95(c) = 2 * after.p95
      BY <1>6, <1>7, <2>2
    <3>2. AtLeast(P95(c), P95(b), MinP95Ratio) <=> AtLeast(after.p95, before.p95, MinP95Ratio)
      BY <1>8, <3>1, TwiceAsMuch
    <3>3. QED BY <2>2, <3>1, <3>2 DEF LatencyRegression
  <2>3. QED BY <1>5, <2>1, <2>2
<1>12. QED BY <1>1, <1>2, <1>3, <1>4, <1>9, <1>10, <1>11 DEF Regressed, Worse

LEMMA EarnedFollows ==
  ASSUME FaithfulInv
  PROVE  FixEarned
<1> SUFFICES ASSUME NEW r \in Runs, Kind[r] = "remediation", At(r, "ended"), run[r].verdict = "passed",
                    Shows(r)
             PROVE  World.applies /\ ~Worse(r, 1, 3) /\ Worse(r, 3, 2)
  BY DEF FixEarned
<1>1. run[r].stop = None /\ World.applies /\ Kind[r] # "analysis"
  BY DEF FaithfulInv, Faithful, Applied, At
<1>2. Decided(r)
  BY <1>1 DEF Decided
<1>3. /\ ~Regressed(Undisturbed(r, 1), Undisturbed(r, 3))
      /\ Regressed(Undisturbed(r, 3), Undisturbed(r, 2))
  BY <1>1, <1>2, DecidedFollows DEF DecidedIsUndisturbed
<1>4. world \in DOMAIN Worlds /\ Trusted(r, 1) /\ Trusted(r, 2) /\ Trusted(r, 3)
  <2>1. Len(Phases(r)) = 3
    BY <1>1 DEF Phases
  <2>2. QED BY <1>2, <2>1, Trust
<1>5. \A i \in {1, 2, 3}, id \in ToSet(Checks) : run[r].observed[i].checks[id].argv = Fixture
  <2>1. \A i \in {1, 2, 3} : /\ i \in DOMAIN run[r].observed
                             /\ DOMAIN run[r].observed[i].checks = ToSet(Checks)
    BY <1>4 DEF Trusted, Measured
  <2>2. \A i \in DOMAIN run[r].observed : \A id \in DOMAIN run[r].observed[i].checks :
          run[r].observed[i].checks[id].argv = Fixture
    BY <1>1 DEF FaithfulInv, Faithful, Truthful, Credible
  <2>3. QED BY <2>1, <2>2
<1>6. ~Worse(r, 1, 3)
  BY <1>3, <1>4, <1>5, RegressedIsWorse
<1>7. Worse(r, 3, 2)
  BY <1>3, <1>4, <1>5, RegressedIsWorse
<1>8. QED BY <1>1, <1>6, <1>7

\* A passed FixVerification means a better program, whatever the patch, the truth and the
\* faults: the patch applied, what the code does with it is no worse than the baseline by
\* any measure of compare_candidate, and the candidate is worse than that by one of them.
\* A check whose container did not start counts as failed, so it may also be that which
\* makes the candidate worse; of the samples it is only supposed that a wrong median scatters.
THEOREM EarnedCorrect == Spec => []FixEarned
<1>1. FaithfulInv => FixEarned
  BY EarnedFollows
<1>2. QED BY <1>1, FaithfulInit, FaithfulStep, PTL DEF Spec
=============================================================================
