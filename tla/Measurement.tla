---------------------------- MODULE Measurement ----------------------------
(***************************************************************************)
(* The phases of a run, measured in containers: a worktree of the commit,  *)
(* an image of the worktree under a tag made of the commit, a container    *)
(* for each check, the application and a container for each k6 attempt     *)
(* (lou/verification/runtime.py, checks.py, worktree.py, lou/sandbox,      *)
(* lou/loadtest), and the verdict over them (Verdicts).  An analysis       *)
(* measures baseline and candidate (live.py), a remediation baseline,      *)
(* candidate and fix (remediation_fixture.py, fix.py).  Runs share the     *)
(* Docker daemon, and an analysis reads its commands from the manifest in  *)
(* the working tree in every phase.  Each step is what no other run can    *)
(* interfere with.                                                         *)
(*                                                                         *)
(* UnwindPastApp is a deliberately wrong form of UnwindToApp.              *)
(***************************************************************************)
EXTENDS Verdicts, FiniteSets

CONSTANTS
  Runs, Kind,     \* Kind[r]: "analysis" or "remediation"
  Checks,         \* the selected workloads other than k6, in order
  Worlds,         \* name -> [truth: what the code of each phase does, loads, applies]
  Editions,       \* of the manifest: name -> [valid, ids]
  Fixture,        \* the edition fixture_commands() returns
  Disturbance,    \* factor by which a disturbed sample is slower
  Faults,         \* what may go wrong
  MaxFaults       \* bound: faults and edits of a behaviour

ASSUME MeasurementAssumption ==
  /\ Kind \in [Runs -> {"analysis", "remediation"}]
  /\ Fixture \in DOMAIN Editions /\ MaxFaults \in Nat
  /\ Checks \in Seq(ToSet(Checks))
  /\ \A w \in DOMAIN Worlds, p \in {"baseline", "candidate", "fix"} :
       {Worlds[w].truth[p].queries, Worlds[w].truth[p].p95} \subseteq Nat
  /\ Disturbance \in Nat
  /\ None \notin [queries : Seq(Nat), p95 : Seq(Nat)] \union {"raised", "timed_out", "rejected"}

VARIABLES
  world, manifest,
  images, containers,   \* of the daemon: the tags, the containers
  untagged,             \* tags whose image lost them and stayed
  worktrees,            \* runs that have one
  run,                  \* what each run has in its hands
  spent,                \* faults so far
  lost, unready, stale, shared, unstarted   \* history: what went wrong

daemon == <<images, containers, untagged>>
history == <<lost, unready, stale, shared, unstarted>>
vars == <<world, manifest, daemon, worktrees, run, spent, history>>

Phases(r) == IF Kind[r] = "analysis" THEN <<"baseline", "candidate">>
             ELSE <<"baseline", "candidate", "fix">>
Phase(r) == Phases(r)[run[r].phase]
Fixing == {r \in Runs : Phase(r) = "fix"}   \* runs in the phase of FixVerifier
World == Worlds[world]
Truth(r) == World.truth[Phase(r)]

\* lou-ev007-runtime:v1, which every phase builds first, and
\* lou-ev007-fix:{commit_sha[:16]}: runs of the same commits use the same tags.
Base == <<"runtime">>
TagOf(r, phase) == IF phase = "fix" THEN <<"fix", r>> ELSE <<phase>>
Tag(r) == TagOf(r, Phase(r))
Container(r, kind, n) == <<r, Phase(r), kind, n>>
Image(c) == TagOf(c[1], c[2])
Current(r) == Container(r, run[r].kind, run[r].at)
App(r) == Container(r, "app", 0)

\* The fields of f, and the others of g.
f ++ g == [x \in DOMAIN f \union DOMAIN g |-> IF x \in DOMAIN f THEN f[x] ELSE g[x]]

At(r, label) == run[r].pc = label
Move(r, changes) == run' = [run EXCEPT ![r] = changes ++ @]
Calm == UNCHANGED spent
Fault(kind) == kind \in Faults /\ spent < MaxFaults /\ spent' = spent + 1

Fresh == [checks |-> <<>>, load |-> None]

\* An exception unwinds to the finally clause at the label; what was measured is lost.
RaiseTo(label) == [pc |-> label, stop |-> "raised", now |-> Fresh]
Unwind == RaiseTo("untag")

Init ==
  /\ world \in DOMAIN Worlds
  /\ manifest = Fixture
  /\ images = {} /\ containers = {} /\ untagged = {} /\ worktrees = {}
  /\ run = [r \in Runs |->
       [pc |-> "enter", phase |-> 1, argv |-> None, kind |-> "check", at |-> 1,
        now |-> Fresh, observed |-> <<>>, stop |-> None,
        verdict |-> None, finding |-> FALSE]]
  /\ spent = 0
  /\ lost = {} /\ unready = {} /\ stale = {} /\ shared = {} /\ unstarted = {}

-----------------------------------------------------------------------------
(* The worktree and the image.                                             *)

\* Somebody edited the manifest in the working tree since it was last read.
Edited == Fault("edit") /\ manifest' \in DOMAIN Editions \ {manifest}

\* disposable_worktree, or the worktree of the fix and the patch applied to it.  Git may
\* refuse, or take longer than subprocess.run waits for it.
Enter(r) ==
  /\ At(r, "enter")
  /\ \/ /\ worktrees' = worktrees \union {r}
        /\ \/ Calm /\ UNCHANGED manifest
           \/ Kind[r] = "analysis" /\ Edited
        /\ LET argv == IF Kind[r] = "analysis" THEN manifest' ELSE Fixture
           IN  CASE Phase(r) = "fix" /\ ~World.applies -> Move(r, [pc |-> "leave", stop |-> "rejected"])
                 [] ~Editions[argv].valid -> Move(r, RaiseTo("leave"))
                 [] OTHER -> Move(r, [pc |-> "build", argv |-> argv])
     \/ /\ Fault("worktree")
        /\ \E stop \in {"raised", "timed_out"} : Move(r, [pc |-> "leave", stop |-> stop])
        /\ worktrees' \in {worktrees} \union {worktrees \union {d} : d \in {r} \intersect Fixing}
        /\ UNCHANGED manifest
  /\ UNCHANGED <<world, daemon, history>>

\* What comes next of the phase: the n-th check, the load test, the end.
From(r, n) ==
  CASE n <= Len(Checks) ->
         IF Checks[n] \in Editions[run[r].argv].ids
         THEN [pc |-> "sandbox", kind |-> "check", at |-> n] ELSE Unwind
    [] OTHER -> IF World.loads = 0 THEN [pc |-> "untag"]
                ELSE IF World.loads = 1 THEN [pc |-> "app"] ELSE Unwind

\* A run holds its image from the build to the finally clause that removes it.
Holds(r, tag) == run[r].pc \in {"sandbox", "app", "logs", "untag"} /\ Tag(r) = tag

\* The base image and that of the worktree.  Equal worktrees give the same image, from the
\* build cache: one that only lost its tag may get it back.  A build that failed raises
\* before the try that removes the image; the daemon may have tagged it all the same.
Build(r) ==
  /\ At(r, "build")
  /\ \/ /\ images' = images \union {Base, Tag(r)} /\ Calm
        /\ untagged' \in {untagged, untagged \ {Tag(r)}}
        /\ shared' = shared \union {tag \in {Tag(r)} : \E d \in Runs \ {r} : Holds(d, tag)}
        /\ Move(r, From(r, 1))
        /\ UNCHANGED stale
     \/ /\ Fault("build")
        /\ images' \in {images, images \union {Base}, images \union {Base, Tag(r)}}
        /\ stale' = stale \union {Tag(r)}
        /\ Move(r, RaiseTo("leave"))
        /\ UNCHANGED <<untagged, shared>>
  /\ UNCHANGED <<world, manifest, containers, worktrees, lost, unready, unstarted>>

-----------------------------------------------------------------------------
(* run_sandbox: create, start --attach, rm --force.  The container is known *)
(* to no other run, so the three commands are one step.                    *)

\* What the container's command may end in, and the fault it takes.
Result(outcome, p95, fault) == [outcome |-> outcome, p95 |-> p95, fault |-> fault]
NotCreated == {Result("command_failed", 0, {"create"})}
CheckResults(r) ==
  {Result(IF run[r].argv \in Truth(r).passes THEN "passed" ELSE "test_failed", 0, {}),
   Result("command_failed", 0, {"timeout"}),
   Result("test_failed", 0, {"start"})}
\* What disturbs one sample of a load test may disturb the others.
Disturbed(r) ==
  IF run[r].at = 0 THEN {}
  ELSE {Result("passed", Truth(r).p95 * Disturbance,
               IF ToSet(run[r].now.load.p95) \subseteq {Truth(r).p95} THEN {"noise"} ELSE {})}
K6Results(r) ==
  Disturbed(r) \union
    {Result("passed", Truth(r).p95, {}), Result("failed", 0, {"timeout"}),
     Result("malformed", 0, {"summary"})}
\* docker create fails without the image, or the client gives up waiting for it.
Results(r) ==
  CASE Tag(r) \notin images -> {Result("command_failed", 0, {})}
    [] Tag(r) \in images /\ run[r].kind = "check" -> CheckResults(r) \union NotCreated
    [] OTHER -> K6Results(r) \union NotCreated

\* docker start that fails is a failed test: its exit code is that of the command.
RecordCheck(r, result) ==
  LET id == Checks[run[r].at]
      check == [outcome |-> result.outcome, argv |-> run[r].argv]
  IN  /\ Move(r, [now |-> [run[r].now EXCEPT !.checks = [w \in {id} |-> check] ++ @]]
                   ++ From(r, run[r].at + 1))
      /\ unstarted' = (unstarted \ {<<r, Phase(r), id>>})
                        \union {c \in {<<r, Phase(r), id>>} : "start" \in result.fault}

\* The warmup, attempt 0, leaves no sample; the first failure ends the experiment.
UnwindPastApp == RaiseTo("untag")
UnwindToApp == RaiseTo("logs")
RecordAttempt(r, result) ==
  LET load == run[r].now.load
      more == [queries |-> Append(load.queries, Truth(r).queries), p95 |-> Append(load.p95, result.p95)]
      kept == IF run[r].at = 0 THEN load ELSE more
  IN  /\ CASE result.outcome \in {"failed", "command_failed"} -> Move(r, [pc |-> "logs"])
           [] result.outcome = "malformed" -> Move(r, UnwindToApp)
           [] OTHER -> Move(r, [now |-> [run[r].now EXCEPT !.load = kept]]
                                 ++ (IF run[r].at = Repetitions THEN [pc |-> "logs"]
                                     ELSE [pc |-> "sandbox", at |-> run[r].at + 1]))
      /\ UNCHANGED unstarted

\* rm runs whatever create and start did; the daemon may create a container after its
\* client gave up and rm found none.
RunSandbox(r) ==
  /\ At(r, "sandbox")
  /\ \E result \in Results(r), left \in SUBSET {Current(r)} :
       LET late == "create" \in result.fault
           fault == result.fault \union (IF left # {} /\ ~late THEN {"rm"} ELSE {})
           created == IF Tag(r) \in images THEN {Current(r)} ELSE {}
       IN  /\ fault \subseteq Faults
           /\ spent + Cardinality(fault) <= MaxFaults /\ spent' = spent + Cardinality(fault)
           /\ containers' = (containers \union created) \ ({Current(r)} \ left)
           /\ lost' = IF late \/ "rm" \in fault THEN lost \union {Current(r)} ELSE lost
           /\ IF run[r].kind = "check" THEN RecordCheck(r, result) ELSE RecordAttempt(r, result)
  /\ UNCHANGED <<world, manifest, images, untagged, worktrees, unready, stale, shared>>

-----------------------------------------------------------------------------
(* The application under load.                                             *)

NoSamples == [queries |-> <<>>, p95 |-> <<>>]

\* docker run, and up to thirty polls until it answers.  _start_app raises outside the
\* try whose finally clause removes the application.
StartApp(r) ==
  /\ At(r, "app")
  /\ \/ /\ Tag(r) \in images /\ Calm
        /\ containers' = containers \union {App(r)}
        /\ Move(r, [pc |-> "sandbox", kind |-> "k6", at |-> 0,
                    now |-> [run[r].now EXCEPT !.load = NoSamples]])
        /\ UNCHANGED <<lost, unready>>
     \/ /\ Tag(r) \in images /\ Fault("ready")
        /\ containers' = containers \union {App(r)} /\ unready' = unready \union {App(r)}
        /\ Move(r, Unwind)
        /\ UNCHANGED lost
     \/ Tag(r) \notin images /\ Calm /\ Move(r, Unwind) /\ UNCHANGED <<containers, lost, unready>>
     \/ /\ Fault("create")
        /\ containers' \in {containers, containers \union {App(r)}}
        /\ lost' = lost \union {App(r)}
        /\ Move(r, Unwind)
        /\ UNCHANGED unready
  /\ UNCHANGED <<world, manifest, images, untagged, worktrees, stale, shared, unstarted>>

-----------------------------------------------------------------------------
(* The finally clauses.                                                    *)

RemoveApp(r) ==
  /\ At(r, "logs")
  /\ \/ containers' = containers \ {App(r)} /\ Calm /\ UNCHANGED lost
     \/ Fault("rm") /\ lost' = lost \union {App(r)} /\ UNCHANGED containers
  /\ Move(r, [pc |-> "untag"])
  /\ UNCHANGED <<world, manifest, images, untagged, worktrees, unready, stale, shared, unstarted>>

\* docker image rm --force takes the tag from an image that a running container uses, and
\* leaves the image.
InUse(r) ==
  \/ \E c \in containers : Image(c) = Tag(r)
  \/ \E d \in Runs \ {r} : At(d, "sandbox") /\ Tag(d) = Tag(r)
RemoveImage(r) ==
  /\ At(r, "untag")
  /\ \/ /\ images' = images \ {Tag(r)} /\ Calm
        /\ untagged' \in {untagged} \union {untagged \union {tag} : tag \in images \intersect {Tag(r)}}
        /\ untagged' # untagged => InUse(r)
        /\ UNCHANGED stale
     \/ Fault("rm") /\ stale' = stale \union {Tag(r)} /\ UNCHANGED <<images, untagged>>
  /\ Move(r, [pc |-> "leave"])
  /\ UNCHANGED <<world, manifest, containers, worktrees, lost, unready, shared, unstarted>>

-----------------------------------------------------------------------------
(* What the phase ends in.                                                 *)

Idle == [argv |-> None, kind |-> "check", at |-> 1, now |-> Fresh]
NextPhase(r, observed) ==
  [pc |-> "enter", phase |-> run[r].phase + 1, observed |-> observed] ++ Idle
Ended(verdict) == [pc |-> "ended", verdict |-> verdict, observed |-> <<>>] ++ Idle

\* measure_baseline and measure_candidate: only a baseline that passed is compared.
Analysed(r, o) ==
  CASE run[r].stop # None -> Ended("error")
    [] run[r].stop = None /\ Phase(r) = "baseline" ->
         IF PhaseStatus(run[r].now) = "passed" THEN NextPhase(r, o) ELSE Ended("unmeasured")
    [] OTHER -> [finding |-> Finding(o[1], o[2]), observed |-> o] ++ Ended(Comparison(o[1], o[2]))

\* What fails in the fix phase is inconclusive, before it the remediation fails; git that
\* takes too long raises out of verify() as well.
Remediated(r, o) ==
  CASE Phase(r) # "fix" -> IF run[r].stop # None THEN Ended("error") ELSE NextPhase(r, o)
    [] Phase(r) = "fix" /\ run[r].stop = "raised" -> Ended("inconclusive")
    [] Phase(r) = "fix" /\ run[r].stop = "timed_out" -> Ended("error")
    [] Phase(r) = "fix" /\ run[r].stop = "rejected" -> Ended("failed")
    [] OTHER -> [observed |-> o] ++ Ended(FixStatus(o[1], o[2], o[3]))

Concluded(r) ==
  LET o == IF run[r].stop = None THEN Append(run[r].observed, run[r].now) ELSE run[r].observed
  IN  IF Kind[r] = "analysis" THEN Analysed(r, o) ELSE Remediated(r, o)

Leave(r) ==
  /\ At(r, "leave")
  /\ worktrees' = worktrees \ {r} /\ Calm
  /\ Move(r, Concluded(r))
  /\ UNCHANGED <<world, manifest, daemon, history>>

\* Git does not remove the worktree: an exception, but the fix phase does not look at what
\* git says, only subprocess.run raises there.
LeaveFails(r) ==
  /\ At(r, "leave") /\ r \in worktrees /\ Fault("worktree")
  /\ Move(r, Ended("error")) \/ (r \in Fixing /\ Move(r, Concluded(r)))
  /\ UNCHANGED <<world, manifest, daemon, worktrees, history>>

Step(r) ==
  \/ Enter(r) \/ Build(r) \/ RunSandbox(r) \/ StartApp(r)
  \/ RemoveApp(r) \/ RemoveImage(r) \/ Leave(r) \/ LeaveFails(r)
Next == \E r \in Runs : Step(r)
Spec == Init /\ [][Next]_vars

-----------------------------------------------------------------------------
(***************************************************************************)
(* Properties.                                                             *)
(***************************************************************************)
\* What an undisturbed measurement of the i-th phase observes, with the commands its checks
\* were run with.  A container that did not start is a failed test in every measurement.
Constant(x, n) == [i \in 1..n |-> x]
Passes(r, i, id, argv) ==
  argv \in World.truth[Phases(r)[i]].passes /\ <<r, Phases(r)[i], id>> \notin unstarted
Undisturbed(r, i) ==
  LET truth == World.truth[Phases(r)[i]]
      argv(id) == run[r].observed[i].checks[id].argv
  IN  [checks |-> [id \in ToSet(Checks) |->
                     [outcome |-> IF Passes(r, i, id, argv(id)) THEN "passed" ELSE "test_failed",
                      argv |-> argv(id)]],
       load |-> IF World.loads = 0 THEN None
                ELSE [queries |-> Constant(truth.queries, Repetitions),
                      p95 |-> Constant(truth.p95, Repetitions)]]

\* The samples of a run show what disturbed them: they scatter, or their median is right.
Shows(r) ==
  \A i \in DOMAIN run[r].observed :
    LET o == run[r].observed[i] IN
    \/ o.load = None \/ Scattered(o.load.p95)
    \/ P95(o) = 2 * World.truth[Phases(r)[i]].p95

Decided(r) ==
  /\ At(r, "ended") /\ run[r].verdict \in {"passed", "failed"}
  /\ run[r].stop = None

\* A verdict that is decided is the one of an undisturbed measurement with the same
\* commands: another run that removes the shared image, a timeout, a failed attempt or
\* samples that show a disturbance only ever make a run inconclusive or end in an error.
Regressed(b, c) == CandidateOnly(b, c) # {} \/ QueryRegression(b, c) \/ LatencyRegression(b, c)
DecidedIsUndisturbed ==
  \A r \in Runs :
    LET u(i) == Undisturbed(r, i) IN
    Decided(r) /\ Shows(r) =>
      (run[r].verdict = "passed" <=>
         IF Kind[r] = "analysis" THEN ~Regressed(u(1), u(2))
         ELSE ~Regressed(u(1), u(3)) /\ Regressed(u(3), u(2)))

\* A fix that passed is, by what its code does, no worse than the baseline, and the
\* candidate is worse than the fix.  A check whose container did not start counts as failed,
\* so that in the candidate phase it may earn the fix its "passed", as in the code.
Worse(r, i, j) ==
  LET before == World.truth[Phases(r)[i]]
      after == World.truth[Phases(r)[j]]
  IN  \/ \E id \in ToSet(Checks) : Passes(r, i, id, Fixture) /\ ~Passes(r, j, id, Fixture)
      \/ /\ World.loads = 1
         /\ \/ /\ after.queries >= before.queries + MinQueryIncrease
               /\ AtLeast(after.queries, before.queries, MinQueryRatio)
            \/ AtLeast(after.p95, before.p95, MinP95Ratio)
FixEarned ==
  \A r \in Runs :
    Kind[r] = "remediation" /\ At(r, "ended") /\ run[r].verdict = "passed" /\ Shows(r) =>
      World.applies /\ ~Worse(r, 1, 3) /\ Worse(r, 3, 2)

\* What an ended run leaves in the daemon: containers whose creation or removal timed out
\* and applications that were never ready; an image without its tag only where such a
\* container or another run of the same commit used it; and, when all ended, no tag but that
\* of the base image and those of builds and removals that failed.
NothingElseLeft ==
  /\ \A c \in containers : run[c[1]].pc = "ended" => c \in lost \union unready
  /\ untagged \subseteq shared \union {Image(c) : c \in lost \union unready}
  /\ (\A r \in Runs : run[r].pc = "ended") => images \subseteq stale \union {Base}

(***************************************************************************)
(* Not so in the code; see the README.                                     *)
(***************************************************************************)
\* Samples that scatter too much are never the ground of a runtime regression.
NoiseIsNoRegression ==
  \A r \in Runs :
    LET o == run[r].observed IN run[r].finding => QueryRegression(o[1], o[2]) \/ ~Noisy(o[1], o[2])

\* A failure of the tools is never a failure of the candidate.
ToolFailureIsInconclusive ==
  \A c \in unstarted : run[c[1]].verdict # "failed"

\* Baseline and candidate are measured with the same commands.
Argv(r, i) == {run[r].observed[i].checks[w].argv : w \in DOMAIN run[r].observed[i].checks}
SameDefinitions ==
  \A r \in Runs : Len(run[r].observed) > 1 => Argv(r, 1) = Argv(r, 2)

\* The application is removed, and its logs are kept, whatever the phase ends in.
AppRemoved == \A c \in containers : run[c[1]].pc = "ended" => c \in lost
=============================================================================
