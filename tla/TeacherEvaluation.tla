------------------------- MODULE TeacherEvaluation --------------------------
(***************************************************************************)
(* The staged evaluation of the geometry teacher, scripts/                 *)
(* evaluate_aloha_geometry_teacher.py: commands for the stages exact,      *)
(* tuning and full of one registered plan, and in each the rollouts in     *)
(* which the teacher (sim/geometry_teacher.py) decides, local inverse      *)
(* kinematics or a retained MoveIt trajectory (the executor of sim/        *)
(* moveit_aloha_planner.py) turns the decision into a command, and the     *)
(* simulator takes it.  Poses, distances and plans are free choices; the   *)
(* client and its sidecar are the subject of MoveItClient.                 *)
(***************************************************************************)
EXTENDS Naturals, Sequences, FiniteSets

CONSTANTS
  Procs,         \* commands that may run at the same time
  Seeds,         \* simulator seeds of the stages tuning and full
  Required,      \* successes these two require
  MaxSteps,      \* maximum_steps of the plan
  MaxWaypoints   \* bound on the waypoints of a trajectory, at least two

ASSUME EvaluationAssumption ==
  /\ Procs # {}
  /\ Seeds \in Nat \ {0} /\ Required \in 0..Seeds
  /\ MaxSteps \in Nat \ {0}
  /\ MaxWaypoints \in Nat /\ MaxWaypoints >= 2

Stages == <<"exact", "tuning", "full">>
StageNames == {Stages[i] : i \in 1..Len(Stages)}
Earlier(s) == {Stages[i] : i \in {j \in 1..Len(Stages) : \E k \in 1..Len(Stages) : j < k /\ Stages[k] = s}}
SeedsOf(s) == IF s = "exact" THEN 1 ELSE Seeds
RequiredOf(s) == IF s = "exact" THEN 1 ELSE Required

\* InsertionTeacherPhase, in its order.
Phases == <<"open", "approach", "orient", "descend", "grasp", "lift",
            "coarse_align", "insert", "complete">>
PhaseNames == {Phases[i] : i \in 1..Len(Phases)}
Rank(f) == CHOOSE i \in 1..Len(Phases) : Phases[i] = f

\* The phases every plan with a MoveIt fallback must register for it and for the
\* feedforward near the table.
PlannerPhases == {"approach", "orient", "lift"}
FeedforwardPhases == {"descend", "grasp"}

VARIABLES
  log,        \* the stages whose .moveit.stderr.log exists
  report,     \* the report files of the stages
  cmd,        \* the running commands
  teacher, executor, seed,   \* of the rollout each command is at
  evaluated   \* history: how often the rollouts of a stage began

rollout == <<teacher, executor, seed>>
vars == <<log, report, cmd, rollout, evaluated>>

Idle == [pc |-> "idle", stage |-> "none", index |-> 0, successes |-> 0,
         refusals |-> 0, completed |-> FALSE, passed |-> FALSE]
NewTeacher == [phase |-> "open", best |-> 0, grasp |-> FALSE, alignment |-> FALSE]
NoPlan == [phase |-> "none", waypoints |-> 0, next |-> 0, latched |-> FALSE]

\* What the report of a seed counts; releases, lost and installs are history:
\* completions of the executor, those whose step the Mink backoff solved, and
\* plans installed.
NewSeed == [step |-> 0, activations |-> 0, completions |-> 0,
            releases |-> 0, lost |-> 0, installs |-> 0]

\* A fresh environment, teacher and executor for every seed.
Fresh(p) ==
  /\ teacher' = [teacher EXCEPT ![p] = NewTeacher]
  /\ executor' = [executor EXCEPT ![p] = NoPlan]
  /\ seed' = [seed EXCEPT ![p] = NewSeed]

\* What an exception or a kill leaves: the files.
Ends(p) == cmd' = [cmd EXCEPT ![p] = Idle] /\ Fresh(p)

-----------------------------------------------------------------------------
(* _main(): the head of a command                                          *)

\* _require_prior_stage(), for every earlier stage.
Accepted(s) == \A e \in Earlier(s) : report[e] = "passed"

Start(p, s) ==
  /\ cmd[p].pc = "idle" /\ Accepted(s)
  /\ cmd' = [cmd EXCEPT ![p] = [Idle EXCEPT !.pc = "settings", !.stage = s]]
  /\ UNCHANGED <<log, report, rollout, evaluated>>

\* MoveItAlohaPlannerSettings refuses an existing log, after the calibration.
Settings(p) ==
  /\ cmd[p].pc = "settings"
  /\ IF cmd[p].stage \in log THEN Ends(p)
     ELSE cmd' = [cmd EXCEPT ![p].pc = "construct"] /\ UNCHANGED rollout
  /\ UNCHANGED <<log, report, evaluated>>

\* Wrong on purpose: the log is opened for writing, whoever created it.
Truncates(s) == TRUE
\* MoveItAlohaPlanner opens the log with "x".
Creates(s) == s \notin log

Construct(p) ==
  /\ cmd[p].pc = "construct"
  /\ LET s == cmd[p].stage IN
     IF Creates(s)
     THEN /\ log' = log \cup {s}
          /\ evaluated' = [evaluated EXCEPT ![s] = @ + 1]
          /\ cmd' = [cmd EXCEPT ![p].pc = "decide", ![p].index = 1]
          /\ Fresh(p)
     ELSE Ends(p) /\ UNCHANGED <<log, evaluated>>
  /\ UNCHANGED report

-----------------------------------------------------------------------------
(* The rollout of a seed                                                   *)

\* The report of the seed, and the next seed or the verdict.
EndSeed(p, success, refused, completions) ==
  /\ cmd' = [cmd EXCEPT
       ![p].successes = @ + IF success THEN 1 ELSE 0,
       ![p].refusals = @ + IF refused THEN 1 ELSE 0,
       ![p].completed = @ \/ completions > 0,
       ![p].index = @ + 1,
       ![p].pc = IF cmd[p].index = SeedsOf(cmd[p].stage) THEN "judge" ELSE "decide"]
  /\ Fresh(p)

\* decide(): the phases a loop over the tests of one observation may end in.  A
\* reward of one is a grasp, and a lift needs a reward of two.
Reaches(t) ==
  {f \in PhaseNames \ {"complete"} :
     /\ Rank(f) >= Rank(t.phase)
     /\ f = "grasp" => t.best = 0
     /\ Rank(f) > Rank("lift") => t.best >= 2}

\* Refused for the workspace, a collision or the drift of a grasp; otherwise the
\* phases passed leave their references.  Contact of the pin completes any phase
\* before anything is captured.
Decide(p) ==
  /\ cmd[p].pc = "decide"
  /\ \/ EndSeed(p, FALSE, TRUE, seed[p].completions)
     \/ /\ \E f \in Reaches(teacher[p]) \cup {"complete"} :
             teacher' = [teacher EXCEPT
               ![p].phase = f,
               ![p].grasp = @ \/ (f # "complete" /\ Rank(f) > Rank("grasp")),
               ![p].alignment = @ \/ (f # "complete" /\ Rank(f) > Rank("lift"))]
        /\ cmd' = [cmd EXCEPT ![p].pc = "solve"]
        /\ seed' = [seed EXCEPT ![p].step = @ + 1]
        /\ UNCHANGED executor
  /\ UNCHANGED <<log, report, evaluated>>

\* _ik_action(): done says that the arms are at the goal of the retained plan.
\* Its terminal control is complete then, and a plan of another phase is dropped.
Completes(p, done) == executor[p].phase = teacher[p].phase /\ executor[p].latched /\ done

\* Wrong on purpose: a completed plan stays; a plan goes at its goal, latched or not.
RetainedCompleted(p, done) ==
  IF executor[p].phase # teacher[p].phase THEN NoPlan ELSE executor[p]
RetainedUnlatched(p, done) ==
  IF executor[p].phase # teacher[p].phase \/ done THEN NoPlan ELSE executor[p]
Retained(p, done) ==
  IF executor[p].phase # teacher[p].phase \/ Completes(p, done) THEN NoPlan ELSE executor[p]

\* What this step adds to the counters of the seed.  The result of the backoff
\* is returned without the mark of the completion.
Counted(p, done, backoff, latched, installed) ==
  LET complete == Completes(p, done) IN
  seed' = [seed EXCEPT
    ![p].completions = @ + IF complete /\ ~backoff THEN 1 ELSE 0,
    ![p].lost = @ + IF complete /\ backoff THEN 1 ELSE 0,
    ![p].releases = @ + IF complete THEN 1 ELSE 0,
    ![p].activations = @ + IF latched THEN 1 ELSE 0,
    ![p].installs = @ + IF installed THEN 1 ELSE 0]

Acts(p) == cmd' = [cmd EXCEPT ![p].pc = "act"] /\ UNCHANGED teacher

\* command(): one waypoint further when the arms are near the present one.
Sampled(e, near) ==
  IF near /\ e.next < e.waypoints THEN [e EXCEPT !.next = @ + 1] ELSE e

\* The retained trajectory, or its latched terminal reference, is followed.
Follow(p) ==
  /\ cmd[p].pc = "solve"
  /\ \E done, near \in BOOLEAN :
       LET e == Retained(p, done) IN
       /\ e.waypoints > 0
       /\ e.latched \/ ~near \/ e.next < e.waypoints
       /\ executor' = [executor EXCEPT ![p] = IF e.latched THEN e ELSE Sampled(e, near)]
       /\ Counted(p, done, FALSE, FALSE, FALSE)
  /\ Acts(p)
  /\ UNCHANGED <<log, report, evaluated>>

\* Wrong on purpose: the terminal reference is latched one waypoint early.
HandsOffEarly(e) == e.waypoints > 0 /\ ~e.latched /\ e.next + 1 >= e.waypoints
\* terminal_handoff_ready of the command that reached the final waypoint.
HandsOff(e) == e.waypoints > 0 /\ ~e.latched /\ e.next = e.waypoints

\* The arms are near the final waypoint: the feedforward latches the terminal
\* reference and the command is sampled again, or its failure ends the rollout.
Latch(p) ==
  /\ cmd[p].pc = "solve"
  /\ LET e == Sampled(Retained(p, FALSE), TRUE) IN
     /\ HandsOff(e)
     /\ \/ /\ executor' = [executor EXCEPT ![p] = [e EXCEPT !.latched = TRUE]]
           /\ Counted(p, FALSE, FALSE, TRUE, FALSE)
           /\ Acts(p)
        \/ EndSeed(p, FALSE, TRUE, seed[p].completions)
  /\ UNCHANGED <<log, report, evaluated>>

\* Without a retained plan Mink solves for the target, or in the phases that hold
\* the objects for a part of the way.
SolveLocally(p) ==
  /\ cmd[p].pc = "solve"
  /\ \E done, backoff \in BOOLEAN :
       /\ Retained(p, done).waypoints = 0
       /\ backoff => teacher[p].phase \in {"lift", "coarse_align", "insert"}
       /\ executor' = [executor EXCEPT ![p] = NoPlan]
       /\ Counted(p, done, backoff, FALSE, FALSE)
  /\ Acts(p)
  /\ UNCHANGED <<log, report, evaluated>>

\* install() resets what the last plan left.
Installed(f, n) == [phase |-> f, waypoints |-> n, next |-> 1, latched |-> FALSE]

\* _moveit_path_action(): the plan for the target, for a part of the way, in a
\* trust region or for the positions alone; the first found is installed and
\* sampled.
PlanPath(p) ==
  /\ cmd[p].pc = "solve"
  /\ teacher[p].phase \in PlannerPhases
  /\ \E done, near \in BOOLEAN, n \in 2..MaxWaypoints :
       LET e == Retained(p, done) IN
       /\ e.waypoints = 0
       /\ executor' = [executor EXCEPT ![p] =
            Sampled(Installed(teacher[p].phase, n), near)]
       /\ Counted(p, done, FALSE, FALSE, TRUE)
  /\ Acts(p)
  /\ UNCHANGED <<log, report, evaluated>>

\* Neither Mink nor the planner has a command.  The completion is counted, the
\* rollout ends.
GiveUp(p) ==
  /\ cmd[p].pc = "solve"
  /\ \E done \in BOOLEAN :
       /\ Retained(p, done).waypoints = 0
       /\ EndSeed(p, FALSE, TRUE, seed[p].completions + IF Completes(p, done) THEN 1 ELSE 0)
  /\ UNCHANGED <<log, report, evaluated>>

\* Wrong on purpose: one step more than range(maximum_steps).
OneMoreStep(p) == seed[p].step > MaxSteps
LastStep(p) == seed[p].step >= MaxSteps

\* The feedforward near the table and environment.step(); a reward of four ends
\* the rollout, one of three is as good as two.  The next decide() alone reads the
\* reward, as the best so far.
Act(p) ==
  /\ cmd[p].pc = "act"
  /\ \/ /\ teacher[p].phase \in FeedforwardPhases
        /\ EndSeed(p, FALSE, TRUE, seed[p].completions)
     \/ EndSeed(p, TRUE, FALSE, seed[p].completions)
     \/ /\ LastStep(p)
        /\ EndSeed(p, FALSE, FALSE, seed[p].completions)
     \/ /\ ~LastStep(p)
        /\ \E reward \in 0..2 :
             teacher' = [teacher EXCEPT ![p].best = IF reward > @ THEN reward ELSE @]
        /\ cmd' = [cmd EXCEPT ![p].pc = "decide"]
        /\ UNCHANGED <<executor, seed>>
  /\ UNCHANGED <<log, report, evaluated>>

-----------------------------------------------------------------------------
(* _main(): the verdict                                                    *)

\* The criteria the model knows; the others may fail at any time.
Passes(c) == c.successes >= RequiredOf(c.stage) /\ c.refusals = 0 /\ c.completed

Judge(p) ==
  /\ cmd[p].pc = "judge"
  /\ \E others \in BOOLEAN :
       cmd' = [cmd EXCEPT ![p].pc = "create", ![p].passed = others /\ Passes(cmd[p])]
  /\ UNCHANGED <<log, report, rollout, evaluated>>

\* create_json(): another report is never replaced; then it is written.
Create(p) ==
  /\ cmd[p].pc = "create"
  /\ IF report[cmd[p].stage] = "absent"
     THEN /\ report' = [report EXCEPT ![cmd[p].stage] = "torn"]
          /\ cmd' = [cmd EXCEPT ![p].pc = "fill"]
          /\ UNCHANGED rollout
     ELSE Ends(p) /\ UNCHANGED report
  /\ UNCHANGED <<log, evaluated>>

Fill(p) ==
  /\ cmd[p].pc = "fill"
  /\ report' = [report EXCEPT ![cmd[p].stage] = IF cmd[p].passed THEN "passed" ELSE "failed"]
  /\ Ends(p)
  /\ UNCHANGED <<log, evaluated>>

\* The command is killed, or ends by an exception: the planner breaks its
\* protocol, or a waypoint would have to be clipped.
Kill(p) ==
  /\ cmd[p].pc # "idle"
  /\ Ends(p)
  /\ UNCHANGED <<log, report, evaluated>>

Init ==
  /\ log = {}
  /\ report = [s \in StageNames |-> "absent"]
  /\ cmd = [p \in Procs |-> Idle]
  /\ teacher = [p \in Procs |-> NewTeacher]
  /\ executor = [p \in Procs |-> NoPlan]
  /\ seed = [p \in Procs |-> NewSeed]
  /\ evaluated = [s \in StageNames |-> 0]

Next == \E p \in Procs :
  \/ \E s \in StageNames : Start(p, s)
  \/ Settings(p) \/ Construct(p) \/ Decide(p)
  \/ Follow(p) \/ Latch(p) \/ SolveLocally(p) \/ PlanPath(p) \/ GiveUp(p)
  \/ Act(p) \/ Judge(p) \/ Create(p) \/ Fill(p) \/ Kill(p)

Spec == Init /\ [][Next]_vars

-----------------------------------------------------------------------------
(* Properties                                                              *)

\* The type invariant of the files, the commands and their rollouts.
TypeOK ==
  /\ log \subseteq StageNames
  /\ report \in [StageNames -> {"absent", "torn", "failed", "passed"}]
  /\ evaluated \in [StageNames -> Nat]
  /\ cmd \in [Procs -> [pc : {"idle", "settings", "construct", "decide", "solve",
                              "act", "judge", "create", "fill"},
                        stage : StageNames \cup {"none"}, index : 0..(Seeds + 1),
                        successes : 0..Seeds, refusals : 0..Seeds,
                        completed : BOOLEAN, passed : BOOLEAN]]
  /\ teacher \in [Procs -> [phase : PhaseNames, best : 0..2,
                            grasp : BOOLEAN, alignment : BOOLEAN]]
  /\ executor \in [Procs -> [phase : PhaseNames \cup {"none"}, waypoints : 0..MaxWaypoints,
                             next : 0..MaxWaypoints, latched : BOOLEAN]]
  /\ seed \in [Procs -> [step : 0..MaxSteps, activations : 0..MaxSteps,
                         completions : 0..MaxSteps, releases : 0..MaxSteps,
                         lost : 0..MaxSteps, installs : 0..MaxSteps]]

\* A command that is executed follows references of now: a plan retained by the
\* executor was made in the phase the teacher is in, its terminal reference is
\* latched at the final waypoint of this very plan, and the phases that hold the
\* objects have the references their targets and their drift are measured by
\* (the GeometryTeacherErrors "has no ..." never happen).
ReferenceIsCurrent == \A p \in Procs :
  /\ cmd[p].pc = "act" => executor[p].phase \in {"none", teacher[p].phase}
  /\ executor[p].latched => executor[p].waypoints > 0 /\ executor[p].next = executor[p].waypoints
  /\ teacher[p].phase \in {"lift", "coarse_align", "insert"} => teacher[p].grasp
  /\ teacher[p].phase \in {"coarse_align", "insert"} => teacher[p].alignment

\* Within a phase a plan gives way to another one, or to local solving, only when
\* its terminal control is complete: however often Mink fails meanwhile, the
\* planner is not asked again before.
KeptUntilComplete ==
  [][\A p \in Procs :
       /\ cmd[p].pc = "solve" /\ cmd'[p].pc = "act"
       /\ executor[p].waypoints > 0 /\ executor[p].phase = teacher[p].phase
       /\ \/ seed'[p].installs > seed[p].installs
          \/ executor'[p].waypoints = 0
       => executor[p].latched /\ seed'[p].releases > seed[p].releases]_vars

\* The counters of a seed agree with what the executor did: no reference is
\* released that was not latched, and every release is reported except those
\* whose step the backoff solved.
CountsAreTrue == \A p \in Procs :
  /\ seed[p].completions + seed[p].lost = seed[p].releases
  /\ seed[p].activations >= seed[p].releases + (IF executor[p].latched THEN 1 ELSE 0)

\* The rollouts of a stage are run once, by one command at a time and on passing
\* reports of the earlier stages; no race, kill or torn report opens them again.
OnceInOrder ==
  /\ \A s \in StageNames :
       /\ evaluated[s] <= 1
       /\ evaluated[s] = 1 => \A e \in Earlier(s) : report[e] = "passed"
  /\ Cardinality({p \in Procs : cmd[p].pc \notin {"idle", "settings", "construct"}}) <= 1
=============================================================================
