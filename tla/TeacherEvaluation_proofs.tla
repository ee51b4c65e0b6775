----------------------- MODULE TeacherEvaluation_proofs -----------------------
(***************************************************************************)
(* Proofs about TeacherEvaluation, for every number of commands, seeds,    *)
(* steps and waypoints.  What a command knows of its own rollout is an     *)
(* invariant of each command alone; that the stages are evaluated once and *)
(* in order rests on the files the commands share.                         *)
(***************************************************************************)
EXTENDS TeacherEvaluation, FiniteSetTheorems, TLAPS

-----------------------------------------------------------------------------
(* The stages and the phases.                                              *)

LEMMA StageFacts ==
  /\ StageNames = {"exact", "tuning", "full"}
  /\ Earlier("exact") = {} /\ Earlier("tuning") = {"exact"}
  /\ Earlier("full") = {"exact", "tuning"}
<1>1. Len(Stages) = 3 /\ 1..3 = {1, 2, 3}
  BY DEF Stages
<1>2. StageNames = {"exact", "tuning", "full"}
  BY <1>1 DEF StageNames, Stages
<1>3. \A s : Earlier(s) = {Stages[i] : i \in {j \in {1, 2, 3} :
                             \E k \in {1, 2, 3} : j < k /\ Stages[k] = s}}
  BY <1>1 DEF Earlier
<1>4. Earlier("exact") = {} /\ Earlier("tuning") = {"exact"}
  BY <1>3 DEF Stages
<1>5. Earlier("full") = {"exact", "tuning"}
  BY <1>3 DEF Stages
<1> QED BY <1>2, <1>4, <1>5

LEMMA PhaseFacts ==
  /\ PhaseNames = {"open", "approach", "orient", "descend", "grasp", "lift",
                   "coarse_align", "insert", "complete"}
  /\ Rank("grasp") = 5 /\ Rank("lift") = 6 /\ Rank("coarse_align") = 7
  /\ Rank("insert") = 8
<1>1. Len(Phases) = 9 /\ 1..9 = {1, 2, 3, 4, 5, 6, 7, 8, 9}
  BY DEF Phases
<1>2. PhaseNames = {Phases[i] : i \in {1, 2, 3, 4, 5, 6, 7, 8, 9}}
  BY <1>1 DEF PhaseNames
<1>3. ASSUME NEW i \in 1..9, NEW j \in 1..9, Phases[i] = Phases[j] PROVE i = j
  BY <1>3 DEF Phases
<1>4. \A i \in 1..9 : Rank(Phases[i]) = i
  BY <1>1, <1>3 DEF Rank
<1> QED BY <1>2, <1>4 DEF Phases

-----------------------------------------------------------------------------
(* The inductive invariant.                                                *)

CommandSet ==
  [pc : {"idle", "settings", "construct", "decide", "solve",
         "act", "judge", "create", "fill"},
   stage : StageNames \cup {"none"}, index : 0..(Seeds + 1),
   successes : 0..Seeds, refusals : 0..Seeds,
   completed : BOOLEAN, passed : BOOLEAN]
TeacherSet ==
  [phase : PhaseNames, best : 0..2, grasp : BOOLEAN, alignment : BOOLEAN]
ExecutorSet ==
  [phase : PhaseNames \cup {"none"}, waypoints : 0..MaxWaypoints,
   next : 0..MaxWaypoints, latched : BOOLEAN]
SeedSet ==
  [step : 0..MaxSteps, activations : 0..MaxSteps, completions : 0..MaxSteps,
   releases : 0..MaxSteps, lost : 0..MaxSteps, installs : 0..MaxSteps]

Waiting(c) == c.pc \in {"idle", "settings", "construct"}
Seeding(c) == c.pc \in {"decide", "solve", "act"}

\* How far a command has come.
Counting(c) ==
  /\ c.pc # "idle" => c.stage \in StageNames
  /\ Waiting(c) => c.index = 0 /\ c.successes = 0 /\ c.refusals = 0
  /\ Seeding(c) => /\ c.index \in 1..SeedsOf(c.stage)
                   /\ c.successes < c.index /\ c.refusals < c.index

\* Every counter of a seed grows at most once in a step.
Stepping(c, s) ==
  /\ c.pc = "decide" => s.step < MaxSteps
  /\ c.pc = "solve" => s.step > 0
  /\ LET last == IF c.pc = "solve" THEN s.step - 1 ELSE s.step
     IN  /\ s.activations <= last /\ s.completions <= last /\ s.releases <= last
         /\ s.lost <= last /\ s.installs <= last

\* A retained plan is followed to its final waypoint before it is latched.
Planned(e) ==
  \/ e = NoPlan
  \/ /\ e.phase \in PhaseNames /\ e.waypoints >= 2 /\ e.next \in 1..e.waypoints
     /\ e.latched => e.next = e.waypoints

\* The references of the rollout: ReferenceIsCurrent and CountsAreTrue of one
\* command.
Current(c, t, e) ==
  /\ c.pc = "act" => e.phase \in {"none", t.phase}
  /\ t.phase \in {"lift", "coarse_align", "insert"} => t.grasp
  /\ t.phase \in {"coarse_align", "insert"} => t.alignment
True(e, s) ==
  /\ s.completions + s.lost = s.releases
  /\ s.activations >= s.releases + (IF e.latched THEN 1 ELSE 0)

Local(c, t, e, s) ==
  /\ c \in CommandSet /\ t \in TeacherSet /\ e \in ExecutorSet /\ s \in SeedSet
  /\ Counting(c) /\ Stepping(c, s) /\ Planned(e) /\ Current(c, t, e) /\ True(e, s)

Locals == \A p \in Procs : Local(cmd[p], teacher[p], executor[p], seed[p])

Functions ==
  /\ cmd = [p \in Procs |-> cmd[p]] /\ teacher = [p \in Procs |-> teacher[p]]
  /\ executor = [p \in Procs |-> executor[p]] /\ seed = [p \in Procs |-> seed[p]]

\* The files: a log is written before the report, and whoever has created the
\* log of a stage is alone until its report is complete.
Files ==
  /\ log \subseteq StageNames
  /\ report \in [StageNames -> {"absent", "torn", "failed", "passed"}]
  /\ evaluated = [s \in StageNames |-> IF s \in log THEN 1 ELSE 0]
  /\ \A s \in StageNames : report[s] # "absent" => s \in log
  /\ \A s \in log : Accepted(s)

Alone ==
  /\ \A p \in Procs : cmd[p].pc # "idle" => Accepted(cmd[p].stage)
  /\ \A p \in Procs : ~ Waiting(cmd[p]) =>
       /\ cmd[p].stage \in log
       /\ report[cmd[p].stage] = IF cmd[p].pc = "fill" THEN "torn" ELSE "absent"
  /\ \A p, q \in Procs : ~ Waiting(cmd[p]) /\ ~ Waiting(cmd[q]) => p = q

IInv == Functions /\ Locals /\ Files /\ Alone

-----------------------------------------------------------------------------
(* What a step of one command leaves to the others.                        *)

Moves(p) ==
  /\ Functions'
  /\ \A q \in Procs \ {p} : /\ cmd'[q] = cmd[q] /\ teacher'[q] = teacher[q]
                            /\ executor'[q] = executor[q] /\ seed'[q] = seed[q]

LocalNext(p) == Local(cmd'[p], teacher'[p], executor'[p], seed'[p])

LEMMA OthersKeep ==
  ASSUME IInv, NEW p \in Procs, Moves(p), LocalNext(p)
  PROVE  Functions' /\ Locals'
BY DEF IInv, Moves, LocalNext, Locals

\* A command that ends, or goes on with the same stage and files.
Quiet(p) ==
  /\ log' = log /\ report' = report /\ evaluated' = evaluated
  /\ \/ cmd'[p].pc = "idle"
     \/ /\ cmd'[p].stage = cmd[p].stage /\ cmd[p].pc # "idle"
        /\ Waiting(cmd'[p]) <=> Waiting(cmd[p])
        /\ cmd'[p].pc = "fill" <=> cmd[p].pc = "fill"

LEMMA QuietKeeps ==
  ASSUME IInv, NEW p \in Procs, Moves(p), Quiet(p)
  PROVE  Files' /\ Alone'
<1>1. Files'
  BY DEF IInv, Quiet, Files, Accepted
<1>2. Alone'
  <2>1. \A q \in Procs : \/ Waiting(cmd'[q]) /\ cmd'[q].pc = "idle"
                         \/ /\ cmd'[q].stage = cmd[q].stage
                            /\ Waiting(cmd'[q]) <=> Waiting(cmd[q])
                            /\ cmd'[q].pc = "fill" <=> cmd[q].pc = "fill"
                            /\ cmd[q].pc = "idle" => cmd'[q].pc = "idle"
    BY DEF Moves, Quiet, Waiting
  <2> QED BY <2>1 DEF IInv, Quiet, Alone, Accepted
<1> QED BY <1>1, <1>2

\* The end of a command and the start of a rollout are possible in any state.
LEMMA Starts ==
  /\ Local(Idle, NewTeacher, NoPlan, NewSeed)
  /\ NewTeacher \in TeacherSet /\ NoPlan \in ExecutorSet /\ NewSeed \in SeedSet
<1> USE EvaluationAssumption, StageFacts, PhaseFacts
<1>1. Idle \in CommandSet
  BY DEF Idle, CommandSet
<1>2. NewTeacher \in TeacherSet
  BY DEF NewTeacher, TeacherSet
<1>3. NoPlan \in ExecutorSet
  BY DEF NoPlan, ExecutorSet
<1>4. NewSeed \in SeedSet
  BY DEF NewSeed, SeedSet
<1>5. Counting(Idle) /\ Stepping(Idle, NewSeed)
  BY DEF Counting, Stepping, Idle, NewSeed, Waiting, Seeding
<1>6. Planned(NoPlan) /\ Current(Idle, NewTeacher, NoPlan) /\ True(NoPlan, NewSeed)
  BY DEF Planned, Current, True, Idle, NewTeacher, NoPlan, NewSeed
<1> QED BY <1>1, <1>2, <1>3, <1>4, <1>5, <1>6 DEF Local

\* A command that ends leaves the files to the others.
LEMMA EndsKeeps ==
  ASSUME IInv, NEW p \in Procs, Ends(p)
  PROVE  Moves(p) /\ LocalNext(p) /\ cmd'[p].pc = "idle"
<1>1. Moves(p) /\ cmd'[p] = Idle /\ teacher'[p] = NewTeacher
               /\ executor'[p] = NoPlan /\ seed'[p] = NewSeed
  BY DEF IInv, Functions, Ends, Fresh, Moves
<1> QED BY <1>1, Starts DEF LocalNext, Idle

\* So does the end of a seed, whatever came out of it.
LEMMA EndSeedKeeps ==
  ASSUME IInv, NEW p \in Procs, NEW success \in BOOLEAN, NEW refused \in BOOLEAN,
         NEW completions \in Nat, Seeding(cmd[p]),
         EndSeed(p, success, refused, completions)
  PROVE  /\ Moves(p) /\ LocalNext(p)
         /\ cmd'[p].stage = cmd[p].stage /\ cmd'[p].pc \in {"decide", "judge"}
<1> USE EvaluationAssumption, StageFacts
<1> DEFINE c == cmd[p]
           d == [c EXCEPT !.successes = @ + IF success THEN 1 ELSE 0,
                          !.refusals = @ + IF refused THEN 1 ELSE 0,
                          !.completed = @ \/ completions > 0,
                          !.index = @ + 1,
                          !.pc = IF c.index = SeedsOf(c.stage) THEN "judge" ELSE "decide"]
<1>1. /\ Moves(p) /\ cmd'[p] = d
      /\ teacher'[p] = NewTeacher /\ executor'[p] = NoPlan /\ seed'[p] = NewSeed
  <2>1. cmd' = [cmd EXCEPT ![p] = d]
    BY DEF EndSeed
  <2> HIDE DEF d
  <2> QED BY <2>1 DEF IInv, Functions, EndSeed, Fresh, Moves
<1>2. c \in CommandSet /\ Counting(c) /\ c.stage \in StageNames
  BY DEF IInv, Locals, Local, Counting, Seeding
<1> HIDE DEF c
<1>3. SeedsOf(c.stage) \in 1..Seeds
  BY <1>2 DEF SeedsOf
<1>4. c.index \in 1..SeedsOf(c.stage) /\ c.successes < c.index /\ c.refusals < c.index
  BY <1>2 DEF Counting, c
<1>5. /\ d.stage = c.stage /\ d.passed = c.passed
      /\ d.pc \in {"decide", "judge"} /\ d.index = c.index + 1
  BY <1>2 DEF CommandSet
<1>6. d.pc = "decide" => c.index < SeedsOf(c.stage)
  BY <1>2, <1>3, <1>4 DEF CommandSet
<1>7. /\ d.successes \in Nat /\ d.successes <= c.successes + 1
      /\ d.refusals \in Nat /\ d.refusals <= c.refusals + 1
  BY <1>2 DEF CommandSet
<1>8. d \in CommandSet
  <2>1. (c.completed \/ completions > 0) \in BOOLEAN
    OBVIOUS
  <2>2. /\ c.index + 1 \in 0..(Seeds + 1)
        /\ c.successes + (IF success THEN 1 ELSE 0) \in 0..Seeds
        /\ c.refusals + (IF refused THEN 1 ELSE 0) \in 0..Seeds
    BY <1>2, <1>3, <1>4 DEF CommandSet
  <2>3. ASSUME NEW a \in 0..Seeds, NEW b \in 0..Seeds, NEW f \in BOOLEAN,
               NEW i \in 0..(Seeds + 1), NEW w \in {"judge", "decide"}
        PROVE [c EXCEPT !.successes = a, !.refusals = b, !.completed = f,
                        !.index = i, !.pc = w] \in CommandSet
    BY <1>2 DEF CommandSet
  <2> QED BY <2>1, <2>2, <2>3
<1> HIDE DEF d
<1>9. Counting(d)
  BY <1>2, <1>3, <1>4, <1>5, <1>6, <1>7 DEF Counting, Waiting, Seeding, CommandSet
<1>10. Stepping(d, NewSeed) /\ Current(d, NewTeacher, NoPlan)
  BY <1>5, EvaluationAssumption DEF Stepping, Current, NewSeed, NewTeacher, NoPlan
<1>11. Planned(NoPlan) /\ True(NoPlan, NewSeed)
  BY Starts DEF Local
<1>12. Local(d, NewTeacher, NoPlan, NewSeed)
  BY <1>8, <1>9, <1>10, <1>11, Starts DEF Local
<1> QED BY <1>1, <1>5, <1>12 DEF LocalNext, c

-----------------------------------------------------------------------------
(* The head of a command.                                                  *)

\* A fact used by every action: what the invariant says of its command.
LEMMA Here ==
  ASSUME IInv, NEW p \in Procs
  PROVE  Local(cmd[p], teacher[p], executor[p], seed[p])
BY DEF IInv, Locals

LEMMA StartKeeps ==
  ASSUME IInv, NEW p \in Procs, NEW s \in StageNames, Start(p, s)
  PROVE  IInv'
<1> DEFINE d == [Idle EXCEPT !.pc = "settings", !.stage = s]
<1>1. Moves(p) /\ cmd'[p] = d /\ UNCHANGED <<log, report, evaluated>>
      /\ teacher'[p] = teacher[p] /\ executor'[p] = executor[p] /\ seed'[p] = seed[p]
  BY DEF Start, IInv, Functions, Moves, rollout
<1>2. d \in CommandSet /\ d.stage = s /\ d.pc = "settings"
  <2>1. Idle \in CommandSet
    BY Starts DEF Local
  <2> QED BY <2>1 DEF CommandSet
<1>3. Counting(d)
  BY DEF Counting, Waiting, Seeding, Idle
<1>4. LocalNext(p)
  BY <1>1, <1>2, <1>3, Here DEF LocalNext, Local, Stepping, Current, Start
<1>5. Files'
  BY <1>1 DEF IInv, Files, Accepted
<1>6. Alone'
  BY <1>1, <1>2 DEF IInv, Alone, Accepted, Moves, Waiting, Start
<1> QED BY <1>1, <1>4, <1>5, <1>6, OthersKeep DEF IInv

LEMMA SettingsKeeps ==
  ASSUME IInv, NEW p \in Procs, Settings(p)
  PROVE  IInv'
<1>1. CASE cmd[p].stage \in log
  <2>1. Quiet(p)
    BY <1>1, EndsKeeps DEF Settings, Quiet
  <2> QED BY <1>1, <2>1, EndsKeeps, OthersKeep, QuietKeeps DEF Settings, IInv
<1>2. CASE cmd[p].stage \notin log
  <2>1. Moves(p) /\ cmd'[p] = [cmd[p] EXCEPT !.pc = "construct"]
        /\ UNCHANGED <<log, report, evaluated>>
        /\ teacher'[p] = teacher[p] /\ executor'[p] = executor[p] /\ seed'[p] = seed[p]
    BY <1>2 DEF Settings, IInv, Functions, Moves, rollout
  <2>2. cmd[p] \in CommandSet /\ cmd[p].pc = "settings" /\ Counting(cmd[p])
    BY Here DEF Local, Settings
  <2>3. cmd'[p] \in CommandSet /\ Counting(cmd'[p])
    BY <2>1, <2>2 DEF CommandSet, Counting, Waiting, Seeding
  <2>4. LocalNext(p)
    BY <2>1, <2>2, <2>3, Here DEF LocalNext, Local, Stepping, Current, CommandSet
  <2>5. Quiet(p)
    BY <2>1, <2>2 DEF Quiet, Waiting, CommandSet
  <2> QED BY <2>1, <2>4, <2>5, OthersKeep, QuietKeeps DEF IInv
<1> QED BY <1>1, <1>2

\* Whoever creates the log of a stage is the only command at a rollout: the
\* log of an earlier one has its report, and no later one may begin.
LEMMA ConstructKeeps ==
  ASSUME IInv, NEW p \in Procs, Construct(p)
  PROVE  IInv'
<1> DEFINE s == cmd[p].stage
<1>1. CASE ~ Creates(s)
  <2>1. Quiet(p)
    BY <1>1, EndsKeeps DEF Construct, Quiet
  <2> QED BY <1>1, <2>1, EndsKeeps, OthersKeep, QuietKeeps DEF Construct, IInv
<1>2. CASE Creates(s)
  <2>1. /\ Moves(p) /\ cmd'[p] = [cmd[p] EXCEPT !.pc = "decide", !.index = 1]
        /\ teacher'[p] = NewTeacher /\ executor'[p] = NoPlan /\ seed'[p] = NewSeed
        /\ log' = log \cup {s} /\ s \notin log /\ report' = report
    BY <1>2 DEF Construct, IInv, Functions, Moves, Fresh, Creates
  <2>2. cmd[p] \in CommandSet /\ cmd[p].pc = "construct" /\ Counting(cmd[p])
        /\ s \in StageNames
    BY Here DEF Local, Construct, Counting
  <2>3. SeedsOf(s) \in 1..Seeds
    BY EvaluationAssumption DEF SeedsOf
  <2>4. /\ cmd'[p] \in CommandSet /\ cmd'[p].pc = "decide" /\ cmd'[p].stage = s
        /\ Counting(cmd'[p])
    <3>1. 1 \in 0..(Seeds + 1)
      BY EvaluationAssumption
    <3>2. cmd'[p] \in CommandSet /\ cmd'[p].pc = "decide" /\ cmd'[p].stage = s
          /\ cmd'[p].index = 1 /\ cmd'[p].successes = cmd[p].successes
          /\ cmd'[p].refusals = cmd[p].refusals
      BY <2>1, <2>2, <3>1 DEF CommandSet
    <3> QED BY <2>2, <2>3, <3>2 DEF Counting, Waiting, Seeding
  <2>5. LocalNext(p)
    BY <2>1, <2>4, Starts, EvaluationAssumption
       DEF LocalNext, Local, Stepping, Current, NewSeed, NewTeacher, NoPlan
  <2>6. report[s] = "absent" /\ Accepted(s)
    BY <2>1, <2>2 DEF IInv, Files, Alone
  <2>7. Files'
    <3>1. evaluated' = [t \in StageNames |-> IF t \in log' THEN 1 ELSE 0]
      <4>1. evaluated' = [evaluated EXCEPT ![s] = @ + 1]
        BY <1>2 DEF Construct
      <4> QED BY <2>1, <2>2, <4>1 DEF IInv, Files
    <3>2. \A t \in log' : Accepted(t)'
      BY <2>1, <2>6 DEF IInv, Files, Accepted
    <3> QED BY <2>1, <2>2, <3>1, <3>2 DEF IInv, Files
  <2>8. \A q \in Procs : Waiting(cmd[q])
    <3> SUFFICES ASSUME NEW q \in Procs, ~ Waiting(cmd[q]) PROVE FALSE
      OBVIOUS
    <3>1. /\ cmd[q].stage \in log /\ report[cmd[q].stage] # "passed"
          /\ Accepted(cmd[q].stage) /\ cmd[q].stage \in StageNames
      BY DEF IInv, Alone, Files, Waiting
    <3>2. cmd[q].stage \notin Earlier(s) /\ s \notin Earlier(cmd[q].stage)
      BY <2>6, <3>1 DEF Accepted
    <3> QED BY <2>1, <2>2, <3>1, <3>2, StageFacts
  <2>9. Alone'
    <3>1. (\A q \in Procs : cmd[q].pc # "idle" => Accepted(cmd[q].stage))'
      <4> SUFFICES ASSUME NEW q \in Procs, cmd'[q].pc # "idle"
                   PROVE \A e \in Earlier(cmd'[q].stage) : report'[e] = "passed"
        BY DEF Accepted
      <4>1. CASE q = p
        BY <2>1, <2>4, <2>6, <4>1 DEF Accepted
      <4>2. CASE q # p
        BY <2>1, <4>2 DEF IInv, Alone, Accepted, Moves
      <4> QED BY <4>1, <4>2
    <3>2. \A q \in Procs : ~ Waiting(cmd'[q]) => q = p
      BY <2>1, <2>8 DEF Moves
    <3>3. s \in log' /\ report'[s] = "absent"
      BY <2>1, <2>6
    <3> QED BY <2>4, <3>1, <3>2, <3>3 DEF Alone
  <2> QED BY <2>1, <2>5, <2>7, <2>9, OthersKeep DEF IInv
<1> QED BY <1>1, <1>2

-----------------------------------------------------------------------------
(* The rollout.                                                            *)

\* The end of a seed is no matter of the files.
LEMMA EndSeedSuffices ==
  ASSUME IInv, NEW p \in Procs, NEW success \in BOOLEAN, NEW refused \in BOOLEAN,
         NEW completions \in Nat, Seeding(cmd[p]),
         EndSeed(p, success, refused, completions), UNCHANGED <<log, report, evaluated>>
  PROVE  IInv'
<1>1. Quiet(p)
  BY EndSeedKeeps DEF Quiet, Seeding, Waiting
<1> QED BY <1>1, EndSeedKeeps, OthersKeep, QuietKeeps DEF IInv

\* Nor is a step within a seed.
LEMMA SeedSuffices ==
  ASSUME IInv, NEW p \in Procs, Seeding(cmd[p]), Moves(p),
         NEW w \in {"decide", "solve", "act"}, cmd'[p] = [cmd[p] EXCEPT !.pc = w],
         teacher'[p] \in TeacherSet, executor'[p] \in ExecutorSet, seed'[p] \in SeedSet,
         Stepping(cmd'[p], seed'[p]), Planned(executor'[p]),
         Current(cmd'[p], teacher'[p], executor'[p]), True(executor'[p], seed'[p]),
         UNCHANGED <<log, report, evaluated>>
  PROVE  IInv'
<1>1. cmd[p] \in CommandSet /\ Counting(cmd[p])
  BY Here DEF Local
<1>2. cmd'[p] \in CommandSet /\ cmd'[p].pc = w /\ cmd'[p].stage = cmd[p].stage
      /\ cmd'[p].index = cmd[p].index /\ cmd'[p].successes = cmd[p].successes
      /\ cmd'[p].refusals = cmd[p].refusals
  BY <1>1 DEF CommandSet
<1>3. LocalNext(p)
  BY <1>1, <1>2 DEF LocalNext, Local, Counting, Seeding, Waiting
<1>4. Quiet(p)
  BY <1>2 DEF Quiet, Seeding, Waiting
<1> QED BY <1>3, <1>4, OthersKeep, QuietKeeps DEF IInv

LEMMA DecideKeeps ==
  ASSUME IInv, NEW p \in Procs, Decide(p)
  PROVE  IInv'
<1>1. /\ Seeding(cmd[p]) /\ cmd[p].pc = "decide" /\ teacher[p] \in TeacherSet
      /\ executor[p] \in ExecutorSet /\ seed[p] \in SeedSet
      /\ Stepping(cmd[p], seed[p]) /\ Planned(executor[p])
      /\ True(executor[p], seed[p]) /\ cmd[p] \in CommandSet
  BY Here DEF Local, Decide, Seeding
<1>2. CASE EndSeed(p, FALSE, TRUE, seed[p].completions)
  <2>1. seed[p].completions \in Nat
    BY <1>1 DEF SeedSet
  <2> QED BY <1>1, <1>2, <2>1, EndSeedSuffices DEF Decide
<1>3. CASE ~ EndSeed(p, FALSE, TRUE, seed[p].completions)
  <2>1. PICK f \in Reaches(teacher[p]) \cup {"complete"} :
          teacher' = [teacher EXCEPT
            ![p].phase = f,
            ![p].grasp = @ \/ (f # "complete" /\ Rank(f) > Rank("grasp")),
            ![p].alignment = @ \/ (f # "complete" /\ Rank(f) > Rank("lift"))]
    BY <1>3 DEF Decide
  <2>2. /\ cmd' = [cmd EXCEPT ![p].pc = "solve"]
        /\ seed' = [seed EXCEPT ![p].step = @ + 1]
        /\ executor' = executor /\ UNCHANGED <<log, report, evaluated>>
    BY <1>3 DEF Decide
  <2>3. Moves(p)
    BY <2>1, <2>2, Zenon DEF IInv, Functions, Moves
  <2>4. cmd'[p] = [cmd[p] EXCEPT !.pc = "solve"] /\ cmd'[p].pc = "solve"
    BY <1>1, <2>2 DEF IInv, Functions, CommandSet
  <2>5. f \in PhaseNames
    BY <2>1, PhaseFacts DEF Reaches
  <2>6. /\ teacher'[p] \in TeacherSet /\ teacher'[p].phase = f
        /\ f # "complete" /\ Rank(f) > 5 => teacher'[p].grasp
        /\ f # "complete" /\ Rank(f) > 6 => teacher'[p].alignment
    <3> DEFINE g == teacher[p].grasp \/ (f # "complete" /\ Rank(f) > Rank("grasp"))
               a == teacher[p].alignment \/ (f # "complete" /\ Rank(f) > Rank("lift"))
    <3>1. g \in BOOLEAN /\ a \in BOOLEAN
      OBVIOUS
    <3>2. (f # "complete" /\ Rank(f) > 5 => g) /\ (f # "complete" /\ Rank(f) > 6 => a)
      BY PhaseFacts
    <3>3. teacher' = [teacher EXCEPT ![p].phase = f, ![p].grasp = g, ![p].alignment = a]
      BY <2>1
    <3> HIDE DEF g, a
    <3>4. teacher'[p] = [teacher[p] EXCEPT !.phase = f, !.grasp = g, !.alignment = a]
      BY <3>3, Zenon DEF IInv, Functions
    <3> QED BY <1>1, <2>5, <3>1, <3>2, <3>4 DEF TeacherSet
  <2>7. /\ seed'[p] \in SeedSet /\ Stepping(cmd'[p], seed'[p])
        /\ True(executor'[p], seed'[p])
    <3>1. seed'[p] = [seed[p] EXCEPT !.step = @ + 1]
      BY <2>2, Zenon DEF IInv, Functions
    <3>2. seed[p].step + 1 \in 0..MaxSteps
      BY <1>1, EvaluationAssumption DEF Stepping, SeedSet
    <3> QED BY <1>1, <2>2, <2>4, <3>1, <3>2 DEF SeedSet, Stepping, True
  <2>8. Current(cmd'[p], teacher'[p], executor'[p])
    BY <2>4, <2>6, PhaseFacts DEF Current
  <2> QED BY <1>1, <2>2, <2>3, <2>4, <2>6, <2>7, <2>8, SeedSuffices
<1> QED BY <1>2, <1>3

\* What a step adds to the counters of the seed.
LEMMA CountedAdds ==
  ASSUME IInv, NEW p \in Procs, cmd[p].pc = "solve", NEW done \in BOOLEAN,
         NEW backoff \in BOOLEAN, NEW latched \in BOOLEAN, NEW installed \in BOOLEAN,
         Counted(p, done, backoff, latched, installed)
  PROVE  /\ seed' = [q \in Procs |-> seed'[q]]
         /\ \A q \in Procs \ {p} : seed'[q] = seed[q]
         /\ seed'[p] \in SeedSet
         /\ seed'[p].completions + seed'[p].lost = seed'[p].releases
         /\ seed'[p].releases = seed[p].releases + (IF Completes(p, done) THEN 1 ELSE 0)
         /\ seed'[p].activations = seed[p].activations + (IF latched THEN 1 ELSE 0)
         /\ seed'[p].installs = seed[p].installs + (IF installed THEN 1 ELSE 0)
         /\ \A c : c.pc = "act" => Stepping(c, seed'[p])
<1> DEFINE more(yes) == IF yes THEN 1 ELSE 0
           lost == Completes(p, done) /\ backoff
           done1 == Completes(p, done) /\ ~ backoff
           s == seed[p]
           n == [s EXCEPT !.completions = @ + more(done1),
                          !.lost = @ + more(lost),
                          !.releases = @ + more(Completes(p, done)),
                          !.activations = @ + more(latched),
                          !.installs = @ + more(installed)]
<1>1. /\ s \in SeedSet /\ s.step > 0
      /\ s.activations <= s.step - 1 /\ s.completions <= s.step - 1
      /\ s.releases <= s.step - 1 /\ s.lost <= s.step - 1 /\ s.installs <= s.step - 1
      /\ s.completions + s.lost = s.releases
  BY Here DEF Local, Stepping, True
<1>2. seed' = [seed EXCEPT ![p] = n]
  BY DEF Counted
<1>3. /\ more(done1) \in 0..1 /\ more(lost) \in 0..1 /\ more(latched) \in 0..1
      /\ more(installed) \in 0..1 /\ more(Completes(p, done)) \in 0..1
      /\ more(done1) + more(lost) = more(Completes(p, done))
  OBVIOUS
<1> HIDE DEF more, lost, done1, s
<1>4. /\ n.step = s.step /\ n.completions = s.completions + more(done1)
      /\ n.lost = s.lost + more(lost)
      /\ n.releases = s.releases + more(Completes(p, done))
      /\ n.activations = s.activations + more(latched)
      /\ n.installs = s.installs + more(installed)
  BY <1>1 DEF SeedSet
<1>5. n \in SeedSet
  <2>1. ASSUME NEW c \in 0..MaxSteps, NEW l \in 0..MaxSteps, NEW r \in 0..MaxSteps,
               NEW a \in 0..MaxSteps, NEW i \in 0..MaxSteps
        PROVE [s EXCEPT !.completions = c, !.lost = l, !.releases = r,
                        !.activations = a, !.installs = i] \in SeedSet
    BY <1>1 DEF SeedSet
  <2>2. /\ s.completions + more(done1) \in 0..MaxSteps
        /\ s.lost + more(lost) \in 0..MaxSteps
        /\ s.releases + more(Completes(p, done)) \in 0..MaxSteps
        /\ s.activations + more(latched) \in 0..MaxSteps
        /\ s.installs + more(installed) \in 0..MaxSteps
    BY <1>1, <1>3, EvaluationAssumption DEF SeedSet
  <2> QED BY <2>1, <2>2
<1> HIDE DEF n
<1>6. /\ seed' = [q \in Procs |-> seed'[q]] /\ seed'[p] = n
      /\ \A q \in Procs \ {p} : seed'[q] = seed[q]
  BY <1>2 DEF IInv, Functions
<1>7. n.completions + n.lost = n.releases
  BY <1>1, <1>3, <1>4 DEF SeedSet
<1>8. ASSUME NEW c, c.pc = "act" PROVE Stepping(c, n)
  BY <1>1, <1>3, <1>4, <1>8 DEF Stepping, SeedSet
<1> QED BY <1>4, <1>5, <1>6, <1>7, <1>8 DEF more, s

\* The executor keeps its plan in the phase it was made for, until it is
\* complete.
LEMMA RetainedIs ==
  ASSUME NEW p \in Procs, NEW done \in BOOLEAN
  PROVE  \/ Retained(p, done) = NoPlan
         \/ /\ Retained(p, done) = executor[p] /\ ~ Completes(p, done)
            /\ executor[p].phase = teacher[p].phase
BY DEF Retained

\* A waypoint further along the plan, not beyond the last.
LEMMA SampledIs ==
  ASSUME NEW e \in ExecutorSet, Planned(e), NEW near \in BOOLEAN, e.waypoints > 0, ~ e.latched
  PROVE  /\ Sampled(e, near) \in ExecutorSet /\ Planned(Sampled(e, near))
         /\ Sampled(e, near).phase = e.phase /\ Sampled(e, near).waypoints = e.waypoints
         /\ ~ Sampled(e, near).latched
<1>1. /\ e.phase \in PhaseNames /\ e.waypoints >= 2 /\ e.next \in 1..e.waypoints
      /\ e.waypoints <= MaxWaypoints /\ e.waypoints \in Nat
  BY DEF Planned, NoPlan, ExecutorSet
<1>2. CASE near /\ e.next < e.waypoints
  <2>1. Sampled(e, near) = [e EXCEPT !.next = @ + 1]
    BY <1>2 DEF Sampled
  <2>2. e.next + 1 \in 0..MaxWaypoints /\ e.next + 1 \in 1..e.waypoints
    BY <1>1, <1>2, EvaluationAssumption
  <2> QED BY <1>1, <2>1, <2>2 DEF ExecutorSet, Planned
<1>3. CASE ~ (near /\ e.next < e.waypoints)
  BY <1>3 DEF Sampled
<1> QED BY <1>2, <1>3

LEMMA FollowKeeps ==
  ASSUME IInv, NEW p \in Procs, Follow(p)
  PROVE  IInv'
<1>1. /\ Seeding(cmd[p]) /\ cmd[p].pc = "solve" /\ cmd[p] \in CommandSet
      /\ teacher[p] \in TeacherSet /\ executor[p] \in ExecutorSet
      /\ Planned(executor[p]) /\ True(executor[p], seed[p])
      /\ Current(cmd[p], teacher[p], executor[p])
  BY Here DEF Local, Follow, Seeding
<1>2. PICK done \in BOOLEAN, near \in BOOLEAN :
        LET e == Retained(p, done) IN
        /\ e.waypoints > 0
        /\ executor' = [executor EXCEPT ![p] = IF e.latched THEN e ELSE Sampled(e, near)]
        /\ Counted(p, done, FALSE, FALSE, FALSE)
  BY DEF Follow
<1>3. /\ Retained(p, done) = executor[p] /\ ~ Completes(p, done)
      /\ executor[p].phase = teacher[p].phase /\ executor[p].waypoints > 0
  BY <1>2, RetainedIs DEF NoPlan
<1>4. /\ Moves(p) /\ cmd'[p] = [cmd[p] EXCEPT !.pc = "act"] /\ cmd'[p].pc = "act"
      /\ teacher' = teacher
      /\ executor'[p] = IF executor[p].latched THEN executor[p] ELSE Sampled(executor[p], near)
  BY <1>1, <1>2, <1>3, CountedAdds
     DEF Follow, Acts, IInv, Functions, Moves, CommandSet
<1>5. executor'[p] \in ExecutorSet /\ Planned(executor'[p])
      /\ executor'[p].phase = teacher[p].phase /\ executor'[p].latched = executor[p].latched
  BY <1>1, <1>3, <1>4, SampledIs DEF ExecutorSet
<1>6. /\ seed'[p] \in SeedSet /\ Stepping(cmd'[p], seed'[p])
      /\ True(executor'[p], seed'[p])
  <2>1. Counted(p, done, FALSE, FALSE, FALSE)
    BY <1>2
  <2>2. /\ seed'[p] \in SeedSet /\ Stepping(cmd'[p], seed'[p])
        /\ seed'[p].completions + seed'[p].lost = seed'[p].releases
        /\ seed'[p].releases = seed[p].releases + 0
        /\ seed'[p].activations = seed[p].activations + 0
    BY <1>1, <1>3, <1>4, <2>1, CountedAdds
  <2>3. seed[p] \in SeedSet
    BY Here DEF Local
  <2> QED BY <1>1, <1>5, <2>2, <2>3 DEF True, SeedSet
<1>7. Current(cmd'[p], teacher'[p], executor'[p])
  BY <1>1, <1>4, <1>5 DEF Current
<1> QED BY <1>1, <1>4, <1>5, <1>6, <1>7, SeedSuffices DEF Follow

\* The terminal reference is latched at the final waypoint of the plan that
\* the executor has followed there.
LEMMA LatchKeeps ==
  ASSUME IInv, NEW p \in Procs, Latch(p)
  PROVE  IInv'
<1> DEFINE r == Retained(p, FALSE)
           e == Sampled(r, TRUE)
<1>1. /\ Seeding(cmd[p]) /\ cmd[p].pc = "solve" /\ cmd[p] \in CommandSet
      /\ teacher[p] \in TeacherSet /\ executor[p] \in ExecutorSet
      /\ Planned(executor[p]) /\ True(executor[p], seed[p])
      /\ seed[p] \in SeedSet /\ Current(cmd[p], teacher[p], executor[p])
  BY Here DEF Local, Latch, Seeding
<1>2. HandsOff(e) /\ UNCHANGED <<log, report, evaluated>>
  BY DEF Latch
<1>3. CASE EndSeed(p, FALSE, TRUE, seed[p].completions)
  <2>1. seed[p].completions \in Nat
    BY <1>1 DEF SeedSet
  <2> QED BY <1>1, <1>2, <1>3, <2>1, EndSeedSuffices
<1>4. CASE ~ EndSeed(p, FALSE, TRUE, seed[p].completions)
  <2>1. /\ executor' = [executor EXCEPT ![p] = [e EXCEPT !.latched = TRUE]]
        /\ Counted(p, FALSE, FALSE, TRUE, FALSE) /\ Acts(p)
    BY <1>4 DEF Latch
  <2>2. r = executor[p] /\ executor[p].phase = teacher[p].phase
        /\ executor[p].waypoints > 0 /\ ~ executor[p].latched
    <3>1. e.waypoints > 0 /\ ~ e.latched
      BY <1>2 DEF HandsOff
    <3>2. r # NoPlan
      <4> SUFFICES ASSUME r = NoPlan PROVE FALSE
        OBVIOUS
      <4>1. Sampled(NoPlan, TRUE) = NoPlan
        BY DEF Sampled, NoPlan
      <4>2. e = NoPlan
        BY <4>1
      <4> HIDE DEF e
      <4> QED BY <3>1, <4>2 DEF NoPlan
    <3>3. r = executor[p] /\ executor[p].phase = teacher[p].phase
      BY <3>2, RetainedIs
    <3> HIDE DEF r
    <3>4. e.waypoints = r.waypoints /\ e.latched = r.latched
      BY <1>1, <3>3 DEF Sampled, ExecutorSet
    <3> QED BY <3>1, <3>3, <3>4
  <2>3. e \in ExecutorSet /\ Planned(e) /\ e.phase = teacher[p].phase /\ e.waypoints > 0
    BY <1>1, <2>2, SampledIs
  <2>4. e.next = e.waypoints
    BY <1>2 DEF HandsOff
  <2> HIDE DEF e, r
  <2>5. /\ Moves(p) /\ cmd'[p] = [cmd[p] EXCEPT !.pc = "act"] /\ cmd'[p].pc = "act"
        /\ teacher' = teacher /\ executor'[p] = [e EXCEPT !.latched = TRUE]
    BY <1>1, <2>1, CountedAdds DEF Acts, IInv, Functions, Moves, CommandSet
  <2>6. /\ executor'[p] \in ExecutorSet /\ Planned(executor'[p])
        /\ executor'[p].phase = teacher[p].phase /\ executor'[p].latched
    <3> DEFINE l == [e EXCEPT !.latched = TRUE]
    <3>1. /\ l \in ExecutorSet /\ l.phase = e.phase /\ l.waypoints = e.waypoints
          /\ l.next = e.next /\ l.latched
      BY <2>3 DEF ExecutorSet
    <3> HIDE DEF l
    <3>2. Planned(l)
      BY <2>3, <2>4, <3>1 DEF Planned, NoPlan
    <3> QED BY <2>3, <2>5, <3>1, <3>2 DEF l
  <2>7. /\ seed'[p] \in SeedSet /\ Stepping(cmd'[p], seed'[p])
        /\ True(executor'[p], seed'[p])
    <3>1. ~ Completes(p, FALSE)
      BY DEF Completes
    <3>2. /\ seed'[p] \in SeedSet /\ Stepping(cmd'[p], seed'[p])
          /\ seed'[p].completions + seed'[p].lost = seed'[p].releases
          /\ seed'[p].releases = seed[p].releases + 0
          /\ seed'[p].activations = seed[p].activations + 1
      BY <1>1, <2>1, <2>5, <3>1, CountedAdds
    <3> QED BY <1>1, <2>6, <3>2 DEF True, SeedSet
  <2>8. Current(cmd'[p], teacher'[p], executor'[p])
    BY <1>1, <2>5, <2>6 DEF Current
  <2> QED BY <1>1, <1>2, <2>5, <2>6, <2>7, <2>8, SeedSuffices
<1> QED BY <1>3, <1>4

\* A completed reference was latched, and is released once.
LEMMA Released ==
  ASSUME IInv, NEW p \in Procs, cmd[p].pc = "solve", NEW done \in BOOLEAN,
         NEW backoff \in BOOLEAN, NEW installed \in BOOLEAN, NEW e,
         Counted(p, done, backoff, FALSE, installed), ~ e.latched
  PROVE  seed'[p] \in SeedSet /\ True(e, seed'[p])
<1>1. /\ seed[p] \in SeedSet /\ True(executor[p], seed[p])
      /\ executor[p] \in ExecutorSet
  BY Here DEF Local
<1>2. /\ seed'[p] \in SeedSet
      /\ seed'[p].completions + seed'[p].lost = seed'[p].releases
      /\ seed'[p].releases = seed[p].releases + (IF Completes(p, done) THEN 1 ELSE 0)
      /\ seed'[p].activations = seed[p].activations + 0
  BY CountedAdds
<1>3. Completes(p, done) => executor[p].latched
  BY DEF Completes
<1> QED BY <1>1, <1>2, <1>3 DEF True, SeedSet

LEMMA SolveLocallyKeeps ==
  ASSUME IInv, NEW p \in Procs, SolveLocally(p)
  PROVE  IInv'
<1>1. /\ Seeding(cmd[p]) /\ cmd[p].pc = "solve" /\ cmd[p] \in CommandSet
      /\ teacher[p] \in TeacherSet /\ Current(cmd[p], teacher[p], executor[p])
  BY Here DEF Local, SolveLocally, Seeding
<1>2. PICK done \in BOOLEAN, backoff \in BOOLEAN :
        /\ executor' = [executor EXCEPT ![p] = NoPlan]
        /\ Counted(p, done, backoff, FALSE, FALSE)
  BY DEF SolveLocally
<1>3. /\ Moves(p) /\ cmd'[p] = [cmd[p] EXCEPT !.pc = "act"] /\ cmd'[p].pc = "act"
      /\ teacher' = teacher /\ executor'[p] = NoPlan
  BY <1>1, <1>2, CountedAdds DEF SolveLocally, Acts, IInv, Functions, Moves, CommandSet
<1>4. NoPlan \in ExecutorSet /\ Planned(NoPlan) /\ ~ NoPlan.latched
  BY Starts DEF Planned, NoPlan
<1>5. seed'[p] \in SeedSet /\ Stepping(cmd'[p], seed'[p])
  BY <1>1, <1>2, <1>3, CountedAdds
<1>6. True(executor'[p], seed'[p])
  BY <1>1, <1>2, <1>3, <1>4, Released
<1>7. Current(cmd'[p], teacher'[p], executor'[p])
  BY <1>1, <1>3 DEF Current, NoPlan
<1> QED BY <1>1, <1>3, <1>4, <1>5, <1>6, <1>7, SeedSuffices DEF SolveLocally

LEMMA PlanPathKeeps ==
  ASSUME IInv, NEW p \in Procs, PlanPath(p)
  PROVE  IInv'
<1>1. /\ Seeding(cmd[p]) /\ cmd[p].pc = "solve" /\ cmd[p] \in CommandSet
      /\ teacher[p] \in TeacherSet /\ Current(cmd[p], teacher[p], executor[p])
  BY Here DEF Local, PlanPath, Seeding
<1>2. PICK done \in BOOLEAN, near \in BOOLEAN, n \in 2..MaxWaypoints :
        /\ executor' = [executor EXCEPT ![p] = Sampled(Installed(teacher[p].phase, n), near)]
        /\ Counted(p, done, FALSE, FALSE, TRUE)
  BY DEF PlanPath
<1> DEFINE i == Installed(teacher[p].phase, n)
<1>3. i \in ExecutorSet /\ Planned(i) /\ i.phase = teacher[p].phase
      /\ i.waypoints > 0 /\ ~ i.latched
  BY <1>1, EvaluationAssumption DEF Installed, ExecutorSet, Planned, TeacherSet
<1> HIDE DEF i
<1>4. /\ Moves(p) /\ cmd'[p] = [cmd[p] EXCEPT !.pc = "act"] /\ cmd'[p].pc = "act"
      /\ teacher' = teacher /\ executor'[p] = Sampled(i, near)
  <2>1. executor' = [executor EXCEPT ![p] = Sampled(i, near)]
    BY <1>2 DEF i
  <2>2. seed' = [q \in Procs |-> seed'[q]] /\ \A q \in Procs \ {p} : seed'[q] = seed[q]
    BY <1>1, <1>2, CountedAdds
  <2>3. cmd' = [cmd EXCEPT ![p].pc = "act"] /\ teacher' = teacher
    BY DEF PlanPath, Acts
  <2> QED BY <1>1, <2>1, <2>2, <2>3 DEF IInv, Functions, Moves, CommandSet
<1>5. /\ executor'[p] \in ExecutorSet /\ Planned(executor'[p])
      /\ executor'[p].phase = teacher[p].phase /\ ~ executor'[p].latched
  BY <1>3, <1>4, SampledIs
<1>6. seed'[p] \in SeedSet /\ Stepping(cmd'[p], seed'[p])
  BY <1>1, <1>2, <1>4, CountedAdds
<1>7. True(executor'[p], seed'[p])
  BY <1>1, <1>2, <1>5, Released
<1>8. Current(cmd'[p], teacher'[p], executor'[p])
  BY <1>1, <1>4, <1>5 DEF Current
<1> QED BY <1>1, <1>4, <1>5, <1>6, <1>7, <1>8, SeedSuffices DEF PlanPath

LEMMA GiveUpKeeps ==
  ASSUME IInv, NEW p \in Procs, GiveUp(p)
  PROVE  IInv'
<1>1. Seeding(cmd[p]) /\ seed[p] \in SeedSet
  BY Here DEF Local, GiveUp, Seeding
<1>2. PICK done \in BOOLEAN :
        EndSeed(p, FALSE, TRUE, seed[p].completions + IF Completes(p, done) THEN 1 ELSE 0)
  BY DEF GiveUp
<1>3. seed[p].completions + (IF Completes(p, done) THEN 1 ELSE 0) \in Nat
  BY <1>1 DEF SeedSet
<1> QED BY <1>1, <1>2, <1>3, EndSeedSuffices DEF GiveUp

LEMMA ActKeeps ==
  ASSUME IInv, NEW p \in Procs, Act(p)
  PROVE  IInv'
<1>1. /\ Seeding(cmd[p]) /\ cmd[p].pc = "act" /\ cmd[p] \in CommandSet
      /\ teacher[p] \in TeacherSet /\ executor[p] \in ExecutorSet /\ seed[p] \in SeedSet
      /\ Stepping(cmd[p], seed[p]) /\ Planned(executor[p])
      /\ Current(cmd[p], teacher[p], executor[p]) /\ True(executor[p], seed[p])
  BY Here DEF Local, Act, Seeding
<1>2. ASSUME NEW success \in BOOLEAN, NEW refused \in BOOLEAN,
             EndSeed(p, success, refused, seed[p].completions)
      PROVE  IInv'
  <2>1. seed[p].completions \in Nat
    BY <1>1 DEF SeedSet
  <2> QED BY <1>1, <1>2, <2>1, EndSeedSuffices DEF Act
<1>3. ASSUME ~ LastStep(p), NEW reward \in 0..2,
             teacher' = [teacher EXCEPT ![p].best = IF reward > @ THEN reward ELSE @],
             cmd' = [cmd EXCEPT ![p].pc = "decide"], UNCHANGED <<executor, seed>>
      PROVE  IInv'
  <2>1. /\ Moves(p) /\ cmd'[p] = [cmd[p] EXCEPT !.pc = "decide"]
        /\ executor'[p] = executor[p] /\ seed'[p] = seed[p]
        /\ teacher'[p] = [teacher[p] EXCEPT !.best = IF reward > @ THEN reward ELSE @]
    BY <1>3 DEF IInv, Functions, Moves
  <2>2. /\ teacher'[p] \in TeacherSet /\ teacher'[p].phase = teacher[p].phase
        /\ teacher'[p].grasp = teacher[p].grasp
        /\ teacher'[p].alignment = teacher[p].alignment
    BY <1>1, <2>1 DEF TeacherSet
  <2>3. cmd'[p].pc = "decide"
    BY <1>1, <2>1 DEF CommandSet
  <2>4. Stepping(cmd'[p], seed'[p])
    BY <1>1, <1>3, <2>1, <2>3, EvaluationAssumption DEF Stepping, LastStep, SeedSet
  <2>5. Current(cmd'[p], teacher'[p], executor'[p])
    BY <1>1, <2>2, <2>3 DEF Current
  <2> QED BY <1>1, <2>1, <2>2, <2>4, <2>5, SeedSuffices DEF Act
<1> QED BY <1>2, <1>3 DEF Act

-----------------------------------------------------------------------------
(* The verdict.                                                            *)

LEMMA JudgeKeeps ==
  ASSUME IInv, NEW p \in Procs, Judge(p)
  PROVE  IInv'
<1>1. /\ cmd[p].pc = "judge" /\ cmd[p] \in CommandSet /\ Counting(cmd[p])
      /\ Stepping(cmd[p], seed[p]) /\ Current(cmd[p], teacher[p], executor[p])
  BY Here DEF Local, Judge
<1>2. PICK others \in BOOLEAN :
        cmd' = [cmd EXCEPT ![p].pc = "create", ![p].passed = others /\ Passes(cmd[p])]
  BY DEF Judge
<1> DEFINE v == others /\ Passes(cmd[p])
<1>3. v \in BOOLEAN
  OBVIOUS
<1>4. cmd' = [cmd EXCEPT ![p].pc = "create", ![p].passed = v]
  BY <1>2
<1> HIDE DEF v
<1>5. /\ Moves(p) /\ cmd'[p] = [cmd[p] EXCEPT !.pc = "create", !.passed = v]
      /\ UNCHANGED <<log, report, evaluated>>
      /\ teacher'[p] = teacher[p] /\ executor'[p] = executor[p] /\ seed'[p] = seed[p]
  BY <1>4 DEF Judge, IInv, Functions, Moves, rollout
<1>6. /\ cmd'[p] \in CommandSet /\ cmd'[p].pc = "create"
      /\ cmd'[p].stage = cmd[p].stage
  BY <1>1, <1>3, <1>5 DEF CommandSet
<1>7. LocalNext(p)
  BY <1>1, <1>5, <1>6, Here
     DEF LocalNext, Local, Counting, Waiting, Seeding, Stepping, Current
<1>8. Quiet(p)
  BY <1>1, <1>5, <1>6 DEF Quiet, Waiting
<1> QED BY <1>5, <1>7, <1>8, OthersKeep, QuietKeeps DEF IInv

\* A command at its report is the only one at a rollout, and replaces what it
\* has created itself.
LEMMA ReportKeeps ==
  ASSUME IInv, NEW p \in Procs, ~ Waiting(cmd[p]), Moves(p), log' = log,
         evaluated' = evaluated, NEW r \in {"torn", "failed", "passed"},
         report' = [report EXCEPT ![cmd[p].stage] = r],
         report[cmd[p].stage] # "passed",
         \/ cmd'[p].pc = "idle"
         \/ r = "torn" /\ cmd'[p].pc = "fill" /\ cmd'[p].stage = cmd[p].stage
  PROVE  Files' /\ Alone'
<1> DEFINE s == cmd[p].stage
<1>1. s \in StageNames /\ s \in log /\ Accepted(s)
  BY DEF IInv, Alone, Files, Waiting
<1>2. /\ report' \in [StageNames -> {"absent", "torn", "failed", "passed"}]
      /\ report'[s] = r /\ \A t \in StageNames \ {s} : report'[t] = report[t]
  BY <1>1 DEF IInv, Files
<1>3. \A t : Earlier(t) \subseteq StageNames
  BY DEF Earlier, StageNames
<1>4. \A t : Accepted(t) => Accepted(t)'
  BY <1>2, <1>3 DEF Accepted
<1>5. Files'
  BY <1>1, <1>2, <1>4 DEF IInv, Files
<1>6. \A q \in Procs \ {p} : cmd'[q] = cmd[q] /\ Waiting(cmd'[q])
  BY DEF IInv, Alone, Moves
<1>7. CASE cmd'[p].pc = "idle"
  <2>1. \A q \in Procs : Waiting(cmd'[q])
    BY <1>6, <1>7 DEF Waiting
  <2>2. (\A q \in Procs : cmd[q].pc # "idle" => Accepted(cmd[q].stage))'
    BY <1>4, <1>6, <1>7 DEF IInv, Alone, Accepted
  <2> QED BY <1>5, <2>1, <2>2 DEF Alone
<1>8. CASE r = "torn" /\ cmd'[p].pc = "fill" /\ cmd'[p].stage = cmd[p].stage
  <2>1. (\A q \in Procs : cmd[q].pc # "idle" => Accepted(cmd[q].stage))'
    <3> SUFFICES ASSUME NEW q \in Procs, cmd'[q].pc # "idle"
                 PROVE \A e \in Earlier(cmd'[q].stage) : report'[e] = "passed"
      BY DEF Accepted
    <3>1. cmd'[q].stage = cmd[q].stage /\ Accepted(cmd[q].stage)
      BY <1>1, <1>6, <1>8 DEF IInv, Alone
    <3> QED BY <1>4, <3>1 DEF Accepted
  <2>2. \A q \in Procs : ~ Waiting(cmd'[q]) => q = p
    BY <1>6
  <2> QED BY <1>1, <1>2, <1>5, <1>8, <2>1, <2>2 DEF Alone
<1> QED BY <1>5, <1>7, <1>8

LEMMA CreateKeeps ==
  ASSUME IInv, NEW p \in Procs, Create(p)
  PROVE  IInv'
<1>1. /\ cmd[p].pc = "create" /\ cmd[p] \in CommandSet /\ Counting(cmd[p])
      /\ Stepping(cmd[p], seed[p]) /\ Current(cmd[p], teacher[p], executor[p])
  BY Here DEF Local, Create
<1>2. CASE report[cmd[p].stage] = "absent"
  <2>1. /\ Moves(p) /\ cmd'[p] = [cmd[p] EXCEPT !.pc = "fill"]
        /\ teacher'[p] = teacher[p] /\ executor'[p] = executor[p] /\ seed'[p] = seed[p]
    BY <1>2 DEF Create, IInv, Functions, Moves, rollout
  <2>2. /\ cmd'[p] \in CommandSet /\ cmd'[p].pc = "fill"
        /\ cmd'[p].stage = cmd[p].stage
    BY <1>1, <2>1 DEF CommandSet
  <2>3. LocalNext(p)
    BY <1>1, <2>1, <2>2, Here
       DEF LocalNext, Local, Counting, Waiting, Seeding, Stepping, Current
  <2>4. Files' /\ Alone'
    <3>1. /\ ~ Waiting(cmd[p]) /\ UNCHANGED <<log, evaluated>>
          /\ report' = [report EXCEPT ![cmd[p].stage] = "torn"]
      BY <1>1, <1>2 DEF Create, Waiting
    <3>2. "torn" \in {"torn", "failed", "passed"}
      OBVIOUS
    <3> QED BY <1>2, <2>1, <2>2, <3>1, <3>2, ReportKeeps
  <2> QED BY <2>1, <2>3, <2>4, OthersKeep DEF IInv
<1>3. CASE report[cmd[p].stage] # "absent"
  <2>1. Quiet(p)
    BY <1>3, EndsKeeps DEF Create, Quiet
  <2> QED BY <1>3, <2>1, EndsKeeps, OthersKeep, QuietKeeps DEF Create, IInv
<1> QED BY <1>2, <1>3

LEMMA FillKeeps ==
  ASSUME IInv, NEW p \in Procs, Fill(p)
  PROVE  IInv'
<1>1. cmd[p].pc = "fill" /\ ~ Waiting(cmd[p]) /\ report[cmd[p].stage] = "torn"
  BY DEF Fill, Waiting, IInv, Alone
<1>2. PICK r \in {"failed", "passed"} : report' = [report EXCEPT ![cmd[p].stage] = r]
  BY DEF Fill
<1>3. UNCHANGED <<log, evaluated>> /\ Moves(p) /\ cmd'[p].pc = "idle"
  BY EndsKeeps DEF Fill
<1>4. r \in {"torn", "failed", "passed"} /\ report[cmd[p].stage] # "passed"
  BY <1>1
<1>5. Files' /\ Alone'
  BY <1>1, <1>2, <1>3, <1>4, ReportKeeps
<1> QED BY <1>5, EndsKeeps, OthersKeep DEF Fill, IInv

LEMMA KillKeeps ==
  ASSUME IInv, NEW p \in Procs, Kill(p)
  PROVE  IInv'
<1>1. Quiet(p)
  BY EndsKeeps DEF Kill, Quiet
<1> QED BY <1>1, EndsKeeps, OthersKeep, QuietKeeps DEF Kill, IInv

-----------------------------------------------------------------------------
(* The theorems.                                                           *)

LEMMA IInvInit == Init => IInv
<1> SUFFICES ASSUME Init PROVE IInv
  OBVIOUS
<1>1. Functions /\ Locals
  BY Starts DEF Init, Functions, Locals
<1>2. Files
  BY StageFacts DEF Init, Files
<1>3. \A p \in Procs : Waiting(cmd[p]) /\ cmd[p].pc = "idle"
  BY DEF Init, Waiting, Idle
<1> QED BY <1>1, <1>2, <1>3 DEF IInv, Alone

LEMMA IInvStep == IInv /\ [Next]_vars => IInv'
<1> SUFFICES ASSUME IInv, [Next]_vars PROVE IInv'
  OBVIOUS
<1>1. CASE UNCHANGED vars
  BY <1>1 DEF vars, rollout, IInv, Functions, Locals, Files, Alone, Accepted
<1>2. ASSUME NEW p \in Procs, NEW s \in StageNames, Start(p, s) PROVE IInv'
  BY <1>2, StartKeeps
<1>3. ASSUME NEW p \in Procs,
             Settings(p) \/ Construct(p) \/ Judge(p) \/ Create(p) \/ Fill(p) \/ Kill(p)
      PROVE  IInv'
  BY <1>3, SettingsKeeps, ConstructKeeps, JudgeKeeps, CreateKeeps, FillKeeps, KillKeeps
<1>4. ASSUME NEW p \in Procs,
             \/ Decide(p) \/ Follow(p) \/ Latch(p) \/ SolveLocally(p)
             \/ PlanPath(p) \/ GiveUp(p) \/ Act(p)
      PROVE  IInv'
  BY <1>4, DecideKeeps, FollowKeeps, LatchKeeps, SolveLocallyKeeps, PlanPathKeeps,
     GiveUpKeeps, ActKeeps
<1> QED BY <1>1, <1>2, <1>3, <1>4 DEF Next

\* What the commands know of their rollouts and what the files say is kept by
\* every step of every command.
THEOREM Inductive == Spec => []IInv
<1> QED BY IInvInit, IInvStep, PTL DEF Spec

LEMMA IInvTypes == IInv => TypeOK
<1> SUFFICES ASSUME IInv PROVE TypeOK
  OBVIOUS
<1>1. log \subseteq StageNames /\ evaluated \in [StageNames -> Nat]
      /\ report \in [StageNames -> {"absent", "torn", "failed", "passed"}]
  BY DEF IInv, Files
<1>2. /\ cmd \in [Procs -> CommandSet] /\ teacher \in [Procs -> TeacherSet]
      /\ executor \in [Procs -> ExecutorSet] /\ seed \in [Procs -> SeedSet]
  BY DEF IInv, Functions, Locals, Local
<1> QED BY <1>1, <1>2 DEF TypeOK, CommandSet, TeacherSet, ExecutorSet, SeedSet

\* Type correctness of the evaluation: no counter of a seed passes the steps of
\* its plan.
THEOREM TypeCorrect == Spec => []TypeOK
<1> QED BY Inductive, IInvTypes, PTL

\* _ik_action() and decide() follow references of now: no plan of another phase
\* is executed, no terminal reference is latched before the final waypoint.
THEOREM ReferencesAreCurrent == Spec => []ReferenceIsCurrent
<1>1. IInv => ReferenceIsCurrent
  <2> SUFFICES ASSUME IInv, NEW p \in Procs
               PROVE /\ Current(cmd[p], teacher[p], executor[p])
                     /\ executor[p].latched =>
                          executor[p].waypoints > 0 /\ executor[p].next = executor[p].waypoints
    BY DEF ReferenceIsCurrent, Current
  <2> QED BY Here DEF Local, Planned, NoPlan, ExecutorSet
<1> QED BY <1>1, Inductive, PTL

\* The counters of the report of a seed agree with what the executor did.
THEOREM CountersAreTrue == Spec => []CountsAreTrue
<1>1. IInv => CountsAreTrue
  BY Here DEF CountsAreTrue, Local, True
<1> QED BY <1>1, Inductive, PTL

\* The rollouts of a stage are run once, by one command, on passing reports of
\* the earlier stages, however the commands race and die.
THEOREM EvaluatedOnceInOrder == Spec => []OnceInOrder
<1>1. ASSUME IInv PROVE OnceInOrder
  <2>1. \A s \in StageNames :
          /\ evaluated[s] <= 1
          /\ evaluated[s] = 1 => \A e \in Earlier(s) : report[e] = "passed"
    BY <1>1 DEF IInv, Files, Accepted
  <2>2. Cardinality({p \in Procs : cmd[p].pc \notin {"idle", "settings", "construct"}}) <= 1
    <3> DEFINE Rolling == {p \in Procs : cmd[p].pc \notin {"idle", "settings", "construct"}}
    <3>1. \A p, q \in Rolling : p = q
      BY <1>1 DEF IInv, Alone, Waiting
    <3> HIDE DEF Rolling
    <3>2. ASSUME Rolling = {} PROVE Cardinality(Rolling) = 0
      BY <3>2, FS_EmptySet
    <3>3. ASSUME Rolling # {} PROVE Cardinality(Rolling) = 1
      <4>1. PICK p : p \in Rolling
        BY <3>3
      <4>2. Rolling = {p}
        BY <3>1, <4>1
      <4> QED BY <4>2, FS_Singleton
    <3>4. Cardinality(Rolling) <= 1
      BY <3>2, <3>3
    <3> QED BY <3>4 DEF Rolling
  <2> QED BY <2>1, <2>2 DEF OnceInOrder
<1> QED BY <1>1, Inductive, PTL

\* Within a phase _ik_action() gives up a plan only when its terminal control is
\* complete, and then counts its release.
THEOREM PlansAreKept == Spec => KeptUntilComplete
<1>1. ASSUME IInv, [Next]_vars, NEW p \in Procs,
             cmd[p].pc = "solve", cmd'[p].pc = "act",
             executor[p].waypoints > 0, executor[p].phase = teacher[p].phase,
             \/ seed'[p].installs > seed[p].installs
             \/ executor'[p].waypoints = 0
      PROVE  executor[p].latched /\ seed'[p].releases > seed[p].releases
  <2>1. /\ seed[p] \in SeedSet /\ executor[p] \in ExecutorSet
        /\ Planned(executor[p]) /\ cmd[p] \in CommandSet
    BY <1>1, Here DEF Local
  <2>2. PICK q \in Procs :
          \/ \E s \in StageNames : Start(q, s)
          \/ Settings(q) \/ Construct(q) \/ Decide(q)
          \/ Follow(q) \/ Latch(q) \/ SolveLocally(q) \/ PlanPath(q) \/ GiveUp(q)
          \/ Act(q) \/ Judge(q) \/ Create(q) \/ Fill(q) \/ Kill(q)
    BY <1>1 DEF Next, vars
  <2>3. q = p
    <3> SUFFICES ASSUME q # p PROVE FALSE
      OBVIOUS
    <3> QED BY <1>1, <2>2 DEF IInv, Functions, Start, Settings, Construct, Decide, Follow, Latch,
         SolveLocally, PlanPath, GiveUp, Act, Judge, Create, Fill, Kill, Ends, EndSeed, Acts
  <2>4. \A done \in BOOLEAN : Retained(p, done).waypoints = 0 => Completes(p, done)
    BY <1>1 DEF Retained
  <2>5. ASSUME NEW done \in BOOLEAN, Retained(p, done).waypoints = 0,
               NEW backoff \in BOOLEAN, NEW installed \in BOOLEAN,
               Counted(p, done, backoff, FALSE, installed)
        PROVE  executor[p].latched /\ seed'[p].releases > seed[p].releases
    <3>1. Completes(p, done)
      BY <2>4, <2>5
    <3>2. seed'[p].releases = seed[p].releases + 1
      BY <1>1, <2>5, <3>1, CountedAdds
    <3> QED BY <2>1, <3>1, <3>2 DEF Completes, SeedSet
  <2>6. ASSUME NEW done \in BOOLEAN, NEW latched \in BOOLEAN, NEW e,
               Retained(p, done).waypoints # 0, e.waypoints = executor[p].waypoints,
               executor' = [executor EXCEPT ![p] = e],
               Counted(p, done, FALSE, latched, FALSE)
        PROVE  FALSE
    <3>1. seed'[p].installs = seed[p].installs + 0
      BY <1>1, <2>6, CountedAdds
    <3>2. executor'[p].waypoints = executor[p].waypoints
      BY <1>1, <2>6 DEF IInv, Functions
    <3> QED BY <1>1, <2>1, <3>1, <3>2 DEF SeedSet
  <2>7. \A done \in BOOLEAN : Retained(p, done).waypoints # 0 => Retained(p, done) = executor[p]
    BY RetainedIs DEF NoPlan
  <2>8. \A near \in BOOLEAN : Sampled(executor[p], near).waypoints = executor[p].waypoints
    BY <2>1 DEF Sampled, ExecutorSet
  <2>9. CASE Follow(p)
    <3>1. PICK done \in BOOLEAN, near \in BOOLEAN :
            LET e == Retained(p, done) IN
            /\ e.waypoints > 0
            /\ executor' = [executor EXCEPT ![p] = IF e.latched THEN e ELSE Sampled(e, near)]
            /\ Counted(p, done, FALSE, FALSE, FALSE)
      BY <2>9 DEF Follow
    <3> DEFINE e == IF executor[p].latched THEN executor[p] ELSE Sampled(executor[p], near)
    <3>2. Retained(p, done).waypoints # 0
      BY <2>1, <3>1, RetainedIs DEF NoPlan, ExecutorSet
    <3>3. Retained(p, done) = executor[p]
      BY <2>7, <3>2
    <3>4. executor' = [executor EXCEPT ![p] = e]
      BY <3>1, <3>3
    <3>5. e.waypoints = executor[p].waypoints
      BY <2>8
    <3> HIDE DEF e
    <3> QED BY <2>6, <3>1, <3>2, <3>4, <3>5
  <2>10. CASE Latch(p)
    <3> DEFINE r == Retained(p, FALSE)
               e == [Sampled(r, TRUE) EXCEPT !.latched = TRUE]
    <3>1. r = executor[p]
      BY <1>1 DEF Retained, Completes
    <3>2. r.waypoints # 0
      <4> HIDE DEF r
      <4> QED BY <1>1, <2>1, <3>1 DEF ExecutorSet
    <3>3. ~ EndSeed(p, FALSE, TRUE, seed[p].completions)
      <4>1. seed[p].completions \in Nat
        BY <2>1 DEF SeedSet
      <4> QED BY <1>1, <4>1, EndSeedKeeps DEF Seeding
    <3>4. executor' = [executor EXCEPT ![p] = e] /\ Counted(p, FALSE, FALSE, TRUE, FALSE)
      BY <2>10, <3>3 DEF Latch
    <3>5. e.waypoints = executor[p].waypoints
      BY <2>1, <3>1 DEF Sampled, ExecutorSet
    <3> HIDE DEF e
    <3> QED BY <2>6, <3>2, <3>4, <3>5
  <2>11. CASE SolveLocally(p)
    BY <2>5, <2>11 DEF SolveLocally
  <2>12. CASE PlanPath(p)
    BY <2>5, <2>12 DEF PlanPath
  <2>13. ~ GiveUp(p)
    <3> SUFFICES ASSUME GiveUp(p) PROVE FALSE
      OBVIOUS
    <3>1. PICK done \in BOOLEAN :
            EndSeed(p, FALSE, TRUE, seed[p].completions + IF Completes(p, done) THEN 1 ELSE 0)
      BY DEF GiveUp
    <3>2. seed[p].completions + (IF Completes(p, done) THEN 1 ELSE 0) \in Nat
      BY <2>1 DEF SeedSet
    <3> QED BY <1>1, <3>1, <3>2, EndSeedKeeps DEF Seeding
  <2>14. ~ (\/ \E s \in StageNames : Start(p, s)
            \/ Settings(p) \/ Construct(p) \/ Decide(p) \/ Act(p) \/ Judge(p)
            \/ Create(p) \/ Fill(p))
    BY <1>1 DEF Start, Settings, Construct, Decide, Act, Judge, Create, Fill
  <2>15. ~ Kill(p)
    BY <1>1, EndsKeeps DEF Kill
  <2> QED BY <2>2, <2>3, <2>9, <2>10, <2>11, <2>12, <2>13, <2>14, <2>15
<1>2. IInv /\ [Next]_vars =>
        [\A p \in Procs :
           /\ cmd[p].pc = "solve" /\ cmd'[p].pc = "act"
           /\ executor[p].waypoints > 0 /\ executor[p].phase = teacher[p].phase
           /\ \/ seed'[p].installs > seed[p].installs
              \/ executor'[p].waypoints = 0
           => executor[p].latched /\ seed'[p].releases > seed[p].releases]_vars
  BY <1>1
<1> QED BY <1>2, Inductive, PTL DEF Spec, KeptUntilComplete
=============================================================================
