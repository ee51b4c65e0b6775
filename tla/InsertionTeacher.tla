-------------------------- MODULE InsertionTeacher --------------------------
(***************************************************************************)
(* The insertion teachers of the teacher gate: the scripted teacher, sim/  *)
(* scripted_teacher.py, and the geometric teacher, sim/                    *)
(* geometric_teacher.py, which inherits its stages and adds escapes from   *)
(* stalls.  decide() records the observation, engages escapes, lets the    *)
(* stages advance in a bounded loop and solves for the target of the last. *)
(* What the observation satisfies is free in every test of every stage;    *)
(* poses and joint values are not modelled.                                *)
(***************************************************************************)
EXTENDS Naturals, Sequences

CONSTANTS
  Window,       \* stall_window_steps
  MaxEpisodes   \* bound on the calls of reset()

ASSUME TeacherAssumption == Window \in Nat /\ Window >= 2 /\ MaxEpisodes \in Nat \ {0}

\* ScriptedInsertionStage, in its order.
Stages == <<"open", "approach", "orient", "descend", "grasp", "transport",
            "socket_approach", "align", "insert", "complete">>
StageSet == {Stages[i] : i \in 1..Len(Stages)}

CaptureNames == {"home", "objects", "orient", "peg_from_right", "hold_right",
                 "peg_hold", "socket_from_left"}

VARIABLES
  candidate,    \* "scripted" or "geometric"
  phase, captured, flipped,
  stallPhase, stallHistory, alignEscape, insertPress,
  \* one call of decide()
  pc, iteration, still,
  \* history
  episode,      \* the number of resets
  inPhase,      \* decisions begun in the phase, up to Window
  unlock,       \* inPhase and phase of the history of the transport unlock
  recaptured    \* what was captured again in the episode, and in which phase

captures == <<captured, flipped, recaptured>>
escapes == <<stallPhase, stallHistory, alignEscape, insertPress>>
past == <<episode, inPhase, unlock>>
teacherVars == <<candidate, phase, captures, escapes, pc, iteration, still, past>>

\* captured[name] is the episode of the capture, 0 for None.
Capture(names) ==
  /\ captured' = [n \in CaptureNames |-> IF n \in names THEN episode ELSE captured[n]]
  /\ recaptured' = recaptured \cup {<<n, phase>> : n \in {m \in names : captured[m] = episode}}
Keep == UNCHANGED <<captured, recaptured>>

NeverUnlocked == [decisions |-> Window, stage |-> "transport"]

-----------------------------------------------------------------------------
(* reset()                                                                 *)

Reset ==
  /\ pc = "idle" /\ episode < MaxEpisodes
  /\ episode' = episode + 1
  /\ phase' = "open" /\ captured' = [n \in CaptureNames |-> 0] /\ flipped' = FALSE
  /\ stallPhase' = "none" /\ stallHistory' = 0
  /\ alignEscape' = FALSE /\ insertPress' = FALSE
  /\ inPhase' = 0 /\ unlock' = NeverUnlocked
  /\ recaptured' = {}
  /\ UNCHANGED <<candidate, pc, iteration, still>>

-----------------------------------------------------------------------------
(* decide(): the escapes and the support                                   *)

\* The history of the stall phase with this observation.  Wrong on purpose:
\* it survives a change of the phase.
RecordedAcross(length) == IF length < Window THEN length + 1 ELSE length
Recorded(length) ==
  IF stallPhase # phase THEN 1 ELSE IF length < Window THEN length + 1 ELSE length

\* Both arms ended within the bound of where they were a window ago.
Stalled(length, unmoved) == length = Window /\ unmoved

\* Wrong on purpose: the cage is recaptured in later stages too.
RecaptureLate(stage) == stage \in {"align", "insert"}
Recaptures(stage) == stage = "align"

Engage(length, unmoved, touching) ==
  /\ stallPhase' = phase /\ stallHistory' = length
  /\ IF Stalled(length, unmoved) /\ Recaptures(phase)
     THEN alignEscape' = TRUE /\ Capture({"socket_from_left"})
     ELSE Keep /\ UNCHANGED alignEscape
  /\ insertPress' = (insertPress \/ (Stalled(length, unmoved) /\ phase = "insert" /\ touching))

\* The history and the escapes come before the support is validated.
Observe ==
  /\ pc = "idle"
  /\ still' \in BOOLEAN
  /\ IF candidate = "geometric"
     THEN \E touching \in BOOLEAN : Engage(Recorded(stallHistory), still', touching)
     ELSE Keep /\ UNCHANGED escapes
  /\ inPhase' = IF inPhase < Window THEN inPhase + 1 ELSE inPhase
  /\ pc' \in {"idle", "home"}     \* refused for a collision or the workspace
  /\ UNCHANGED <<candidate, phase, flipped, iteration, episode, unlock>>

CaptureHome ==
  /\ pc = "home"
  /\ IF captured["home"] = 0 THEN Capture({"home"}) ELSE Keep
  /\ pc' = "advance" /\ iteration' = 0
  /\ UNCHANGED <<candidate, phase, flipped, escapes, still, past>>

-----------------------------------------------------------------------------
(* _advance(): one iteration of its loop                                   *)

\* What the stage's targets assert to be captured.
Needs(stage) ==
  CASE stage = "open" -> {"home"}
    [] stage \in {"approach", "descend", "grasp"} -> {"objects"}
    [] stage = "orient" -> {"orient"}
    [] stage = "transport" -> {"peg_from_right"}
    [] OTHER -> {"hold_right", "peg_hold", "socket_from_left"}

\* range(len(ScriptedInsertionStage)).  Wrong on purpose: one short.
ShortRange == Len(Stages) - 1
LoopRange == Len(Stages)

In(stage) == pc = "advance" /\ iteration < LoopRange /\ phase = stage

GoTo(stage) ==
  /\ phase' = stage /\ inPhase' = 0
  /\ iteration' = iteration + 1
  /\ UNCHANGED <<candidate, escapes, pc, still, episode>>

\* The target of the stage is returned, its exit not satisfied.
Return ==
  /\ pc = "advance" /\ iteration < LoopRange
  /\ pc' = "command"
  /\ UNCHANGED <<candidate, phase, captures, escapes, iteration, still, past>>

Open ==
  /\ In("open")
  /\ Capture({"objects"}) /\ GoTo("approach") /\ UNCHANGED <<flipped, unlock>>

Approach ==
  /\ In("approach")
  /\ Capture({"orient"}) /\ GoTo("orient") /\ UNCHANGED <<flipped, unlock>>

Orient == In("orient") /\ GoTo("descend") /\ UNCHANGED <<captures, unlock>>

\* Reached, at the floor, or no longer descending.
Descend == In("descend") /\ GoTo("grasp") /\ UNCHANGED <<captures, unlock>>

\* Both objects are touched.
Grasp ==
  /\ In("grasp")
  /\ Capture({"peg_from_right"}) /\ GoTo("transport") /\ UNCHANGED <<flipped, unlock>>

\* What the end of the transport freezes.
Frozen == {"hold_right", "peg_hold", "socket_from_left"}

\* The flipped candidate cannot reach the hover of the socket approach.  Wrong on
\* purpose: it is sent there.
ApproachAlways(flip) == "socket_approach"
AfterTransport(flip) == IF flip THEN "align" ELSE "socket_approach"

\* The peg is parked and the left arm at its target, which the unlock replaces
\* by the arm's own pose when the arms are stalled.
Unlocks == candidate = "geometric" /\ Stalled(stallHistory, still)

Transport ==
  /\ In("transport")
  /\ \E leftReached \in BOOLEAN :
       /\ leftReached \/ Unlocks
       /\ unlock' = IF leftReached THEN unlock
                    ELSE [decisions |-> inPhase, stage |-> stallPhase]
  /\ Capture(Frozen)
  /\ flipped' \in BOOLEAN
  /\ GoTo(AfterTransport(flipped'))

SocketApproach ==
  /\ In("socket_approach") /\ GoTo("align") /\ UNCHANGED <<captures, unlock>>

\* The socket is aligned, or within the margin when the escape accepts it.
Align == In("align") /\ GoTo("insert") /\ UNCHANGED <<captures, unlock>>

Insert == In("insert") /\ GoTo("complete") /\ UNCHANGED <<captures, unlock>>

\* _task_target_action(): held, solved, or refused by the solver on every seed.
Command ==
  /\ pc = "command" /\ pc' = "idle"
  /\ UNCHANGED <<candidate, phase, captures, escapes, iteration, still, past>>

-----------------------------------------------------------------------------
TeacherInit ==
  /\ candidate \in {"scripted", "geometric"}
  /\ phase = "open" /\ captured = [n \in CaptureNames |-> 0] /\ flipped = FALSE
  /\ stallPhase = "none" /\ stallHistory = 0
  /\ alignEscape = FALSE /\ insertPress = FALSE
  /\ pc = "idle" /\ iteration = 0 /\ still = FALSE
  /\ episode = 1 /\ inPhase = 0 /\ unlock = NeverUnlocked
  /\ recaptured = {}

TeacherNext ==
  \/ Reset \/ Observe \/ CaptureHome \/ Return
  \/ Open \/ Approach \/ Orient \/ Descend \/ Grasp
  \/ Transport \/ SocketApproach \/ Align \/ Insert
  \/ Command

TeacherSpec == TeacherInit /\ [][TeacherNext]_teacherVars

-----------------------------------------------------------------------------
\* Every field keeps the values the code gives it; only the parallel candidate
\* hovers, and only the geometric teacher has escapes.
TeacherTypeOK ==
  /\ candidate \in {"scripted", "geometric"}
  /\ phase \in StageSet /\ captured \in [CaptureNames -> 0..MaxEpisodes]
  /\ flipped \in BOOLEAN /\ alignEscape \in BOOLEAN /\ insertPress \in BOOLEAN
  /\ stallPhase \in StageSet \cup {"none"} /\ stallHistory \in 0..Window
  /\ pc \in {"idle", "home", "advance", "command"}
  /\ iteration \in 0..Len(Stages) /\ still \in BOOLEAN
  /\ episode \in 1..MaxEpisodes /\ inPhase \in 0..Window
  /\ unlock \in [decisions : 0..Window, stage : StageSet \cup {"none"}]
  /\ recaptured \subseteq CaptureNames \X StageSet
  /\ phase = "socket_approach" => ~ flipped
  /\ candidate = "scripted" => ~ alignEscape /\ ~ insertPress /\ stallHistory = 0

CapturesPresent == \A name \in Needs(phase) : captured[name] = episode

\* No decision ends in an assertion: what the targets of its stage rest on was
\* captured in this episode, and the loop over the stages returns a target
\* although one decision may pass them all; its bound is exactly enough.
DecisionReturns == pc = "advance" => CapturesPresent /\ iteration < LoopRange

\* Within an episode a captured reference is not captured again, except the
\* socket in its cage, and that only by a stall of the alignment itself: the
\* insertion aims along the line that the alignment ended on.
ReferencesFrozen == recaptured \subseteq {<<"socket_from_left", "align">>}

\* The escapes open only on a whole window of decisions made in their own
\* stage, save that a decision which enters the transport may unlock it on the
\* window of the stage it began in, whose history only the next one clears.
EscapesOwnWindow ==
  [][episode' = episode =>
       /\ <<alignEscape, insertPress>>' # <<alignEscape, insertPress>> => inPhase' = Window
       /\ unlock' # unlock =>
            \/ unlock' = [decisions |-> Window, stage |-> "transport"]
            \/ unlock'.decisions = 0 /\ unlock'.stage # "transport"]_teacherVars
=============================================================================
