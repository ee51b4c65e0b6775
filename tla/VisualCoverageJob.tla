-------------------------- MODULE VisualCoverageJob --------------------------
(***************************************************************************)
(* The unattended job of scripts/run_visual_coverage_job.py: a supervisor  *)
(* that owns the process group of one worker, the worker that runs the     *)
(* registered stages under the shared deadline, and the wrapper around the *)
(* heavy stages, which turns SIGTERM into an exception and a report.  They *)
(* share the deadline, signals to the group and create-only files; the     *)
(* supervisor powers the instance off.  The disk holds what they write; an *)
(* exception of the supervisor is the same to the others as its death.     *)
(***************************************************************************)
EXTENDS Naturals

CONSTANTS
  NStages,    \* number of stages (24 in the code)
  Heavy,      \* those that run inside the wrapper
  Gates,      \* those after which the worker accepts evidence
  Long,       \* those with a longer minimum_remaining
  Deadline,   \* deadline_unix, counted from the start
  Crashable   \* of "supervisor" and "worker", which the system may kill

Stages == 1..NStages

ASSUME JobAssumption ==
  /\ NStages \in Nat \ {0} /\ Deadline \in Nat \ {0}
  /\ Heavy \subseteq Stages /\ Gates \subseteq Stages /\ Long \subseteq Stages
  /\ Crashable \subseteq {"supervisor", "worker"}

VARIABLES
  now, off,
  sup, code,        \* statement of supervise(); its local code
  worker, stage,    \* statement of worker(); its local stage, 0 at "startup"
  proc,             \* the stage processes
  capped,           \* those whose monitor found a memory cap exceeded
  left,             \* ended stages that left a descendant in the group
  signal,           \* pending signals, 0 for the worker's
  report, accepted, closure, failedStage, exitCode, request   \* files

files == <<report, accepted, closure, failedStage, exitCode, request>>
group == <<worker, stage, proc, capped, left, signal>>
vars == <<now, off, sup, code, group, files>>

Live(k) == proc[k] \in {"running", "passing", "unwinding"}
Over(k) == proc[k] \in {"ok", "failed", "killed"}
WorkerLive == worker \notin {"none", "zero", "error"}
GroupLive == WorkerLive \/ left # {} \/ \E k \in Stages : Live(k)

\* killpg(): a pending SIGKILL stays one.  Wrong on purpose: processes that have
\* ended are signalled too.
SignalAnybody(s) == signal' = [p \in 0..NStages |-> s]
SignalGroup(s) ==
  signal' = [p \in 0..NStages |->
    IF (p = 0 /\ WorkerLive) \/ (p > 0 /\ Live(p))
    THEN IF signal[p] = "kill" THEN "kill" ELSE s ELSE "none"]

-----------------------------------------------------------------------------
(* supervise()                                                             *)

Sup(from, to) == sup = from /\ sup' = to
SupOnly == UNCHANGED <<now, off, group, files>>

Popen ==
  /\ Sup("popen", "record") /\ worker' = "start"
  /\ UNCHANGED <<now, off, code, stage, proc, capped, left, signal, files>>

Record == Sup("record", "wait") /\ UNCHANGED code /\ SupOnly

\* process.wait(timeout=...), and its TimeoutExpired.
Collect ==
  /\ ~ WorkerLive
  /\ Sup("wait", "sweep") /\ code' = worker
  /\ SupOnly
Expire == WorkerLive /\ now = Deadline /\ Sup("wait", "terminate") /\ UNCHANGED code /\ SupOnly

\* terminate_group(): the worker has ended meanwhile, or its group is asked to.
Terminate ==
  \/ /\ ~ WorkerLive
     /\ Sup("terminate", "sweep") /\ code' = "timeout"
     /\ SupOnly
  \/ /\ WorkerLive
     /\ Sup("terminate", "reap") /\ SignalGroup("term")
     /\ UNCHANGED <<now, off, code, worker, stage, proc, capped, left, files>>

\* Its wait for 15 seconds, then SIGKILL and a wait for 10 more, which raises.
Reap ==
  /\ ~ WorkerLive
  /\ Sup("reap", "sweep") \/ Sup("reap killed", "sweep")
  /\ code' = "timeout"
  /\ SupOnly
ReapExpires ==
  /\ WorkerLive
  /\ \/ Sup("reap", "reap killed") /\ SignalGroup("kill")
     \/ Sup("reap killed", "raised") /\ UNCHANGED signal
  /\ UNCHANGED <<now, off, code, worker, stage, proc, capped, left, files>>

\* Descendants of a failed worker get SIGTERM.
Sweep ==
  /\ Sup("sweep", "exit") /\ SignalGroup("term")
  /\ UNCHANGED <<now, off, code, worker, stage, proc, capped, left, files>>

SaveExit ==
  /\ Sup("exit", "poll") /\ exitCode' = code
  /\ UNCHANGED <<now, off, code, group, report, accepted, closure, failedStage, request>>

\* Twenty seconds for the group to end, then SIGKILL.
Poll ==
  \/ /\ ~ GroupLive
     /\ Sup("poll", "hold") /\ UNCHANGED code /\ SupOnly
  \/ /\ GroupLive
     /\ Sup("poll", "hold") /\ SignalGroup("kill")
     /\ UNCHANGED <<now, off, code, worker, stage, proc, capped, left, files>>

\* A failed job is held for inspection until the deadline.  Wrong on purpose:
\* only one that was cut off by it.
HeldIfCut == code # "timeout" \/ now = Deadline
Released == code = "zero" \/ now = Deadline
Hold == Released /\ Sup("hold", "guard") /\ UNCHANGED code /\ SupOnly

\* shutdown(): the wrapped processes and their descendants show in the command
\* lines; other work, a Trash or a terminal session may be there at any time.
Seen == WorkerLive \/ \E k \in Heavy : Live(k) \/ k \in left
Guard ==
  /\ \/ ~ Seen /\ Sup("guard", "request")
     \/ Sup("guard", "blocked")
  /\ UNCHANGED code /\ SupOnly
Request ==
  /\ Sup("request", "exec") /\ request' = TRUE
  /\ UNCHANGED <<now, off, code, group, report, accepted, closure, failedStage, exitCode>>
Exec ==
  /\ \/ Sup("exec", "off") /\ off' = TRUE
     \/ Sup("exec", "blocked") /\ UNCHANGED off
  /\ UNCHANGED <<now, code, group, files>>

Supervise ==
  \/ Popen \/ Record \/ Collect \/ Expire \/ Terminate \/ Reap \/ ReapExpires
  \/ Sweep \/ SaveExit \/ Poll \/ Hold \/ Guard \/ Request \/ Exec

SupervisorEnded == sup \in {"off", "blocked", "raised", "crashed"}

-----------------------------------------------------------------------------
(* worker()                                                                *)

\* No statement of a process runs while a signal for it is pending.
Work(from, to) == worker = from /\ signal[0] = "none" /\ worker' = to
WorkOnly == UNCHANGED <<now, off, sup, code, capped, left>>

\* watchdog.json names the supervisor, which must live; an exception here is
\* outside the try block.
Start ==
  /\ \/ sup # "crashed" /\ Work("start", "admit")
     \/ Work("start", "error")
  /\ UNCHANGED <<stage, proc, signal, files>> /\ WorkOnly

\* run(): a stage needs its minimum of the time that remains.
Minimum(k) == IF k \in Long THEN 2 ELSE 1
Admit ==
  /\ stage' = stage + 1
  /\ \/ /\ now + Minimum(stage + 1) > Deadline
        /\ Work("admit", "fail") /\ UNCHANGED proc
     \/ /\ now + Minimum(stage + 1) <= Deadline
        /\ Work("admit", "run")
        /\ proc' = [proc EXCEPT ![stage + 1] = "running"]
  /\ UNCHANGED <<signal, files>> /\ WorkOnly

\* check=True.  Wrong on purpose: the report alone decides about a stage that
\* has one.
ReportPassed(k) == proc[k] = "ok" \/ report[k] = "passed"
Passed(k) == proc[k] = "ok"
StageOver ==
  /\ worker = "run" /\ Over(stage)
  /\ IF Passed(stage) THEN Work("run", "check") ELSE Work("run", "fail")
  /\ UNCHANGED <<stage, proc, signal, files>> /\ WorkOnly

\* timeout=deadline - now: the process of the stage is killed and awaited, not
\* its descendants.  Wrong on purpose: the stage has no timeout.
Unlimited == FALSE
TimeIsUp == now = Deadline
StageExpires ==
  /\ worker = "run" /\ Live(stage) /\ TimeIsUp
  /\ Work("run", "kill")
  /\ signal' = [signal EXCEPT ![stage] = "kill"]
  /\ UNCHANGED <<stage, proc, files>> /\ WorkOnly
StageReaped ==
  /\ worker = "kill" /\ Over(stage)
  /\ Work("kill", "fail")
  /\ UNCHANGED <<stage, proc, signal, files>> /\ WorkOnly

\* The comparisons after a stage may raise; then accept() and the next one.
Check ==
  /\ \/ Work("check", "fail") /\ UNCHANGED accepted
     \/ /\ Work("check", IF stage = NStages THEN "complete" ELSE "admit")
        /\ accepted' = IF stage \in Gates THEN accepted \cup {stage} ELSE accepted
  /\ UNCHANGED <<stage, proc, signal, report, closure, failedStage, exitCode, request>>
  /\ WorkOnly

\* closure.json of either kind: opened, then written.
OpenClosure ==
  /\ Work("complete", "completing") \/ Work("fail", "failing")
  /\ closure' = "torn"
  /\ UNCHANGED <<stage, proc, signal, report, accepted, failedStage, exitCode, request>>
  /\ WorkOnly
FillClosure ==
  /\ \/ Work("completing", "return") /\ closure' = "completed" /\ UNCHANGED failedStage
     \/ Work("failing", "raise") /\ closure' = "stopped" /\ failedStage' = stage
  /\ UNCHANGED <<stage, proc, signal, report, accepted, exitCode, request>> /\ WorkOnly

WorkerExit ==
  /\ Work("return", "zero") \/ Work("raise", "error")
  /\ UNCHANGED <<stage, proc, signal, files>> /\ WorkOnly

RunWorker ==
  \/ Start \/ Admit \/ StageOver \/ StageExpires \/ StageReaped \/ Check
  \/ OpenClosure \/ FillClosure \/ WorkerExit

\* Either signal ends the worker, which has no handler and no closure then.
WorkerDies ==
  /\ WorkerLive /\ signal[0] # "none"
  /\ worker' = "error" /\ signal' = [signal EXCEPT ![0] = "none"]
  /\ UNCHANGED <<stage, proc, files>> /\ WorkOnly

-----------------------------------------------------------------------------
(* A stage; wrapped()                                                      *)

Runs(k, from) == proc[k] = from /\ signal[k] = "none"
StageOnly == UNCHANGED <<now, off, sup, code, worker, stage,
                         accepted, closure, failedStage, exitCode, request>>

\* The process is at its end; one that did not return may leave a descendant.
Ends(k, how) ==
  /\ proc' = [proc EXCEPT ![k] = how]
  /\ signal' = [signal EXCEPT ![k] = "none"]
  /\ left' \in {left, IF how = "ok" THEN left ELSE left \cup {k}}

LightEnds(k) ==
  /\ k \notin Heavy /\ Runs(k, "running")
  /\ Ends(k, "ok") \/ Ends(k, "failed")
  /\ UNCHANGED <<capped, report>> /\ StageOnly

\* run_path() returns or raises: the finally block.
ScriptEnds(k) ==
  /\ k \in Heavy /\ Runs(k, "running")
  /\ \E how \in {"passing", "unwinding"} : proc' = [proc EXCEPT ![k] = how]
  /\ UNCHANGED <<capped, left, signal, report>> /\ StageOnly

InFinally(k) == Runs(k, "passing") \/ Runs(k, "unwinding")

OpenReport(k) ==
  /\ InFinally(k) /\ report[k] = "absent"
  /\ report' = [report EXCEPT ![k] = "torn"]
  /\ UNCHANGED <<proc, capped, left, signal>> /\ StageOnly

\* "passed" if passed and not reasons else "failed"
FillReport(k) ==
  /\ InFinally(k) /\ report[k] = "torn"
  /\ report' = [report EXCEPT ![k] =
                  IF proc[k] = "passing" /\ k \notin capped THEN "passed" ELSE "failed"]
  /\ UNCHANGED <<proc, capped, left, signal>> /\ StageOnly

\* The assertions on the peaks follow the report and may fail.
WrapperEnds(k) ==
  /\ InFinally(k) /\ report[k] \in {"passed", "failed"}
  /\ Ends(k, "failed") \/ (proc[k] = "passing" /\ k \notin capped /\ Ends(k, "ok"))
  /\ UNCHANGED <<capped, report>> /\ StageOnly

\* The monitor thread appends its reason and signals its own process, until
\* the finally block stops it.
MemoryCap(k) ==
  /\ k \in Heavy /\ k \notin capped
  /\ Runs(k, "running") \/ (InFinally(k) /\ report[k] = "absent")
  /\ capped' = capped \cup {k}
  /\ signal' = [signal EXCEPT ![k] = "term"]
  /\ UNCHANGED <<proc, left, report>> /\ StageOnly

\* handle_term() raises: out of the script into the finally block, or out of
\* the finally block at whatever statement it is.
HandleTerm(k) ==
  /\ k \in Heavy /\ signal[k] = "term"
  /\ \/ /\ proc[k] = "running"
        /\ proc' = [proc EXCEPT ![k] = "unwinding"]
        /\ signal' = [signal EXCEPT ![k] = "none"]
        /\ UNCHANGED left
     \/ proc[k] \in {"passing", "unwinding"} /\ Ends(k, "failed")
  /\ UNCHANGED <<capped, report>> /\ StageOnly

\* SIGKILL, or SIGTERM where no handler is installed (yet).
Dies(k) ==
  /\ Live(k)
  /\ \/ signal[k] = "kill"
     \/ signal[k] = "term" /\ (k \notin Heavy \/ (proc[k] = "running" /\ k \notin capped))
  /\ Ends(k, "killed")
  /\ UNCHANGED <<capped, report>> /\ StageOnly

DescendantEnds(k) ==
  /\ k \in left /\ left' = left \ {k}
  /\ UNCHANGED <<proc, capped, signal, report>> /\ StageOnly

Stage(k) ==
  \/ LightEnds(k) \/ ScriptEnds(k) \/ OpenReport(k) \/ FillReport(k) \/ WrapperEnds(k)
  \/ MemoryCap(k) \/ HandleTerm(k) \/ Dies(k) \/ DescendantEnds(k)

-----------------------------------------------------------------------------
(* The system                                                              *)

KillSupervisor ==
  /\ "supervisor" \in Crashable /\ sup # "popen" /\ ~ SupervisorEnded
  /\ sup' = "crashed"
  /\ UNCHANGED code /\ SupOnly

KillWorker ==
  /\ "worker" \in Crashable /\ WorkerLive
  /\ signal' = [signal EXCEPT ![0] = "kill"]
  /\ UNCHANGED <<sup, worker, stage, proc, files>> /\ WorkOnly

Tick ==
  /\ now < Deadline /\ now' = now + 1
  /\ UNCHANGED <<off, sup, code, group, files>>

Init ==
  /\ now = 0 /\ off = FALSE
  /\ sup = "popen" /\ code = "none"
  /\ worker = "none" /\ stage = 0
  /\ proc = [k \in Stages |-> "none"] /\ capped = {} /\ left = {}
  /\ signal = [p \in 0..NStages |-> "none"]
  /\ report = [k \in Stages |-> "absent"] /\ accepted = {}
  /\ closure = "absent" /\ failedStage = 0 /\ exitCode = "none" /\ request = FALSE

Next ==
  /\ ~ off
  /\ \/ Supervise \/ RunWorker \/ WorkerDies
     \/ \E k \in Stages : Stage(k)
     \/ KillSupervisor \/ KillWorker
     \/ Tick

(***************************************************************************)
(* The system runs both processes, ends a process that SIGKILL was sent    *)
(* to, and time passes.  Nothing is assumed of the stages: they and their  *)
(* descendants may hang and ignore SIGTERM.                                *)
(***************************************************************************)
Killed(k) == signal[k] = "kill" /\ Dies(k)
Fairness ==
  /\ WF_vars(~ off /\ Supervise) /\ WF_vars(~ off /\ RunWorker)
  /\ WF_vars(~ off /\ WorkerDies)
  /\ \A k \in Stages : WF_vars(~ off /\ Killed(k))
  /\ WF_vars(~ off /\ Tick)

Spec == Init /\ [][Next]_vars /\ Fairness

-----------------------------------------------------------------------------
\* The values of the variables; nothing is pending for a process that is not
\* there, and a report belongs to a wrapped stage.
TypeOK ==
  /\ now \in 0..Deadline /\ off \in BOOLEAN
  /\ sup \in {"popen", "record", "wait", "terminate", "reap", "reap killed", "sweep",
              "exit", "poll", "hold", "guard", "request", "exec", "off", "blocked",
              "raised", "crashed"}
  /\ code \in {"none", "zero", "error", "timeout"} /\ exitCode \in {"none", code}
  /\ worker \in {"none", "start", "admit", "run", "kill", "check", "complete",
                 "completing", "fail", "failing", "return", "raise", "zero", "error"}
  /\ stage \in 0..NStages /\ failedStage \in {0, stage}
  /\ \A k \in Stages :
       /\ Live(k) \/ Over(k) \/ (proc[k] = "none" /\ k >= stage)
       /\ proc[k] \in {"passing", "unwinding"} \/ report[k] # "absent" => k \in Heavy
       /\ signal[k] # "none" => Live(k)
       /\ report[k] \in {"absent", "torn", "passed", "failed"}
  /\ signal \in [0..NStages -> {"none", "term", "kill"}]
  /\ signal[0] # "none" => WorkerLive
  /\ capped \subseteq Heavy /\ left \subseteq Stages /\ accepted \subseteq Gates
  /\ closure \in {"absent", "torn", "completed", "stopped"} /\ request \in BOOLEAN

\* The files tell one story, whichever of the two timeouts at the deadline
\* comes first and whatever is killed: accepted evidence rests on stages that
\* exited 0 with a report that passed; a completed closure on all of them; a
\* stopped one names the last stage that began; an exit code of 0 on a
\* completed closure; and only a completed job is powered off before the
\* deadline (registration: "retain stopped evidence until the same shared
\* deadline").
FilesAgree ==
  /\ \A k \in accepted : \A j \in 1..k :
       proc[j] = "ok" /\ (j \in Heavy => report[j] = "passed")
  /\ closure = "completed" => accepted = Gates /\ \A k \in Stages : proc[k] = "ok"
  /\ closure = "stopped" =>
       /\ \A k \in 1..(failedStage - 1) : proc[k] = "ok"
       /\ \A k \in Stages : k > failedStage => proc[k] = "none"
  /\ exitCode = "zero" => closure = "completed"
  /\ off /\ now < Deadline => closure = "completed"

\* The supervisor comes to its end although the worker, stages or descendants
\* hang, and a worker that lost its supervisor ends all the same.
BothEnd == <>SupervisorEnded /\ (sup = "crashed" ~> ~ WorkerLive)

\* The campaign that the Iris furnace implements.
Campaign == INSTANCE IrisCampaign WITH
  complete <- {k \in Stages : proc[k] = "ok"},
  working <- {k \in Stages : Live(k)},
  lost <- {k \in Stages : proc[k] \in {"failed", "killed"}},
  verdict <- IF closure = "completed" THEN "passed"
             ELSE IF closure = "stopped" THEN "failed" ELSE "open",
  delivered <- FALSE

\* Stages work one at a time, in order and on complete earlier ones, none
\* begins after one is lost or the verdict is given, and nothing happens after
\* the power is off: every behaviour is one of IrisCampaign.
ImplementsCampaign == Campaign!Spec
=============================================================================
