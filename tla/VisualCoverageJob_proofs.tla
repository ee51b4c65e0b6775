----------------------- MODULE VisualCoverageJob_proofs -----------------------
(***************************************************************************)
(* Proofs about VisualCoverageJob, for any number of stages, wrapped or    *)
(* not, any deadline and either process killed.  The argument: a stage     *)
(* that has ended keeps its end and its report, the worker's statements    *)
(* say how many of them have ended well, and nobody but the worker writes  *)
(* a closure.                                                              *)
(***************************************************************************)
EXTENDS VisualCoverageJob, TLAPS

-----------------------------------------------------------------------------
(* The inductive invariant.                                                *)

Values ==
  /\ sup \in {"popen", "record", "wait", "terminate", "reap", "reap killed", "sweep",
              "exit", "poll", "hold", "guard", "request", "exec", "off", "blocked",
              "raised", "crashed"}
  /\ code \in {"none", "zero", "error", "timeout"} /\ exitCode \in {"none", code}
  /\ worker \in {"none", "start", "admit", "run", "kill", "check", "complete",
                 "completing", "fail", "failing", "return", "raise", "zero", "error"}
  /\ accepted \subseteq Gates
  /\ closure \in {"absent", "torn", "completed", "stopped"}

Numbers == now \in 0..Deadline /\ stage \in 0..NStages /\ failedStage \in {0, stage}
Flags == off \in BOOLEAN /\ request \in BOOLEAN /\ (off => sup = "off")

\* A report is written in the finally block, and what it says of the memory
\* stays true.
Wrapped ==
  /\ proc \in [Stages -> {"none", "running", "passing", "unwinding", "ok", "failed",
                          "killed"}]
  /\ report \in [Stages -> {"absent", "torn", "passed", "failed"}]
  /\ capped \subseteq Heavy /\ left \subseteq Stages
  /\ \A k \in Stages :
       /\ proc[k] \in {"passing", "unwinding"} => k \in Heavy
       /\ report[k] # "absent" => k \in Heavy
       /\ proc[k] \in {"none", "running"} => report[k] = "absent"
       /\ proc[k] = "passing" /\ report[k] = "failed" => k \in capped
       /\ proc[k] = "ok" /\ k \in Heavy => report[k] = "passed"

\* Nothing is pending for a process that is not there.
Pending ==
  /\ signal \in [0..NStages -> {"none", "term", "kill"}]
  /\ signal[0] # "none" => WorkerLive
  /\ \A k \in Stages : signal[k] # "none" => Live(k)

\* Where worker() is in the list of the stages.
Ordered ==
  /\ \A k \in Stages : (k < stage => proc[k] = "ok") /\ (k > stage => proc[k] = "none")
  /\ worker \in {"none", "start"} => stage = 0
  /\ worker = "admit" => stage < NStages
  /\ worker \in {"run", "kill", "check"} => stage \in Stages
  /\ worker \in {"complete", "completing", "return", "zero"} => stage = NStages
  /\ worker \in {"admit", "check", "complete", "completing", "return", "zero"} =>
       \A k \in Stages : k <= stage => proc[k] = "ok"

\* The evidence it has accepted by then.
Evidence ==
  /\ \A k \in accepted : k <= stage /\ proc[k] = "ok"
  /\ \A k \in Gates : k < stage => k \in accepted
  /\ worker \in {"none", "start", "admit", "complete", "completing", "return", "zero"} =>
       \A k \in Gates : k <= stage => k \in accepted

\* Its closure.
Closing ==
  /\ closure # "absent" =>
       worker \in {"completing", "failing", "return", "raise", "zero", "error"}
  /\ worker \in {"completing", "failing"} => closure = "torn"
  /\ worker \in {"return", "zero"} => closure = "completed"
  /\ closure = "completed" =>
       /\ worker \in {"return", "zero", "error"}
       /\ stage = NStages /\ \A k \in Stages : proc[k] = "ok"
       /\ \A k \in Gates : k \in accepted
  /\ closure = "stopped" => worker \in {"raise", "error"} /\ failedStage = stage
  /\ failedStage # 0 => closure = "stopped"

\* What supervise() knows of it.
Supervised ==
  /\ sup = "popen" => worker = "none"
  /\ sup \in {"popen", "record", "wait", "terminate", "reap", "reap killed", "sweep", "exit"}
       => exitCode = "none"
  /\ code = "zero" => worker = "zero"
  /\ sup \in {"guard", "request", "exec", "off"} => code = "zero" \/ now = Deadline

IInv ==
  /\ Values /\ Numbers /\ Flags
  /\ Wrapped /\ Pending /\ Ordered /\ Evidence /\ Closing /\ Supervised

-----------------------------------------------------------------------------
(* What a step of one process leaves to the others.                        *)

\* A stage at work is the one the worker is at, and nothing rests on it yet.
LEMMA AtWork ==
  ASSUME IInv, NEW k \in Stages, Live(k)
  PROVE  /\ k = stage /\ k \notin accepted /\ closure # "completed"
         /\ worker \notin {"none", "start", "admit", "check", "complete", "completing",
                           "return", "zero"}
<1>1. proc[k] # "ok" /\ proc[k] # "none"
  BY DEF Live
<1>2. k = stage
  <2>1. k \in Nat /\ stage \in Nat
    <3>1. NStages \in Nat
      BY JobAssumption
    <3> QED BY <3>1 DEF IInv, Numbers, Stages
  <2>2. ~ (k < stage) /\ ~ (k > stage)
    BY <1>1 DEF IInv, Ordered
  <2> QED BY <2>1, <2>2
<1>3. worker \notin {"none", "start"}
  BY <1>2, JobAssumption DEF IInv, Ordered, Stages
<1>4. k <= stage
  BY <1>2, JobAssumption DEF Stages
<1> QED BY <1>1, <1>2, <1>3, <1>4 DEF IInv, Ordered, Evidence, Closing

LEMMA StageSuffices ==
  ASSUME IInv, NEW k \in Stages, Live(k), \A j \in Stages \ {k} : proc'[j] = proc[j],
         UNCHANGED <<now, off, sup, code, worker, stage, accepted, closure, failedStage,
                     exitCode, request>>,
         Wrapped', Pending'
  PROVE  IInv'
<1>1. Values' /\ Numbers'
  <2>1. Values'
    BY DEF IInv, Values
  <2>2. Numbers'
    BY DEF IInv, Numbers
  <2> QED BY <2>1, <2>2
<1>6. Flags'
  BY DEF IInv, Flags
<1> USE AtWork
<1>2. Ordered'
  BY DEF IInv, Ordered
<1>3. Evidence'
  <2>1. accepted \subseteq Stages
    BY JobAssumption DEF IInv, Values
  <2> QED BY <2>1 DEF IInv, Evidence
<1>4. Closing'
  BY DEF IInv, Closing
<1>5. Supervised'
  BY DEF IInv, Supervised
<1> QED BY <1>1, <1>2, <1>3, <1>4, <1>5, <1>6 DEF IInv

LEMMA SupSuffices ==
  ASSUME IInv, UNCHANGED <<worker, stage, proc, capped, report, accepted, closure,
                           failedStage>>,
         left' \subseteq left, now' = now, Values', Flags', Pending', Supervised'
  PROVE  IInv'
<1>1. Wrapped'
  BY DEF IInv, Wrapped
<1>2. Ordered' /\ Evidence'
  BY DEF IInv, Ordered, Evidence
<1>3. Closing'
  BY DEF IInv, Closing
<1>4. Numbers'
  BY DEF IInv, Numbers
<1> QED BY <1>1, <1>2, <1>3, <1>4 DEF IInv

\* The supervisor's part of a step of the worker.
LEMMA WorkerSuffices ==
  ASSUME IInv, WorkerLive, worker' # "none",
         UNCHANGED <<now, off, sup, code, capped, left, report, exitCode, request>>,
         worker' \in {"start", "admit", "run", "kill", "check", "complete", "completing",
                      "fail", "failing", "return", "raise", "zero", "error"},
         stage' \in 0..NStages /\ failedStage' \in {0, stage'}, accepted' \subseteq Gates,
         closure' \in {"absent", "torn", "completed", "stopped"},
         Wrapped', Pending', Ordered', Evidence', Closing'
  PROVE  IInv'
<1>1. Values' /\ Numbers'
  BY DEF IInv, Values, Numbers
<1>2. Supervised'
  BY DEF IInv, Supervised, WorkerLive
<1>3. Flags'
  BY DEF IInv, Flags
<1> QED BY <1>1, <1>2, <1>3 DEF IInv

LEMMA SignalKeeps ==
  ASSUME Pending, NEW s \in {"term", "kill"}, SignalGroup(s), UNCHANGED <<worker, proc>>
  PROVE  Pending'
<1>1. 0 \in 0..NStages /\ \A k \in Stages : k \in 0..NStages /\ k > 0
  BY JobAssumption DEF Stages
<1>2. signal' \in [0..NStages -> {"none", "term", "kill"}]
  BY DEF SignalGroup
<1>3. signal'[0] # "none" => WorkerLive
  BY <1>1 DEF SignalGroup
<1>4. \A k \in Stages : signal'[k] # "none" => Live(k)
  BY <1>1 DEF SignalGroup
<1> QED BY <1>2, <1>3, <1>4 DEF Pending, WorkerLive, Live

-----------------------------------------------------------------------------
(* The supervisor.                                                         *)

LEMMA PopenKeeps ==
  ASSUME IInv, Popen
  PROVE  IInv'
<1>1. /\ worker = "none" /\ worker' = "start" /\ sup' = "record"
      /\ UNCHANGED <<now, off, code, stage, proc, capped, left, signal, report, accepted,
                     closure, failedStage, exitCode, request>>
  BY DEF IInv, Supervised, Popen, Sup, files
<1>2. Values' /\ Supervised'
  BY <1>1 DEF IInv, Values, Supervised, Popen, Sup
<1>3. Wrapped' /\ Ordered' /\ Evidence' /\ Closing'
  BY <1>1 DEF IInv, Wrapped, Ordered, Evidence, Closing
<1>4. Pending'
  BY <1>1 DEF IInv, Pending, WorkerLive, Live
<1>5. off = FALSE
  BY DEF IInv, Flags, Popen, Sup
<1>6. Flags'
  BY <1>1, <1>5 DEF IInv, Flags
<1>7. Numbers'
  BY <1>1 DEF IInv, Numbers
<1> QED BY <1>2, <1>3, <1>4, <1>6, <1>7 DEF IInv

LEMMA SuperviseKeeps ==
  ASSUME IInv, Supervise
  PROVE  IInv'
<1>1. CASE Popen
  BY <1>1, PopenKeeps
<1>2. CASE ~ Popen
  <2>1. UNCHANGED <<worker, stage, proc, capped, left, report, accepted, closure, failedStage>>
    BY <1>2 DEF Supervise, Record, Collect, Expire, Terminate, Reap, ReapExpires, Sweep,
                SaveExit, Poll, Hold, Guard, Request, Exec, SupOnly, group, files
  <2>2. Pending'
    <3>1. \/ signal' = signal \/ SignalGroup("term") \/ SignalGroup("kill")
      BY <1>2 DEF Supervise, Record, Collect, Expire, Terminate, Reap, ReapExpires, Sweep,
                  SaveExit, Poll, Hold, Guard, Request, Exec, SupOnly, group, files
    <3>2. CASE signal' = signal
      BY <2>1, <3>2 DEF IInv, Pending, WorkerLive, Live
    <3>3. CASE SignalGroup("term") \/ SignalGroup("kill")
      BY <2>1, <3>3, SignalKeeps DEF IInv
    <3> QED BY <3>1, <3>2, <3>3
  <2>6. Flags' /\ now' = now
    <3>1. now' = now
      BY <1>2 DEF Supervise, Record, Collect, Expire, Terminate, Reap, ReapExpires, Sweep,
                  SaveExit, Poll, Hold, Guard, Request, Exec, SupOnly, group, files
    <3>2. off' = off \/ (off' = TRUE /\ sup' = "off")
      BY <1>2 DEF Supervise, Record, Collect, Expire, Terminate, Reap, ReapExpires, Sweep,
                  SaveExit, Poll, Hold, Guard, Request, Exec, SupOnly, Sup
    <3>3. request' = request \/ request' = TRUE
      BY <1>2 DEF Supervise, Record, Collect, Expire, Terminate, Reap, ReapExpires, Sweep,
                  SaveExit, Poll, Hold, Guard, Request, Exec, SupOnly, group, files
    <3>4. sup # "off"
      BY <1>2 DEF Supervise, Record, Collect, Expire, Terminate, Reap, ReapExpires, Sweep,
                  SaveExit, Poll, Hold, Guard, Request, Exec, Sup
    <3>5. off \in BOOLEAN /\ request \in BOOLEAN /\ off # TRUE
      BY <3>4 DEF IInv, Flags
    <3>6. off' \in BOOLEAN /\ request' \in BOOLEAN
      BY <3>2, <3>3, <3>5
    <3>7. off' => sup' = "off"
      BY <3>2, <3>5
    <3> QED BY <3>1, <3>6, <3>7 DEF Flags
  <2>3. CASE Record \/ Expire \/ Poll \/ Guard \/ Sweep
    <3>1. UNCHANGED <<code, exitCode>>
      BY <2>3 DEF Record, Expire, Sweep, Poll, Guard, SupOnly, group, files, Sup
    <3>4. \/ sup = "record" /\ sup' = "wait"
          \/ sup = "wait" /\ sup' = "terminate"
          \/ sup = "sweep" /\ sup' = "exit"
          \/ sup = "poll" /\ sup' = "hold"
          \/ sup = "guard" /\ sup' \in {"request", "blocked"}
      BY <2>3 DEF Record, Expire, Sweep, Poll, Guard, Sup
    <3>2. Values'
      BY <2>1, <3>1, <3>4 DEF IInv, Values
    <3>3. Supervised'
      BY <2>1, <2>6, <3>1, <3>4 DEF IInv, Supervised
    <3> QED BY <2>1, <2>2, <2>6, <3>2, <3>3, SupSuffices
  <2>4. CASE Collect \/ Terminate \/ Reap \/ ReapExpires
    <3>1. exitCode' = exitCode /\ exitCode = "none"
      BY <2>4 DEF Collect, Terminate, Reap, ReapExpires, SupOnly, group, files, Sup, IInv,
                  Supervised
    <3>2. sup' \in {"reap", "reap killed", "sweep", "raised"}
      BY <2>4 DEF Collect, Terminate, Reap, ReapExpires, Sup
    <3>3. code' = code \/ code' = "timeout" \/ (sup = "wait" /\ ~ WorkerLive /\ code' = worker)
      BY <2>4 DEF Collect, Terminate, Reap, ReapExpires, SupOnly, Sup
    <3>5. Values'
      BY <2>1, <3>1, <3>2, <3>3 DEF WorkerLive, IInv, Values
    <3>6. Supervised'
      BY <2>1, <2>6, <3>1, <3>2, <3>3 DEF IInv, Supervised
    <3> QED BY <2>1, <2>2, <2>6, <3>5, <3>6, SupSuffices
  <2>5. CASE SaveExit \/ Hold \/ Request \/ Exec
    <3>1. code' = code /\ (exitCode' = exitCode \/ (exitCode' = code /\ sup = "exit"))
      BY <2>5 DEF SaveExit, Hold, Request, Exec, SupOnly, group, files, Sup
    <3>2. \/ sup = "exit" /\ sup' = "poll"
          \/ sup = "hold" /\ sup' = "guard" /\ Released
          \/ sup = "request" /\ sup' = "exec"
          \/ sup = "exec" /\ sup' \in {"off", "blocked"}
      BY <2>5 DEF SaveExit, Hold, Request, Exec, Sup
    <3>3. Values'
      BY <2>1, <3>1, <3>2 DEF IInv, Values
    <3>4. Supervised'
      BY <2>1, <2>6, <3>1, <3>2 DEF Released, IInv, Supervised
    <3> QED BY <2>1, <2>2, <2>6, <3>3, <3>4, SupSuffices
  <2> QED BY <1>2, <2>3, <2>4, <2>5 DEF Supervise
<1> QED BY <1>1, <1>2

-----------------------------------------------------------------------------
(* The stages.                                                             *)

\* A stage at its end, in whatever way.
LEMMA EndsKeeps ==
  ASSUME IInv, NEW k \in Stages, Live(k), NEW how \in {"ok", "failed", "killed"},
         Ends(k, how), how = "ok" /\ k \in Heavy => report[k] = "passed",
         UNCHANGED <<capped, report>>, StageOnly
  PROVE  IInv'
<1>1. k \in 0..NStages /\ k # 0 /\ 0 \in 0..NStages
  BY JobAssumption DEF Stages
<1>2. Wrapped'
  <2>1. left' \subseteq Stages
    BY DEF Ends, IInv, Wrapped
  <2>2. proc' = [proc EXCEPT ![k] = how] /\ UNCHANGED <<capped, report>>
    BY DEF Ends
  <2> QED BY <2>1, <2>2 DEF IInv, Wrapped
<1>3. Pending'
  <2>1. proc' = [proc EXCEPT ![k] = how] /\ signal' = [signal EXCEPT ![k] = "none"]
        /\ worker' = worker
    BY DEF Ends, StageOnly
  <2>2. proc \in [Stages -> {"none", "running", "passing", "unwinding", "ok", "failed",
                             "killed"}]
    BY DEF IInv, Wrapped
  <2>3. \A j \in Stages : j \in 0..NStages
    BY JobAssumption DEF Stages
  <2> QED BY <1>1, <2>1, <2>2, <2>3 DEF IInv, Pending, WorkerLive, Live
<1>4. \A j \in Stages \ {k} : proc'[j] = proc[j]
  BY DEF Ends, IInv, Wrapped
<1> QED BY <1>2, <1>3, <1>4, StageSuffices DEF StageOnly

\* A stage that goes on, with nothing new pending but what its own monitor sends.
LEMMA WorksKeeps ==
  ASSUME IInv, NEW k \in Stages, Live(k), StageOnly, Wrapped',
         NEW p \in {"running", "passing", "unwinding"}, proc' = [proc EXCEPT ![k] = p],
         NEW s \in {"none", "term"}, signal' = signal \/ signal' = [signal EXCEPT ![k] = s]
  PROVE  IInv'
<1>1. k \in 0..NStages /\ k # 0 /\ 0 \in 0..NStages /\ \A j \in Stages : j \in 0..NStages
  BY JobAssumption DEF Stages
<1>2. proc \in [Stages -> {"none", "running", "passing", "unwinding", "ok", "failed",
                           "killed"}]
  BY DEF IInv, Wrapped
<1>3. Pending'
  BY <1>1, <1>2 DEF StageOnly, IInv, Pending, WorkerLive, Live
<1>4. \A j \in Stages \ {k} : proc'[j] = proc[j]
  BY <1>2
<1> QED BY <1>3, <1>4, StageSuffices DEF StageOnly

LEMMA StageKeeps ==
  ASSUME IInv, NEW k \in Stages, Stage(k)
  PROVE  IInv'
<1>1. CASE LightEnds(k)
  <2>1. PICK how \in {"ok", "failed"} : Ends(k, how)
    BY <1>1 DEF LightEnds
  <2>2. Live(k) /\ k \notin Heavy /\ UNCHANGED <<capped, report>> /\ StageOnly
    BY <1>1 DEF LightEnds, Runs, Live
  <2> QED BY <2>1, <2>2, EndsKeeps
<1>2. CASE ScriptEnds(k)
  <2>1. PICK how \in {"passing", "unwinding"} : proc' = [proc EXCEPT ![k] = how]
    BY <1>2 DEF ScriptEnds
  <2>2. k \in Heavy /\ proc[k] = "running" /\ UNCHANGED <<capped, left, signal, report>>
        /\ StageOnly
    BY <1>2 DEF ScriptEnds, Runs
  <2>3. Wrapped'
    BY <2>1, <2>2 DEF IInv, Wrapped
  <2> QED BY <2>1, <2>2, <2>3, WorksKeeps DEF Live
<1>3. CASE OpenReport(k) \/ FillReport(k) \/ MemoryCap(k)
  <2>1. proc[k] \in {"running", "passing", "unwinding"} /\ proc' = proc /\ left' = left
        /\ StageOnly
    BY <1>3 DEF OpenReport, FillReport, MemoryCap, InFinally, Runs
  <2>2. proc' = [proc EXCEPT ![k] = proc[k]]
    BY <2>1 DEF IInv, Wrapped
  <2>3. signal' = signal \/ signal' = [signal EXCEPT ![k] = "term"]
    BY <1>3 DEF OpenReport, FillReport, MemoryCap
  <2>4. Wrapped'
    BY <1>3, <2>1 DEF OpenReport, FillReport, MemoryCap, InFinally, Runs, IInv, Wrapped
  <2> QED BY <2>1, <2>2, <2>3, <2>4, WorksKeeps DEF Live
<1>4. CASE WrapperEnds(k)
  <2>1. PICK how \in {"ok", "failed"} : /\ Ends(k, how)
                                        /\ how = "ok" => proc[k] = "passing" /\ k \notin capped
    BY <1>4 DEF WrapperEnds
  <2>2. Live(k) /\ report[k] \in {"passed", "failed"} /\ UNCHANGED <<capped, report>> /\ StageOnly
    BY <1>4 DEF WrapperEnds, InFinally, Runs, Live
  <2>3. how = "ok" => report[k] = "passed"
    BY <2>1, <2>2 DEF IInv, Wrapped
  <2> QED BY <2>1, <2>2, <2>3, EndsKeeps
<1>5. CASE HandleTerm(k)
  <2>1. k \in Heavy /\ UNCHANGED <<capped, report>> /\ StageOnly
    BY <1>5 DEF HandleTerm
  <2>2. CASE proc[k] = "running" /\ proc' = [proc EXCEPT ![k] = "unwinding"]
             /\ signal' = [signal EXCEPT ![k] = "none"] /\ UNCHANGED left
    <3>1. Wrapped'
      BY <2>1, <2>2 DEF IInv, Wrapped
    <3> QED BY <2>1, <2>2, <3>1, WorksKeeps DEF Live
  <2>3. CASE proc[k] \in {"passing", "unwinding"} /\ Ends(k, "failed")
    BY <2>1, <2>3, EndsKeeps DEF Live
  <2> QED BY <1>5, <2>2, <2>3 DEF HandleTerm
<1>6. CASE Dies(k)
  BY <1>6, EndsKeeps DEF Dies
<1>7. CASE DescendantEnds(k)
  <2>1. UNCHANGED <<now, off, sup, code, worker, stage, accepted, closure, failedStage,
                    exitCode, request, proc, capped, signal, report>>
        /\ left' \subseteq left
    BY <1>7 DEF DescendantEnds, StageOnly
  <2>2. Values'
    BY <2>1 DEF IInv, Values
  <2>3. Supervised'
    BY <2>1 DEF IInv, Supervised
  <2>4. Pending'
    BY <2>1 DEF IInv, Pending, WorkerLive, Live
  <2>5. Flags'
    BY <2>1 DEF IInv, Flags
  <2> QED BY <2>1, <2>2, <2>3, <2>4, <2>5, SupSuffices
<1> QED BY <1>1, <1>2, <1>3, <1>4, <1>5, <1>6, <1>7 DEF Stage

-----------------------------------------------------------------------------
(* The worker.                                                             *)

\* Its steps that touch no stage.
Aside ==
  Start \/ StageOver \/ StageReaped \/ Check \/ OpenClosure \/ FillClosure \/ WorkerExit

LEMMA AsideKeeps ==
  ASSUME IInv, Aside
  PROVE  IInv'
<1>1. UNCHANGED <<now, off, sup, code, capped, left, report, exitCode, request>>
  BY DEF Aside, Start, StageOver, StageReaped, Check, OpenClosure, FillClosure, WorkerExit,
         WorkOnly, files
<1>2. UNCHANGED <<stage, proc, capped, left, report, signal>>
  BY <1>1 DEF Aside, Start, StageOver, StageReaped, Check, OpenClosure, FillClosure, WorkerExit
<1>3. signal[0] = "none" /\ WorkerLive
  BY DEF Aside, Start, StageOver, StageReaped, Check, OpenClosure, FillClosure, WorkerExit,
         Work, WorkerLive
<1>4. Wrapped'
  BY <1>2 DEF IInv, Wrapped
<1>5. Pending'
  BY <1>2, <1>3 DEF IInv, Pending, Live
<1>6. CASE Start
  <2>1. /\ worker = "start" /\ worker' \in {"admit", "error"}
        /\ UNCHANGED <<accepted, closure, failedStage>>
    BY <1>6 DEF Start, Work, files
  <2>2. Ordered' /\ Evidence'
    <3>1. NStages \in Nat \ {0} /\ \A k \in Stages : ~ (k <= 0)
      BY JobAssumption DEF Stages
    <3> QED BY <1>2, <2>1, <3>1 DEF IInv, Ordered, Evidence
  <2>3. Closing'
    BY <1>2, <2>1 DEF IInv, Closing
  <2> QED BY <1>1, <1>2, <1>3, <1>4, <1>5, <2>1, <2>2, <2>3, WorkerSuffices
             DEF IInv, Values, Numbers
<1>7. CASE StageOver \/ StageReaped
  <2>1. /\ worker \in {"run", "kill"} /\ worker' \in {"check", "fail"}
        /\ worker' = "check" => proc[stage] = "ok"
        /\ UNCHANGED <<accepted, closure, failedStage>>
    BY <1>7 DEF StageOver, StageReaped, Work, files, Passed
  <2>2. Ordered' /\ Evidence'
    <3>1. \A k \in Stages : k <= stage => k < stage \/ k = stage
      <4>1. NStages \in Nat
        BY JobAssumption
      <4> QED BY <4>1 DEF IInv, Numbers, Stages
    <3> QED BY <1>2, <2>1, <3>1 DEF IInv, Ordered, Evidence
  <2>3. Closing'
    BY <1>2, <2>1 DEF IInv, Closing
  <2> QED BY <1>1, <1>2, <1>3, <1>4, <1>5, <2>1, <2>2, <2>3, WorkerSuffices
             DEF IInv, Values, Numbers
<1>8. CASE Check
  <2>1. /\ worker = "check" /\ UNCHANGED <<closure, failedStage>>
        /\ \/ worker' = "fail" /\ accepted' = accepted
           \/ /\ worker' = IF stage = NStages THEN "complete" ELSE "admit"
              /\ accepted' = IF stage \in Gates THEN accepted \cup {stage} ELSE accepted
    BY <1>8 DEF Check, Work
  <2>2. Ordered'
    <3>1. worker' = "admit" => stage < NStages
      <4>1. NStages \in Nat
        BY JobAssumption
      <4> QED BY <2>1, <4>1 DEF IInv, Numbers
    <3> QED BY <1>2, <2>1, <3>1 DEF IInv, Ordered
  <2>3. Evidence'
    <3>1. \A k \in Stages : k <= stage => k < stage \/ k = stage
      <4>1. NStages \in Nat
        BY JobAssumption
      <4> QED BY <4>1 DEF IInv, Numbers, Stages
    <3>2. stage \in Stages /\ stage <= stage /\ proc[stage] = "ok"
      <4>1. NStages \in Nat
        BY JobAssumption
      <4> QED BY <2>1, <4>1 DEF IInv, Ordered, Stages
    <3>3. Gates \subseteq Stages
      BY JobAssumption
    <3> QED BY <1>2, <2>1, <3>1, <3>2, <3>3 DEF IInv, Evidence
  <2>4. Closing'
    BY <1>2, <2>1 DEF IInv, Closing
  <2> QED BY <1>1, <1>2, <1>3, <1>4, <1>5, <2>1, <2>2, <2>3, <2>4, WorkerSuffices
             DEF IInv, Values, Numbers
<1>9. CASE OpenClosure
  <2>1. /\ UNCHANGED <<accepted, failedStage>> /\ closure' = "torn"
        /\ \/ worker = "complete" /\ worker' = "completing"
           \/ worker = "fail" /\ worker' = "failing"
    BY <1>9 DEF OpenClosure, Work
  <2>2. Ordered' /\ Evidence'
    BY <1>2, <2>1 DEF IInv, Ordered, Evidence
  <2>3. Closing'
    BY <1>2, <2>1 DEF IInv, Closing
  <2> QED BY <1>1, <1>2, <1>3, <1>4, <1>5, <2>1, <2>2, <2>3, WorkerSuffices
             DEF IInv, Values, Numbers
<1>10. CASE FillClosure
  <2>1. /\ UNCHANGED accepted
        /\ \/ /\ worker = "completing" /\ worker' = "return" /\ closure' = "completed"
              /\ UNCHANGED failedStage
           \/ /\ worker = "failing" /\ worker' = "raise" /\ closure' = "stopped"
              /\ failedStage' = stage
    BY <1>10 DEF FillClosure, Work
  <2>2. Ordered' /\ Evidence'
    BY <1>2, <2>1 DEF IInv, Ordered, Evidence
  <2>3. worker = "completing" => /\ stage = NStages /\ \A k \in Stages : proc[k] = "ok"
                                 /\ \A k \in Gates : k \in accepted
    <3>1. Gates \subseteq Stages /\ \A k \in Stages : k <= NStages
      BY JobAssumption DEF Stages
    <3> QED BY <3>1 DEF IInv, Ordered, Evidence
  <2>4. Closing'
    BY <1>2, <2>1, <2>3 DEF IInv, Closing
  <2> QED BY <1>1, <1>2, <1>3, <1>4, <1>5, <2>1, <2>2, <2>4, WorkerSuffices
             DEF IInv, Values, Numbers
<1>11. CASE WorkerExit
  <2>1. /\ UNCHANGED <<accepted, closure, failedStage>>
        /\ \/ worker = "return" /\ worker' = "zero"
           \/ worker = "raise" /\ worker' = "error"
    BY <1>11 DEF WorkerExit, Work, files
  <2>2. Ordered' /\ Evidence'
    BY <1>2, <2>1 DEF IInv, Ordered, Evidence
  <2>3. Closing'
    BY <1>2, <2>1 DEF IInv, Closing
  <2> QED BY <1>1, <1>2, <1>3, <1>4, <1>5, <2>1, <2>2, <2>3, WorkerSuffices
             DEF IInv, Values, Numbers
<1> QED BY <1>6, <1>7, <1>8, <1>9, <1>10, <1>11 DEF Aside

LEMMA AdmitKeeps ==
  ASSUME IInv, Admit
  PROVE  IInv'
<1>1. UNCHANGED <<now, off, sup, code, capped, left, report, exitCode, request>>
  BY DEF Admit, WorkOnly, files
<1>2. /\ worker = "admit" /\ worker' \in {"run", "fail"} /\ stage' = stage + 1
      /\ UNCHANGED <<signal, accepted, closure, failedStage, capped, left, report>>
      /\ (proc' = proc /\ worker' = "fail") \/ proc' = [proc EXCEPT ![stage + 1] = "running"]
  BY <1>1 DEF Admit, Work, files
<1>3. /\ stage \in Nat /\ stage + 1 \in Stages /\ stage + 1 \in 0..NStages
      /\ stage + 1 \in 1..NStages
      /\ \A k \in Stages : /\ k < stage + 1 => k <= stage
                           /\ k <= stage => k # stage + 1 /\ k <= stage + 1
                           /\ k > stage + 1 => k > stage /\ k # stage + 1
  <2>1. NStages \in Nat
    BY JobAssumption
  <2>2. stage \in Nat /\ stage < NStages
    BY <1>2, <2>1 DEF IInv, Numbers, Ordered
  <2> QED BY <2>1, <2>2 DEF Stages
<1>4. stage + 1 > stage
  BY <1>3
<1>5. proc[stage + 1] = "none" /\ ~ Live(stage + 1) /\ signal[stage + 1] = "none"
  BY <1>3, <1>4 DEF IInv, Ordered, Pending, Live
<1>6. closure = "absent" /\ failedStage = 0 /\ WorkerLive /\ signal[0] = "none"
  BY <1>2 DEF IInv, Closing, Admit, Work, WorkerLive
<1>7. Wrapped'
  BY <1>2, <1>3, <1>5 DEF IInv, Wrapped
<1>8. Pending'
  <2>1. proc \in [Stages -> {"none", "running", "passing", "unwinding", "ok", "failed",
                             "killed"}]
    BY DEF IInv, Wrapped
  <2> QED BY <1>2, <1>3, <1>6, <2>1 DEF IInv, Pending, Live, WorkerLive
<1>9. \A k \in Stages : proc'[k] = IF k = stage + 1 THEN proc'[stage + 1] ELSE proc[k]
  BY <1>2, <1>3 DEF IInv, Wrapped
<1>10. Ordered'
  BY <1>2, <1>3, <1>9 DEF IInv, Ordered
<1>11. Evidence'
  <2>1. Gates \subseteq Stages /\ accepted \subseteq Gates
    BY JobAssumption DEF IInv, Values
  <2> QED BY <1>2, <1>3, <1>9, <2>1 DEF IInv, Evidence
<1>12. Closing'
  BY <1>2, <1>6 DEF IInv, Closing
<1> QED BY <1>1, <1>2, <1>3, <1>6, <1>7, <1>8, <1>10, <1>11, <1>12, WorkerSuffices
           DEF IInv, Values

LEMMA StageExpiresKeeps ==
  ASSUME IInv, StageExpires
  PROVE  IInv'
<1>1. /\ UNCHANGED <<now, off, sup, code, capped, left, report, exitCode, request>>
      /\ UNCHANGED <<stage, proc, accepted, closure, failedStage>>
  BY DEF StageExpires, WorkOnly, files
<1>2. worker = "run" /\ worker' = "kill" /\ Live(stage) /\ WorkerLive
      /\ signal' = [signal EXCEPT ![stage] = "kill"]
  BY DEF StageExpires, Work, WorkerLive
<1>3. stage \in Stages /\ stage # 0 /\ stage \in 0..NStages /\ 0 \in 0..NStages
      /\ \A k \in Stages : k \in 0..NStages
  <2>1. NStages \in Nat
    BY JobAssumption
  <2> QED BY <1>2, <2>1 DEF IInv, Ordered, Stages
<1>4. Wrapped'
  BY <1>1 DEF IInv, Wrapped
<1>5. Pending'
  BY <1>1, <1>2, <1>3 DEF IInv, Pending, Live, WorkerLive
<1>6. Ordered' /\ Evidence'
  BY <1>1, <1>2 DEF IInv, Ordered, Evidence
<1>7. Closing'
  BY <1>1, <1>2 DEF IInv, Closing
<1> QED BY <1>1, <1>2, <1>4, <1>5, <1>6, <1>7, WorkerSuffices DEF IInv, Values, Numbers

LEMMA WorkerDiesKeeps ==
  ASSUME IInv, WorkerDies
  PROVE  IInv'
<1>1. /\ UNCHANGED <<now, off, sup, code, capped, left, report, exitCode, request>>
      /\ UNCHANGED <<stage, proc, accepted, closure, failedStage>>
  BY DEF WorkerDies, WorkOnly, files
<1>2. WorkerLive /\ worker' = "error" /\ signal' = [signal EXCEPT ![0] = "none"]
  BY DEF WorkerDies
<1>3. 0 \in 0..NStages /\ \A k \in Stages : k # 0 /\ k \in 0..NStages
  BY JobAssumption DEF Stages
<1>4. Wrapped'
  BY <1>1 DEF IInv, Wrapped
<1>5. Pending'
  BY <1>1, <1>2, <1>3 DEF IInv, Pending, Live
<1>6. Ordered' /\ Evidence'
  BY <1>1, <1>2 DEF IInv, Ordered, Evidence
<1>7. Closing'
  BY <1>1, <1>2 DEF IInv, Closing, WorkerLive
<1> QED BY <1>1, <1>2, <1>4, <1>5, <1>6, <1>7, WorkerSuffices DEF IInv, Values, Numbers

-----------------------------------------------------------------------------
(* The system.                                                             *)

LEMMA KillKeeps ==
  ASSUME IInv, KillSupervisor \/ KillWorker
  PROVE  IInv'
<1>1. UNCHANGED <<worker, stage, proc, capped, left, report, accepted, closure, failedStage>>
      /\ UNCHANGED <<now, code, exitCode>>
  BY DEF KillSupervisor, KillWorker, SupOnly, WorkOnly, group, files
<1>2. /\ sup' = sup \/ sup' = "crashed"
      /\ signal' = signal \/ (WorkerLive /\ signal' = [signal EXCEPT ![0] = "kill"])
  BY DEF KillSupervisor, KillWorker, SupOnly, group
<1>3. off' = off /\ request' = request /\ (off => sup' = sup)
  BY DEF KillSupervisor, KillWorker, SupOnly, WorkOnly, files, IInv, Flags, SupervisorEnded
<1>4. Values'
  BY <1>1, <1>2 DEF IInv, Values
<1>5. Flags'
  BY <1>3 DEF IInv, Flags
<1>6. Pending'
  <2>1. 0 \in 0..NStages /\ \A k \in Stages : k # 0 /\ k \in 0..NStages
    BY JobAssumption DEF Stages
  <2> QED BY <1>1, <1>2, <2>1 DEF IInv, Pending, Live, WorkerLive
<1>7. Supervised'
  BY <1>1, <1>2 DEF IInv, Supervised
<1> QED BY <1>1, <1>4, <1>5, <1>6, <1>7, SupSuffices

LEMMA TickKeeps ==
  ASSUME IInv, Tick
  PROVE  IInv'
<1>1. /\ UNCHANGED <<sup, code, worker, stage, proc, capped, left, signal, report, accepted,
                     closure, failedStage, exitCode>>
      /\ now < Deadline /\ now' = now + 1
  BY DEF Tick, group, files
<1>2. Values'
  BY <1>1 DEF IInv, Values
<1>8. Wrapped' /\ Ordered' /\ Evidence' /\ Closing'
  BY <1>1 DEF IInv, Wrapped, Ordered, Evidence, Closing
<1>3. Pending'
  BY <1>1 DEF IInv, Pending, Live, WorkerLive
<1>4. Flags'
  BY DEF Tick, files, IInv, Flags
<1>5. Deadline \in Nat /\ now \in Nat /\ now # Deadline /\ NStages \in Nat
  BY <1>1, JobAssumption DEF IInv, Numbers
<1>6. Numbers'
  BY <1>1, <1>5 DEF IInv, Numbers
<1>7. Supervised'
  BY <1>1, <1>5 DEF IInv, Supervised
<1> QED BY <1>2, <1>3, <1>4, <1>6, <1>7, <1>8 DEF IInv

LEMMA IInvInit == Init => IInv
<1> SUFFICES ASSUME Init PROVE IInv
  OBVIOUS
<1>1. NStages \in Nat \ {0} /\ Deadline \in Nat \ {0}
      /\ \A k \in Stages : ~ (k < 0) /\ ~ (k <= 0) /\ k \in 0..NStages
  BY JobAssumption DEF Stages
<1>2. Values /\ Numbers
  BY <1>1 DEF Init, Values, Numbers
<1>3. Flags
  BY DEF Init, Flags
<1>4. Wrapped /\ Pending
  BY <1>1 DEF Init, Wrapped, Pending, Live
<1>5. Gates \subseteq Stages
  BY JobAssumption
<1>6. Ordered /\ Evidence /\ Closing
  BY <1>1, <1>5 DEF Init, Ordered, Evidence, Closing
<1>7. Supervised
  BY DEF Init, Supervised
<1> QED BY <1>2, <1>3, <1>4, <1>6, <1>7 DEF IInv

LEMMA IInvStep == IInv /\ [Next]_vars => IInv'
<1> SUFFICES ASSUME IInv, [Next]_vars PROVE IInv'
  OBVIOUS
<1>1. CASE Supervise
  BY <1>1, SuperviseKeeps
<1>2. CASE RunWorker
  BY <1>2, AsideKeeps, AdmitKeeps, StageExpiresKeeps DEF RunWorker, Aside
<1>3. CASE \E k \in Stages : Stage(k)
  BY <1>3, StageKeeps
<1>4. CASE WorkerDies
  BY <1>4, WorkerDiesKeeps
<1>5. CASE KillSupervisor \/ KillWorker
  BY <1>5, KillKeeps
<1>6. CASE Tick
  BY <1>6, TickKeeps
<1>7. CASE UNCHANGED vars
  <2>1. UNCHANGED <<sup, code, worker, stage, proc, capped, left, signal, report, accepted,
                    closure, failedStage, exitCode, now>>
    BY <1>7 DEF vars, group, files
  <2>2. Values'
    BY <2>1 DEF IInv, Values
  <2>3. Flags'
    BY <1>7 DEF vars, files, IInv, Flags
  <2>4. Pending'
    BY <2>1 DEF IInv, Pending, Live, WorkerLive
  <2>5. Supervised'
    BY <2>1 DEF IInv, Supervised
  <2> QED BY <2>1, <2>2, <2>3, <2>4, <2>5, SupSuffices DEF IInv
<1> QED BY <1>1, <1>2, <1>3, <1>4, <1>5, <1>6, <1>7 DEF Next

LEMMA IInvTypes == IInv => TypeOK
<1> SUFFICES ASSUME IInv PROVE TypeOK
  OBVIOUS
<1>1. Values /\ Numbers /\ Flags /\ Wrapped /\ Pending /\ Ordered
  BY DEF IInv
<1>2. \A k \in Stages :
        /\ Live(k) \/ Over(k) \/ (proc[k] = "none" /\ k >= stage)
        /\ proc[k] \in {"passing", "unwinding"} \/ report[k] # "absent" => k \in Heavy
        /\ signal[k] # "none" => Live(k)
        /\ report[k] \in {"absent", "torn", "passed", "failed"}
  <2> SUFFICES ASSUME NEW k \in Stages
               PROVE  /\ Live(k) \/ Over(k) \/ (proc[k] = "none" /\ k >= stage)
                      /\ proc[k] \in {"passing", "unwinding"} \/ report[k] # "absent" => k \in Heavy
                      /\ signal[k] # "none" => Live(k)
                      /\ report[k] \in {"absent", "torn", "passed", "failed"}
    OBVIOUS
  <2>1. proc[k] \in {"none", "running", "passing", "unwinding", "ok", "failed", "killed"}
        /\ report[k] \in {"absent", "torn", "passed", "failed"}
    BY <1>1 DEF Wrapped
  <2>2. k >= stage \/ k < stage
    <3>1. NStages \in Nat
      BY JobAssumption
    <3> QED BY <1>1, <3>1 DEF Numbers, Stages
  <2>3. Live(k) \/ Over(k) \/ (proc[k] = "none" /\ k >= stage)
    BY <1>1, <2>1, <2>2 DEF Live, Over, Ordered
  <2> QED BY <1>1, <2>1, <2>3 DEF Wrapped, Pending
<1>3. off \in BOOLEAN /\ request \in BOOLEAN
  BY <1>1 DEF Flags
<1> QED BY <1>1, <1>2, <1>3 DEF TypeOK, Values, Numbers, Wrapped, Pending

LEMMA IInvAgrees == IInv => FilesAgree
<1> SUFFICES ASSUME IInv PROVE FilesAgree
  OBVIOUS
<1> USE DEF IInv
<1>1. NStages \in Nat /\ stage \in 0..NStages /\ Gates \subseteq Stages
      /\ accepted \subseteq Gates
  BY JobAssumption DEF Values, Numbers
<1>2. \A k \in accepted : \A j \in 1..k : proc[j] = "ok" /\ (j \in Heavy => report[j] = "passed")
  <2> SUFFICES ASSUME NEW k \in accepted, NEW j \in 1..k
               PROVE  proc[j] = "ok" /\ (j \in Heavy => report[j] = "passed")
    OBVIOUS
  <2>1. k \in Stages /\ k <= stage /\ proc[k] = "ok"
    BY <1>1 DEF Evidence
  <2>2. j \in Stages /\ (j = k \/ j < stage)
    BY <1>1, <2>1 DEF Stages
  <2>3. proc[j] = "ok"
    BY <2>1, <2>2 DEF Ordered
  <2> QED BY <2>2, <2>3 DEF Wrapped
<1>3. closure = "completed" => accepted = Gates /\ \A k \in Stages : proc[k] = "ok"
  BY <1>1 DEF Closing
<1>4. closure = "stopped" => /\ \A k \in 1..(failedStage - 1) : proc[k] = "ok"
                             /\ \A k \in Stages : k > failedStage => proc[k] = "none"
  <2> SUFFICES ASSUME closure = "stopped"
               PROVE  /\ \A k \in 1..(failedStage - 1) : proc[k] = "ok"
                      /\ \A k \in Stages : k > failedStage => proc[k] = "none"
    OBVIOUS
  <2>1. failedStage = stage
    BY DEF Closing
  <2>2. \A k \in 1..(stage - 1) : k \in Stages /\ k < stage
    BY <1>1 DEF Stages
  <2> QED BY <2>1, <2>2 DEF Ordered
<1>5. exitCode = "zero" => closure = "completed"
  BY DEF Values, Supervised, Closing
<1>6. off /\ now < Deadline => closure = "completed"
  <2>1. off => code = "zero" \/ now = Deadline
    BY DEF Flags, Supervised
  <2>2. now < Deadline => now # Deadline
    BY JobAssumption DEF Numbers
  <2>3. code = "zero" => closure = "completed"
    BY DEF Supervised, Closing
  <2> QED BY <2>1, <2>2, <2>3
<1> QED BY <1>2, <1>3, <1>4, <1>5, <1>6 DEF FilesAgree

-----------------------------------------------------------------------------
(* The job implements the campaign.                                        *)

LEMMA Stutters ==
  ASSUME UNCHANGED <<proc, closure>>, off' = off
  PROVE  UNCHANGED Campaign!campaign
BY DEF Campaign!campaign, Live

\* A stage that ends is complete or lost.
LEMMA EndsMap ==
  ASSUME IInv, NEW k \in Stages, Live(k), NEW how \in {"ok", "failed", "killed"},
         proc' = [proc EXCEPT ![k] = how], closure' = closure, off = FALSE, off' = FALSE
  PROVE  Campaign!Next
<1>1. proc'[k] = how /\ \A j \in Stages \ {k} : proc'[j] = proc[j]
  BY DEF IInv, Wrapped
<1>2. CASE how = "ok"
  <2>1. Campaign!Complete(k)
    BY <1>1, <1>2 DEF Campaign!Complete, Live
  <2> QED BY <2>1 DEF Campaign!Next, Stages
<1>3. CASE how # "ok"
  <2>1. Campaign!Lose(k)
    BY <1>1, <1>3 DEF Campaign!Lose, Live
  <2> QED BY <2>1 DEF Campaign!Next, Stages
<1> QED BY <1>2, <1>3

LEMMA AdmitMaps ==
  ASSUME IInv, Admit, off = FALSE
  PROVE  Campaign!Next \/ UNCHANGED Campaign!campaign
<1>1. /\ worker = "admit" /\ closure' = closure /\ off' = off
      /\ proc' = proc \/ proc' = [proc EXCEPT ![stage + 1] = "running"]
  BY DEF Admit, Work, WorkOnly, files
<1>2. CASE proc' = proc
  BY <1>1, <1>2, Stutters
<1>3. CASE proc' = [proc EXCEPT ![stage + 1] = "running"]
  <2>1. stage \in Nat /\ stage < NStages /\ NStages \in Nat
    <3>1. NStages \in Nat
      BY JobAssumption
    <3> QED BY <1>1, <3>1 DEF IInv, Numbers, Ordered
  <2>2. PICK k \in Stages : k = stage + 1
    BY <2>1 DEF Stages
  <2>3. \A j \in Stages : (j < k => proc[j] = "ok") /\ (j >= k => proc[j] = "none")
    <3>1. \A j \in Stages : (j < k => j <= stage) /\ (j >= k => j > stage)
      BY <2>1, <2>2 DEF Stages
    <3> QED BY <1>1, <3>1 DEF IInv, Ordered
  <2>4. \A j \in Stages : j < k \/ j >= k
    BY <2>1, <2>2 DEF Stages
  <2>5. {j \in Stages : proc[j] = "ok"} = 1..(k - 1)
    <3>1. \A j \in 1..(k - 1) : j \in Stages /\ j < k
      BY <2>1, <2>2 DEF Stages
    <3>2. \A j \in Stages : j < k => j \in 1..(k - 1)
      BY <2>1, <2>2 DEF Stages
    <3> QED BY <2>3, <2>4, <3>1, <3>2
  <2>6. proc'[k] = "running" /\ \A j \in Stages \ {k} : proc'[j] = proc[j]
    BY <1>3, <2>2 DEF IInv, Wrapped
  <2>7. \A j \in Stages : proc[j] \in {"none", "ok"}
    BY <2>3, <2>4
  <2>8. closure = "absent"
    BY <1>1 DEF IInv, Closing
  <2>9. Campaign!Begin(k)
    BY <1>1, <2>5, <2>6, <2>7, <2>8 DEF Campaign!Begin, Live
  <2> QED BY <1>1, <2>9 DEF Campaign!Next, Stages
<1> QED BY <1>1, <1>2, <1>3

\* Every step is one of the campaign or leaves it as it is.
LEMMA StepsMap == IInv /\ [Next]_vars => [Campaign!Next]_(Campaign!campaign)
<1> SUFFICES ASSUME IInv, [Next]_vars
             PROVE  Campaign!Next \/ UNCHANGED Campaign!campaign
  OBVIOUS
<1>1. CASE UNCHANGED vars
  BY <1>1, Stutters DEF vars, group, files
<1>2. ~ UNCHANGED vars => off = FALSE
  BY DEF Next, IInv, Flags
<1>3. ASSUME Exec, off = FALSE PROVE Campaign!Next \/ UNCHANGED Campaign!campaign
  <2>1. UNCHANGED <<proc, closure>> /\ (off' = off \/ off' = TRUE)
    BY <1>3 DEF Exec, group, files
  <2>2. CASE off' = off
    BY <2>1, <2>2, Stutters
  <2>3. CASE off' = TRUE
    <3>1. Campaign!PowerOff
      BY <2>1, <2>3 DEF Campaign!PowerOff, Live
    <3> QED BY <1>3, <3>1 DEF Campaign!Next
  <2> QED BY <2>1, <2>2, <2>3
<1>4. ASSUME Supervise, ~ Exec PROVE UNCHANGED Campaign!campaign
  BY <1>4, Stutters
     DEF Supervise, Popen, Record, Collect, Expire, Terminate, Reap, ReapExpires, Sweep,
         SaveExit, Poll, Hold, Guard, Request, SupOnly, group, files
<1>5. ASSUME FillClosure, off = FALSE PROVE Campaign!Next
  <2>1. UNCHANGED proc /\ off' = FALSE
    BY <1>5 DEF FillClosure, WorkOnly
  <2>2. closure = "torn"
    BY <1>5 DEF FillClosure, Work, IInv, Closing
  <2>3. CASE closure' = "completed"
    <3>1. worker = "completing"
      BY <1>5, <2>3 DEF FillClosure, Work
    <3>2. \A k \in Stages : proc[k] = "ok"
      <4>1. \A k \in Stages : k <= NStages
        BY JobAssumption DEF Stages
      <4> QED BY <3>1, <4>1 DEF IInv, Ordered
    <3>3. {k \in Stages : proc[k] = "ok"} = 1..NStages
      BY <3>2 DEF Stages
    <3>4. Campaign!Pass
      BY <2>1, <2>2, <2>3, <3>3 DEF Campaign!Pass, Live
    <3> QED BY <1>5, <2>1, <3>4 DEF Campaign!Next
  <2>4. CASE closure' = "stopped"
    <3>1. Campaign!Fail
      BY <2>1, <2>2, <2>4 DEF Campaign!Fail, Live
    <3> QED BY <1>5, <2>1, <3>1 DEF Campaign!Next
  <2> QED BY <1>5, <2>3, <2>4 DEF FillClosure
<1>6. ASSUME OpenClosure PROVE UNCHANGED Campaign!campaign
  <2>1. UNCHANGED <<proc, off>> /\ closure = "absent" /\ closure' = "torn"
    BY <1>6 DEF OpenClosure, Work, WorkOnly, IInv, Closing
  <2> QED BY <2>1 DEF Campaign!campaign, Live
<1>7. ASSUME (RunWorker /\ ~ Admit /\ ~ FillClosure /\ ~ OpenClosure) \/ WorkerDies
             \/ KillSupervisor \/ KillWorker \/ Tick
      PROVE  UNCHANGED Campaign!campaign
  BY <1>7, Stutters
     DEF RunWorker, Start, StageOver, StageExpires, StageReaped, Check, WorkerExit, WorkerDies,
         KillSupervisor, KillWorker, Tick, SupOnly, WorkOnly, group, files
<1>8. ASSUME NEW k \in Stages, Stage(k), off = FALSE
      PROVE  Campaign!Next \/ UNCHANGED Campaign!campaign
  <2>1. closure' = closure /\ off' = off
    BY <1>8 DEF Stage, LightEnds, ScriptEnds, OpenReport, FillReport, WrapperEnds, MemoryCap,
                HandleTerm, Dies, DescendantEnds, StageOnly
  <2>2. \/ proc' = proc
        \/ Live(k) /\ \E how \in {"ok", "failed", "killed"} : proc' = [proc EXCEPT ![k] = how]
        \/ Live(k) /\ \E how \in {"passing", "unwinding"} : proc' = [proc EXCEPT ![k] = how]
    BY <1>8 DEF Stage, LightEnds, ScriptEnds, OpenReport, FillReport, WrapperEnds, MemoryCap,
                HandleTerm, Dies, DescendantEnds, Ends, Runs, InFinally, Live
  <2>3. CASE proc' = proc
    BY <2>1, <2>3, Stutters
  <2>4. CASE Live(k) /\ \E how \in {"ok", "failed", "killed"} : proc' = [proc EXCEPT ![k] = how]
    BY <1>8, <2>1, <2>4, EndsMap
  <2>5. CASE Live(k) /\ \E how \in {"passing", "unwinding"} : proc' = [proc EXCEPT ![k] = how]
    <3>1. /\ proc[k] \in {"running", "passing", "unwinding"}
          /\ proc'[k] \in {"passing", "unwinding"} /\ \A j \in Stages \ {k} : proc'[j] = proc[j]
      BY <2>5 DEF Live, IInv, Wrapped
    <3> QED BY <2>1, <3>1 DEF Campaign!campaign, Live
  <2> QED BY <2>2, <2>3, <2>4, <2>5
<1> QED BY <1>1, <1>2, <1>3, <1>4, <1>5, <1>6, <1>7, <1>8, AdmitMaps DEF Next, RunWorker

-----------------------------------------------------------------------------
\* The argument above holds in every state that the job reaches.
THEOREM Inductive == Spec => []IInv
BY IInvInit, IInvStep, PTL DEF Spec

\* Every value is of its type, nothing is pending for a process that is not
\* there, and a report belongs to a wrapped stage.
THEOREM TypeCorrect == Spec => []TypeOK
BY Inductive, IInvTypes, PTL

\* Accepted evidence, the reports, either closure, the exit code and the power
\* tell one story, whichever timeout of the two processes comes first, and
\* whatever is killed.
THEOREM FilesTellOneStory == Spec => []FilesAgree
BY Inductive, IInvAgrees, PTL

\* The job keeps the promises of IrisCampaign: stages one at a time and in
\* order, none after a loss or the verdict, one verdict, and nothing after
\* power-off.
THEOREM RefinesCampaign == Spec => ImplementsCampaign
<1>1. Init => Campaign!Init
  BY DEF Init, Campaign!Init, Live
<1> QED BY <1>1, Inductive, StepsMap, PTL DEF Spec, ImplementsCampaign, Campaign!Spec
=============================================================================
