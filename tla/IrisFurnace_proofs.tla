------------------------- MODULE IrisFurnace_proofs -------------------------
(***************************************************************************)
(* Proofs about IrisFurnace, for every number of stages, every choice of   *)
(* GPU stages, every pair of deadlines and either process killed.          *)
(***************************************************************************)
EXTENDS IrisFurnace, TLAPS

-----------------------------------------------------------------------------
(* The inductive invariant.  The properties say little of where supervise()*)
(* is; these conjuncts say what it has done by each of its statements.     *)

InLoop == {"popen", "assign", "identify", "publish", "poll", "save", "append"}

\* Where the supervisor is and what its variables name there.
Located ==
  /\ pc["sup"] \in Before \cup {"admit"} => stage = 0
  /\ pc["sup"] = "next" => stage >= 1
  /\ pc["sup"] \in InLoop => stage \in Stages
  /\ pc["sup"] \in {"identify", "publish", "poll", "save"} => child = stage
  /\ pc["sup"] \in {"publish", "poll"} => identity = stage
  /\ pc["sup"] \in {"next", "popen"} =>
       \A k \in Stages : k >= stage => proc[k] = "none"
  /\ pc["sup"] = "save" => proc[stage] = "ok"
  /\ pc["sup"] = "append" => stage \in done
  /\ pc["sup"] = "except" => failed
  /\ pc["sup"] \in {"exited", "report"} /\ ~failed => stage = NStages + 1

\* Stages before the current one are complete, those after it untouched.
Progressed ==
  /\ completed = {k \in Stages : k < stage}
  /\ completed \subseteq done
  /\ \A k \in done : proc[k] = "ok"
  /\ \A k \in Stages : k > stage => proc[k] = "none"
  /\ \A k \in Stages : output[k] = "final" <=> proc[k] = "ok"

\* worker-exited.json belongs to the finally block, which first creates it
\* and then fills it.
Reported ==
  /\ workerExited.present =>
       pc["sup"] \in (Finally \ {"exited"}) \cup Halted
  /\ workerExited.whole =>
       /\ pc["sup"] \in (Finally \ {"exited", "report"}) \cup Halted
       /\ workerExited.completed \subseteq done
       /\ ~workerExited.error => stage = NStages + 1

\* Before the watchdog interferes a live stage is the one supervise() names.
Unstopped ==
  /\ sigterm => stopped
  /\ stopped \/ pc["wd"] \in {"terminate", "signal"} => now >= Deadline
  /\ ~stopped /\ pc["sup"] = "except" =>
       \A k \in Stages : proc[k] \in Live => child = k /\ identity = k
  /\ ~stopped /\ (pc["sup"] \in {"exited", "report"} \/ workerExited.present) =>
       \A k \in Stages : proc[k] \notin Live

\* The package is sealed before the receiver sees it.
Sealed ==
  /\ packageJson => pc["sup"] \in {"await"} \cup PowerOff \cup Halted
  /\ receiver \in {"fetched", "verified", "delivered"} => packageJson
  /\ receiver \in {"verified", "delivered"} => archive = manifest
  /\ receipt # {} => receiver = "delivered" /\ receipt = manifest

IInv == TypeOK /\ Located /\ Progressed /\ Reported /\ Unstopped /\ Sealed
        /\ OneShutdown

\* The report that SaveExited writes has the type of its file.
LEMMA ReportTyped ==
  ASSUME TypeOK
  PROVE  [present |-> TRUE, whole |-> TRUE, completed |-> completed, error |-> failed]
           \in [present : BOOLEAN, whole : BOOLEAN, completed : SUBSET Stages,
                error : BOOLEAN]
BY DEF TypeOK

\* A registered stage joins the stages with evidence.
LEMMA DoneTyped ==
  ASSUME TypeOK, stage \in Stages PROVE done \cup {stage} \subseteq Stages
BY DEF TypeOK

\* Every step of every process keeps the invariant.
LEMMA IInvStep == IInv /\ [Next]_vars => IInv'
<1> SUFFICES ASSUME IInv, [Next]_vars PROVE IInv'
  OBVIOUS
<1> USE IrisAssumption
    DEF Stages, Actors, FileStates, PcValues, Live, Ended, Before, Try,
        PowerOff, Finally, Watching, Halted, InLoop, At, Goto, Raise, locals,
        world, files, IInv, TypeOK, Located, Progressed, Reported, Unstopped,
        Sealed, OneShutdown
<1>1. ASSUME LaunchWatchdog PROVE IInv'
  <2>1. TypeOK'
    BY <1>1 DEF LaunchWatchdog
  <2>2. Located' /\ Progressed' /\ Reported'
    BY <1>1 DEF LaunchWatchdog
  <2>3. Unstopped'
    BY <1>1 DEF LaunchWatchdog
  <2>4. Sealed' /\ OneShutdown'
    BY <1>1 DEF LaunchWatchdog
  <2> QED BY <2>1, <2>2, <2>3, <2>4
<1>2. ASSUME RecordWatchdog PROVE IInv'
  <2>1. TypeOK'
    BY <1>2 DEF RecordWatchdog
  <2>2. Located' /\ Progressed' /\ Reported'
    BY <1>2 DEF RecordWatchdog
  <2>3. Unstopped'
    BY <1>2 DEF RecordWatchdog
  <2>4. Sealed' /\ OneShutdown'
    BY <1>2 DEF RecordWatchdog
  <2> QED BY <2>1, <2>2, <2>3, <2>4
<1>3. ASSUME Admit PROVE IInv'
  <2>1. TypeOK'
    <3>1. pc' \in [Actors -> PcValues]
      BY <1>3 DEF Admit
    <3>2. failed' \in BOOLEAN
      BY <1>3 DEF Admit
    <3>3. stage' \in 0..(NStages + 1)
      <4>1. NStages + 1 >= 1
        OBVIOUS
      <4> QED BY <1>3, <4>1 DEF Admit
    <3> QED BY <1>3, <3>1, <3>2, <3>3 DEF Admit
  <2>2. Located' /\ Progressed' /\ Reported'
    BY <1>3 DEF Admit
  <2>3. Unstopped'
    BY <1>3 DEF Admit
  <2>4. Sealed' /\ OneShutdown'
    BY <1>3 DEF Admit
  <2> QED BY <2>1, <2>2, <2>3, <2>4
<1>4. ASSUME NextStage PROVE IInv'
  <2>1. TypeOK'
    <3>1. pc' \in [Actors -> PcValues]
      BY <1>4 DEF NextStage, MoreStages
    <3>2. failed' \in BOOLEAN
      BY <1>4 DEF NextStage, MoreStages
    <3> QED BY <1>4, <3>1, <3>2 DEF NextStage, MoreStages
  <2>2. Located' /\ Progressed' /\ Reported'
    BY <1>4 DEF NextStage, MoreStages
  <2>3. Unstopped'
    BY <1>4, SMTT(60) DEF NextStage, MoreStages
  <2>4. Sealed' /\ OneShutdown'
    BY <1>4 DEF NextStage, MoreStages
  <2> QED BY <2>1, <2>2, <2>3, <2>4
<1>5. ASSUME Popen PROVE IInv'
  <2>1. TypeOK'
    <3>1. pc' \in [Actors -> PcValues]
      BY <1>5 DEF Popen
    <3>2. failed' \in BOOLEAN
      BY <1>5 DEF Popen
    <3> QED BY <1>5, <3>1, <3>2 DEF Popen
  <2>2. Located' /\ Progressed' /\ Reported'
    BY <1>5 DEF Popen
  <2>3. Unstopped'
    BY <1>5, SMTT(60) DEF Popen
  <2>4. Sealed' /\ OneShutdown'
    BY <1>5 DEF Popen
  <2> QED BY <2>1, <2>2, <2>3, <2>4
<1>6. ASSUME AssignChild PROVE IInv'
  <2>1. TypeOK'
    BY <1>6 DEF AssignChild
  <2>2. Located' /\ Progressed' /\ Reported'
    BY <1>6 DEF AssignChild
  <2>3. Unstopped'
    BY <1>6 DEF AssignChild
  <2>4. Sealed' /\ OneShutdown'
    BY <1>6 DEF AssignChild
  <2> QED BY <2>1, <2>2, <2>3, <2>4
<1>7. ASSUME IdentifyChild PROVE IInv'
  <2>1. TypeOK'
    BY <1>7 DEF IdentifyChild
  <2>2. Located' /\ Progressed' /\ Reported'
    BY <1>7 DEF IdentifyChild
  <2>3. Unstopped'
    BY <1>7 DEF IdentifyChild
  <2>4. Sealed' /\ OneShutdown'
    BY <1>7 DEF IdentifyChild
  <2> QED BY <2>1, <2>2, <2>3, <2>4
<1>8. ASSUME PublishChild PROVE IInv'
  <2>1. TypeOK'
    <3>1. pc' \in [Actors -> PcValues]
      BY <1>8 DEF PublishChild
    <3>2. failed' \in BOOLEAN /\ activeChild' \in 0..NStages
      BY <1>8 DEF PublishChild
    <3> QED BY <1>8, <3>1, <3>2 DEF PublishChild
  <2>2. Located' /\ Progressed' /\ Reported'
    BY <1>8 DEF PublishChild
  <2>3. Unstopped'
    BY <1>8 DEF PublishChild
  <2>4. Sealed' /\ OneShutdown'
    BY <1>8 DEF PublishChild
  <2> QED BY <2>1, <2>2, <2>3, <2>4
<1>9. ASSUME Poll PROVE IInv'
  <2>1. TypeOK'
    <3>1. pc' \in [Actors -> PcValues]
      BY <1>9 DEF Poll, ExitedZero
    <3>2. failed' \in BOOLEAN
      BY <1>9 DEF Poll, ExitedZero
    <3> QED BY <1>9, <3>1, <3>2 DEF Poll, ExitedZero
  <2>2. Located' /\ Progressed' /\ Reported'
    BY <1>9 DEF Poll, ExitedZero
  <2>3. Unstopped'
    BY <1>9, SMTT(60) DEF Poll, ExitedZero
  <2>4. Sealed' /\ OneShutdown'
    BY <1>9 DEF Poll, ExitedZero
  <2> QED BY <2>1, <2>2, <2>3, <2>4
<1>10. ASSUME SaveDone PROVE IInv'
  <2>1. TypeOK'
    <3>1. pc' \in [Actors -> PcValues]
      BY <1>10 DEF SaveDone
    <3>2. failed' \in BOOLEAN
      BY <1>10 DEF SaveDone
    <3>3. done' \subseteq Stages
      <4>1. stage \in Stages
        BY <1>10 DEF SaveDone
      <4>2. done \cup {stage} \subseteq Stages
        BY <4>1, DoneTyped
      <4> QED BY <1>10, <4>2 DEF SaveDone
    <3> QED BY <1>10, <3>1, <3>2, <3>3 DEF SaveDone
  <2>2. Located' /\ Progressed' /\ Reported'
    <3>1. Located'
      BY <1>10 DEF SaveDone
    <3>2. Progressed'
      BY <1>10 DEF SaveDone
    <3>3. Reported'
      BY <1>10 DEF SaveDone
    <3> QED BY <3>1, <3>2, <3>3
  <2>3. Unstopped'
    BY <1>10, SMTT(60) DEF SaveDone
  <2>4. Sealed' /\ OneShutdown'
    BY <1>10 DEF SaveDone
  <2> QED BY <2>1, <2>2, <2>3, <2>4
<1>11. ASSUME AppendCompleted PROVE IInv'
  <2>1. TypeOK'
    BY <1>11 DEF AppendCompleted
  <2>2. Located' /\ Progressed' /\ Reported'
    BY <1>11 DEF AppendCompleted
  <2>3. Unstopped'
    BY <1>11 DEF AppendCompleted
  <2>4. Sealed' /\ OneShutdown'
    BY <1>11 DEF AppendCompleted
  <2> QED BY <2>1, <2>2, <2>3, <2>4
<1>12. ASSUME StopChild PROVE IInv'
  <2>1. TypeOK'
    BY <1>12 DEF StopChild, MustStop, Terminate
  <2>2. Located' /\ Progressed' /\ Reported'
    BY <1>12 DEF StopChild, MustStop, Terminate
  <2>3. Unstopped'
    BY <1>12 DEF StopChild, MustStop, Terminate
  <2>4. Sealed' /\ OneShutdown'
    BY <1>12 DEF StopChild, MustStop, Terminate
  <2> QED BY <2>1, <2>2, <2>3, <2>4
<1>13. ASSUME OpenExited PROVE IInv'
  <2>1. TypeOK'
    <3>1. pc' \in [Actors -> PcValues]
      BY <1>13 DEF OpenExited
    <3>2. workerExited' \in [present : BOOLEAN, whole : BOOLEAN,
                             completed : SUBSET Stages, error : BOOLEAN]
      BY <1>13 DEF OpenExited
    <3> QED BY <1>13, <3>1, <3>2 DEF OpenExited
  <2>2. Located' /\ Progressed' /\ Reported'
    <3>1. Located'
      BY <1>13 DEF OpenExited
    <3>2. Progressed'
      BY <1>13 DEF OpenExited
    <3>3. Reported'
      BY <1>13 DEF OpenExited
    <3> QED BY <3>1, <3>2, <3>3
  <2>3. Unstopped'
    BY <1>13 DEF OpenExited
  <2>4. Sealed' /\ OneShutdown'
    BY <1>13 DEF OpenExited
  <2> QED BY <2>1, <2>2, <2>3, <2>4
<1>14. ASSUME SaveExited PROVE IInv'
  <2>1. TypeOK'
    <3>1. pc' \in [Actors -> PcValues]
      BY <1>14 DEF SaveExited
    <3>2. workerExited' \in [present : BOOLEAN, whole : BOOLEAN,
                             completed : SUBSET Stages, error : BOOLEAN]
      BY <1>14, ReportTyped DEF SaveExited
    <3> QED BY <1>14, <3>1, <3>2 DEF SaveExited
  <2>2. Located' /\ Progressed' /\ Reported'
    <3>1. Located'
      BY <1>14 DEF SaveExited
    <3>2. Progressed'
      BY <1>14 DEF SaveExited
    <3>3. Reported'
      BY <1>14 DEF SaveExited
    <3> QED BY <3>1, <3>2, <3>3
  <2>3. Unstopped'
    BY <1>14, SMTT(60) DEF SaveExited
  <2>4. Sealed' /\ OneShutdown'
    BY <1>14 DEF SaveExited
  <2> QED BY <2>1, <2>2, <2>3, <2>4
<1>15. ASSUME HashFiles PROVE IInv'
  <2>1. TypeOK'
    BY <1>15 DEF HashFiles
  <2>2. Located' /\ Progressed' /\ Reported'
    BY <1>15 DEF HashFiles
  <2>3. Unstopped'
    BY <1>15 DEF HashFiles
  <2>4. Sealed' /\ OneShutdown'
    BY <1>15 DEF HashFiles
  <2> QED BY <2>1, <2>2, <2>3, <2>4
<1>16. ASSUME WriteArchive PROVE IInv'
  <2>1. TypeOK'
    BY <1>16 DEF WriteArchive
  <2>2. Located' /\ Progressed' /\ Reported'
    BY <1>16 DEF WriteArchive
  <2>3. Unstopped'
    BY <1>16 DEF WriteArchive
  <2>4. Sealed' /\ OneShutdown'
    BY <1>16 DEF WriteArchive
  <2> QED BY <2>1, <2>2, <2>3, <2>4
<1>17. ASSUME SavePackage PROVE IInv'
  <2>1. TypeOK'
    <3>1. pc' \in [Actors -> PcValues]
      BY <1>17 DEF SavePackage
    <3>2. packageJson' \in BOOLEAN
      BY <1>17 DEF SavePackage
    <3>3. stop' \in 0..ShutdownDeadline
      BY <1>17 DEF SavePackage
    <3> QED BY <1>17, <3>1, <3>2, <3>3 DEF SavePackage
  <2>2. Located' /\ Progressed' /\ Reported'
    BY <1>17 DEF SavePackage
  <2>3. Unstopped'
    BY <1>17 DEF SavePackage
  <2>4. Sealed' /\ OneShutdown'
    BY <1>17 DEF SavePackage
  <2> QED BY <2>1, <2>2, <2>3, <2>4
<1>18. ASSUME AwaitReceipt PROVE IInv'
  <2>1. TypeOK'
    BY <1>18 DEF AwaitReceipt, WaitIsOver
  <2>2. Located' /\ Progressed' /\ Reported'
    BY <1>18 DEF AwaitReceipt, WaitIsOver
  <2>3. Unstopped'
    BY <1>18 DEF AwaitReceipt, WaitIsOver
  <2>4. Sealed' /\ OneShutdown'
    BY <1>18 DEF AwaitReceipt, WaitIsOver
  <2> QED BY <2>1, <2>2, <2>3, <2>4
<1>19. ASSUME TakeSignal PROVE IInv'
  <2>1. TypeOK'
    <3>1. pc' \in [Actors -> PcValues]
      BY <1>19 DEF TakeSignal, Active
    <3>2. failed' \in BOOLEAN
      BY <1>19 DEF TakeSignal, Active
    <3> QED BY <1>19, <3>1, <3>2 DEF TakeSignal, Active
  <2>2. Located' /\ Progressed' /\ Reported'
    BY <1>19 DEF TakeSignal, Active
  <2>3. Unstopped'
    BY <1>19 DEF TakeSignal, Active
  <2>4. Sealed' /\ OneShutdown'
    BY <1>19 DEF TakeSignal, Active
  <2> QED BY <2>1, <2>2, <2>3, <2>4
<1>20. ASSUME MemoryExceeded PROVE IInv'
  <2>1. TypeOK'
    BY <1>20 DEF MemoryExceeded
  <2>2. Located' /\ Progressed' /\ Reported'
    BY <1>20 DEF MemoryExceeded
  <2>3. Unstopped'
    BY <1>20, SMTT(60) DEF MemoryExceeded
  <2>4. Sealed' /\ OneShutdown'
    BY <1>20 DEF MemoryExceeded
  <2> QED BY <2>1, <2>2, <2>3, <2>4
<1>21. ASSUME WatchTurn PROVE IInv'
  <2>1. TypeOK'
    BY <1>21 DEF WatchTurn, WatchSettled
  <2>2. Located' /\ Progressed' /\ Reported'
    BY <1>21 DEF WatchTurn, WatchSettled
  <2>3. Unstopped'
    BY <1>21 DEF WatchTurn, WatchSettled
  <2>4. Sealed' /\ OneShutdown'
    BY <1>21 DEF WatchTurn, WatchSettled
  <2> QED BY <2>1, <2>2, <2>3, <2>4
<1>22. ASSUME WatchTerminate PROVE IInv'
  <2>1. TypeOK'
    BY <1>22 DEF WatchTerminate, Terminate
  <2>2. Located' /\ Progressed' /\ Reported'
    BY <1>22 DEF WatchTerminate, Terminate
  <2>3. Unstopped'
    BY <1>22 DEF WatchTerminate, Terminate
  <2>4. Sealed' /\ OneShutdown'
    BY <1>22 DEF WatchTerminate, Terminate
  <2> QED BY <2>1, <2>2, <2>3, <2>4
<1>23. ASSUME WatchSignal PROVE IInv'
  <2>1. TypeOK'
    <3>1. pc' \in [Actors -> PcValues]
      BY <1>23 DEF WatchSignal, Active
    <3>2. sigterm' \in BOOLEAN
      BY <1>23 DEF WatchSignal, Active
    <3>3. stopped' \in BOOLEAN
      BY <1>23 DEF WatchSignal, Active
    <3> QED BY <1>23, <3>1, <3>2, <3>3 DEF WatchSignal, Active
  <2>2. Located' /\ Progressed' /\ Reported'
    BY <1>23 DEF WatchSignal, Active
  <2>3. Unstopped'
    BY <1>23 DEF WatchSignal, Active
  <2>4. Sealed' /\ OneShutdown'
    BY <1>23 DEF WatchSignal, Active
  <2> QED BY <2>1, <2>2, <2>3, <2>4
<1>24. ASSUME NEW p \in Actors, RequestExists(p) PROVE IInv'
  <2>1. TypeOK'
    BY <1>24 DEF RequestExists
  <2>2. Located' /\ Progressed' /\ Reported'
    BY <1>24 DEF RequestExists
  <2>3. Unstopped'
    BY <1>24 DEF RequestExists
  <2>4. Sealed' /\ OneShutdown'
    BY <1>24 DEF RequestExists
  <2> QED BY <2>1, <2>2, <2>3, <2>4
<1>25. ASSUME NEW p \in Actors, ShutdownGuard(p) PROVE IInv'
  <2>1. TypeOK'
    BY <1>25 DEF ShutdownGuard
  <2>2. Located' /\ Progressed' /\ Reported'
    BY <1>25 DEF ShutdownGuard
  <2>3. Unstopped'
    BY <1>25 DEF ShutdownGuard
  <2>4. Sealed' /\ OneShutdown'
    BY <1>25 DEF ShutdownGuard
  <2> QED BY <2>1, <2>2, <2>3, <2>4
<1>26. ASSUME NEW p \in Actors, ForeignWork(p) PROVE IInv'
  <2>1. TypeOK'
    BY <1>26 DEF ForeignWork
  <2>2. Located' /\ Progressed' /\ Reported'
    BY <1>26 DEF ForeignWork
  <2>3. Unstopped'
    BY <1>26 DEF ForeignWork
  <2>4. Sealed' /\ OneShutdown'
    BY <1>26 DEF ForeignWork
  <2> QED BY <2>1, <2>2, <2>3, <2>4
<1>27. ASSUME NEW p \in Actors, SaveRequest(p) PROVE IInv'
  <2>1. TypeOK'
    BY <1>27 DEF SaveRequest, CreatesRequest
  <2>2. Located' /\ Progressed' /\ Reported'
    BY <1>27 DEF SaveRequest, CreatesRequest
  <2>3. Unstopped'
    BY <1>27 DEF SaveRequest, CreatesRequest
  <2>4. Sealed' /\ OneShutdown'
    BY <1>27 DEF SaveRequest, CreatesRequest
  <2> QED BY <2>1, <2>2, <2>3, <2>4
<1>28. ASSUME NEW p \in Actors, Exec(p) PROVE IInv'
  <2>1. TypeOK'
    <3>1. pc' \in [Actors -> PcValues]
      BY <1>28 DEF Exec
    <3>2. off' \in BOOLEAN
      BY <1>28 DEF Exec
    <3> QED BY <1>28, <3>1, <3>2 DEF Exec
  <2>2. Located' /\ Progressed' /\ Reported'
    BY <1>28 DEF Exec
  <2>3. Unstopped'
    BY <1>28 DEF Exec
  <2>4. Sealed' /\ OneShutdown'
    BY <1>28 DEF Exec
  <2> QED BY <2>1, <2>2, <2>3, <2>4
<1>29. ASSUME NEW p \in Actors, Crash(p) PROVE IInv'
  <2>1. TypeOK'
    BY <1>29 DEF Crash, Active
  <2>2. Located' /\ Progressed' /\ Reported'
    BY <1>29 DEF Crash, Active
  <2>3. Unstopped'
    BY <1>29 DEF Crash, Active
  <2>4. Sealed' /\ OneShutdown'
    BY <1>29 DEF Crash, Active
  <2> QED BY <2>1, <2>2, <2>3, <2>4
<1>30. ASSUME NEW k \in Stages, StageReadClock(k) PROVE IInv'
  <2>1. TypeOK'
    BY <1>30 DEF StageReadClock, Advance
  <2>2. Located' /\ Progressed' /\ Reported'
    BY <1>30 DEF StageReadClock, Advance
  <2>3. Unstopped'
    BY <1>30 DEF StageReadClock, Advance
  <2>4. Sealed' /\ OneShutdown'
    BY <1>30 DEF StageReadClock, Advance
  <2> QED BY <2>1, <2>2, <2>3, <2>4
<1>31. ASSUME NEW k \in Stages, StageReadEvidence(k) PROVE IInv'
  <2>1. TypeOK'
    BY <1>31 DEF StageReadEvidence, Advance
  <2>2. Located' /\ Progressed' /\ Reported'
    BY <1>31 DEF StageReadEvidence, Advance
  <2>3. Unstopped'
    BY <1>31 DEF StageReadEvidence, Advance
  <2>4. Sealed' /\ OneShutdown'
    BY <1>31 DEF StageReadEvidence, Advance
  <2> QED BY <2>1, <2>2, <2>3, <2>4
<1>32. ASSUME NEW k \in Stages, StageFindWatchdog(k) PROVE IInv'
  <2>1. TypeOK'
    BY <1>32 DEF StageFindWatchdog, Advance
  <2>2. Located' /\ Progressed' /\ Reported'
    BY <1>32 DEF StageFindWatchdog, Advance
  <2>3. Unstopped'
    BY <1>32 DEF StageFindWatchdog, Advance
  <2>4. Sealed' /\ OneShutdown'
    BY <1>32 DEF StageFindWatchdog, Advance
  <2> QED BY <2>1, <2>2, <2>3, <2>4
<1>33. ASSUME NEW k \in Stages, StageUseGpu(k) PROVE IInv'
  <2>1. TypeOK'
    BY <1>33 DEF StageUseGpu
  <2>2. Located' /\ Progressed' /\ Reported'
    BY <1>33 DEF StageUseGpu
  <2>3. Unstopped'
    BY <1>33 DEF StageUseGpu
  <2>4. Sealed' /\ OneShutdown'
    BY <1>33 DEF StageUseGpu
  <2> QED BY <2>1, <2>2, <2>3, <2>4
<1>34. ASSUME NEW k \in Stages, StageWrite(k) PROVE IInv'
  <2>1. TypeOK'
    BY <1>34 DEF StageWrite
  <2>2. Located' /\ Progressed' /\ Reported'
    BY <1>34 DEF StageWrite
  <2>3. Unstopped'
    BY <1>34 DEF StageWrite
  <2>4. Sealed' /\ OneShutdown'
    BY <1>34 DEF StageWrite
  <2> QED BY <2>1, <2>2, <2>3, <2>4
<1>35. ASSUME NEW k \in Stages, StageFinish(k) PROVE IInv'
  <2>1. TypeOK'
    BY <1>35 DEF StageFinish
  <2>2. Located' /\ Progressed' /\ Reported'
    BY <1>35 DEF StageFinish
  <2>3. Unstopped'
    BY <1>35 DEF StageFinish
  <2>4. Sealed' /\ OneShutdown'
    BY <1>35 DEF StageFinish
  <2> QED BY <2>1, <2>2, <2>3, <2>4
<1>36. ASSUME NEW k \in Stages, StageFail(k) PROVE IInv'
  <2>1. TypeOK'
    BY <1>36 DEF StageFail
  <2>2. Located' /\ Progressed' /\ Reported'
    BY <1>36 DEF StageFail
  <2>3. Unstopped'
    BY <1>36 DEF StageFail
  <2>4. Sealed' /\ OneShutdown'
    BY <1>36 DEF StageFail
  <2> QED BY <2>1, <2>2, <2>3, <2>4
<1>37. ASSUME Fetch PROVE IInv'
  <2>1. TypeOK'
    BY <1>37 DEF Fetch
  <2>2. Located' /\ Progressed' /\ Reported'
    BY <1>37 DEF Fetch
  <2>3. Unstopped'
    BY <1>37 DEF Fetch
  <2>4. Sealed' /\ OneShutdown'
    BY <1>37 DEF Fetch
  <2> QED BY <2>1, <2>2, <2>3, <2>4
<1>38. ASSUME Extract PROVE IInv'
  <2>1. TypeOK'
    BY <1>38 DEF Extract, FilesMatch
  <2>2. Located' /\ Progressed' /\ Reported'
    BY <1>38 DEF Extract, FilesMatch
  <2>3. Unstopped'
    BY <1>38 DEF Extract, FilesMatch
  <2>4. Sealed' /\ OneShutdown'
    BY <1>38 DEF Extract, FilesMatch
  <2> QED BY <2>1, <2>2, <2>3, <2>4
<1>39. ASSUME Deliver PROVE IInv'
  <2>1. TypeOK'
    BY <1>39 DEF Deliver
  <2>2. Located' /\ Progressed' /\ Reported'
    BY <1>39 DEF Deliver
  <2>3. Unstopped'
    BY <1>39 DEF Deliver
  <2>4. Sealed' /\ OneShutdown'
    BY <1>39 DEF Deliver
  <2> QED BY <2>1, <2>2, <2>3, <2>4
<1>40. ASSUME TransferFails PROVE IInv'
  <2>1. TypeOK'
    BY <1>40 DEF TransferFails
  <2>2. Located' /\ Progressed' /\ Reported'
    BY <1>40 DEF TransferFails
  <2>3. Unstopped'
    BY <1>40 DEF TransferFails
  <2>4. Sealed' /\ OneShutdown'
    BY <1>40 DEF TransferFails
  <2> QED BY <2>1, <2>2, <2>3, <2>4
<1>41. ASSUME Tick PROVE IInv'
  <2>1. TypeOK'
    BY <1>41 DEF Tick
  <2>2. Located' /\ Progressed' /\ Reported'
    BY <1>41 DEF Tick
  <2>3. Unstopped'
    BY <1>41 DEF Tick
  <2>4. Sealed' /\ OneShutdown'
    BY <1>41 DEF Tick
  <2> QED BY <2>1, <2>2, <2>3, <2>4
<1>42. CASE UNCHANGED vars
  BY <1>42 DEF vars
<1> QED BY <1>1, <1>2, <1>3, <1>4, <1>5, <1>6, <1>7, <1>8, <1>9, <1>10, <1>11,
               <1>12, <1>13, <1>14, <1>15, <1>16, <1>17, <1>18, <1>19, <1>20, <1>21, <1>22,
               <1>23, <1>24, <1>25, <1>26, <1>27, <1>28, <1>29, <1>30, <1>31, <1>32, <1>33,
               <1>34, <1>35, <1>36, <1>37, <1>38, <1>39, <1>40, <1>41, <1>42 DEF Next,
               Supervise, Watch, PowerDown, RunStage, Receive

LEMMA IInvInit == Init => IInv
<1> SUFFICES ASSUME Init PROVE IInv
  OBVIOUS
<1> USE IrisAssumption DEF Init, Stages, Actors, Before, Try, PowerOff,
      Finally, Watching, Halted, InLoop, Live, Ended
<1>1. TypeOK
  <2>1. 0 \in 0..(NStages + 1) /\ 0 \in 0..NStages
    OBVIOUS
  <2>2. pc \in [Actors -> PcValues]
    BY DEF PcValues
  <2>3. 0 \in 0..ShutdownDeadline
    OBVIOUS
  <2> QED BY <2>1, <2>2, <2>3 DEF TypeOK, FileStates
<1>2. Located
  BY DEF Located
<1>3. Progressed /\ Reported
  BY DEF Progressed, Reported
<1>4. Unstopped /\ Sealed /\ OneShutdown
  BY DEF Unstopped, Sealed, OneShutdown
<1> QED BY <1>1, <1>2, <1>3, <1>4 DEF IInv

\* The inductive invariant holds of every run.
THEOREM Inductive == Spec => []IInv
  BY IInvInit, IInvStep, PTL DEF Spec

\* Every variable keeps its type, whatever the order in which supervise(),
\* watch(), shutdown(), the stages and the receiver run.
THEOREM TypeCorrect == Spec => []TypeOK
<1>1. IInv => TypeOK
  BY DEF IInv
<1> QED BY <1>1, Inductive, PTL

\* Only one of supervise() and watch() ever gets past shutdown-request.json.
THEOREM SingleShutdown == Spec => []OneShutdown
<1>1. IInv => OneShutdown
  BY DEF IInv
<1> QED BY <1>1, Inductive, PTL

\* worker-exited.json lists only stages with evidence and reports no error
\* only when all of them have it.
THEOREM TrueReport == Spec => []ReportIsTrue
<1>1. IInv => ReportIsTrue
  <2> SUFFICES ASSUME IInv, workerExited.whole
               PROVE  /\ workerExited.completed \subseteq done
                      /\ \A k \in done : proc[k] = "ok" /\ output[k] = "final"
                      /\ ~workerExited.error => done = Stages
    BY DEF ReportIsTrue
  <2>1. workerExited.completed \subseteq done
    BY DEF IInv, Reported
  <2>2. \A k \in done : proc[k] = "ok" /\ output[k] = "final"
    BY DEF IInv, Progressed, TypeOK
  <2>3. ASSUME ~workerExited.error PROVE done = Stages
    <3>1. stage = NStages + 1
      BY <2>3 DEF IInv, Reported
    <3>2. completed = Stages
      BY <3>1, IrisAssumption DEF IInv, Progressed, Stages
    <3> QED BY <3>2 DEF IInv, Progressed, TypeOK
  <2> QED BY <2>1, <2>2, <2>3
<1> QED BY <1>1, Inductive, PTL

\* A stage at work is alone and has complete evidence of all before it.
THEOREM OrderedStages == Spec => []StagesInOrder
<1>1. IInv => StagesInOrder
  <2> SUFFICES ASSUME IInv,
                      NEW k \in Stages, proc[k] \in {"running", "gpu"}
               PROVE  /\ \A j \in 1..(k-1) : output[j] = "final"
                      /\ \A j \in Stages \ {k} : proc[j] \notin Live
    BY DEF StagesInOrder
  <2>1. \A j \in Stages : j < stage => proc[j] = "ok"
    BY DEF IInv, Progressed
  <2>2. \A j \in Stages : j > stage => proc[j] = "none"
    BY DEF IInv, Progressed
  <2>3. k = stage
    BY <2>1, <2>2, IrisAssumption DEF IInv, TypeOK, Stages
  <2>4. \A j \in 1..(k-1) : output[j] = "final"
    BY <2>1, <2>3, IrisAssumption DEF IInv, Progressed, Stages
  <2>5. \A j \in Stages \ {k} : proc[j] \notin Live
    BY <2>1, <2>2, <2>3, IrisAssumption DEF IInv, TypeOK, Stages, Live
  <2> QED BY <2>4, <2>5
<1> QED BY <1>1, Inductive, PTL

\* If the watchdog did not interfere, no stage outlives the report.
THEOREM NoStageLeft == Spec => []ExitLeavesNoStage
<1>1. IInv => ExitLeavesNoStage
  BY DEF IInv, Unstopped, ExitLeavesNoStage
<1> QED BY <1>1, Inductive, PTL

\* A receipt is for the manifest and the archive that agrees with it.
THEOREM ExactReceipt == Spec => []ReceiptIsExact
<1>1. IInv => ReceiptIsExact
  BY DEF IInv, Sealed, ReceiptIsExact
<1> QED BY <1>1, Inductive, PTL

\* A lost stage process that has not read its clock goes nowhere once the run
\* was stopped or its report begun: the deadline it compares with has passed.
THEOREM NoLostStageAdmitted == Spec => NoLateAdmission
<1> DEFINE Fence == \A k \in Stages :
       (workerExited.present \/ stopped) /\ proc[k] = "starting"
         => proc'[k] \in {"starting", "failed", "killed"}
<1>1. IInv /\ [Next]_vars => [Fence]_vars
  <2> SUFFICES ASSUME IInv, Next, NEW k \in Stages,
                      workerExited.present \/ stopped,
                      proc[k] = "starting",
                      proc'[k] \notin {"starting", "failed", "killed"}
               PROVE  FALSE
    OBVIOUS
  <2>1. now >= Deadline
    BY DEF IInv, Unstopped, Live
  <2>2. proc \in [Stages -> {"none"} \cup Live \cup Ended]
    BY DEF IInv, TypeOK
  <2>3. ASSUME NEW j \in Stages, StageReadClock(j) PROVE FALSE
    <3>1. ~StartsInTime
      BY <2>1, IrisAssumption DEF StartsInTime, IInv, TypeOK
    <3> QED BY <2>2, <2>3, <3>1 DEF StageReadClock, Advance
  <2>4. ASSUME NEW j \in Stages,
               \/ StageReadEvidence(j) \/ StageFindWatchdog(j)
               \/ StageUseGpu(j) \/ StageWrite(j) \/ StageFinish(j)
               \/ StageFail(j)
        PROVE FALSE
    BY <2>2, <2>4 DEF StageReadEvidence, StageFindWatchdog, Advance,
                      StageUseGpu, StageWrite, StageFinish, StageFail
  <2>5. ASSUME Supervise \/ MemoryExceeded PROVE FALSE
    BY <2>2, <2>5
       DEF Supervise, LaunchWatchdog, RecordWatchdog, Admit, NextStage, Popen,
           AssignChild, IdentifyChild, PublishChild, Poll, SaveDone,
           AppendCompleted, StopChild, Terminate, OpenExited, SaveExited, HashFiles,
           WriteArchive, SavePackage, AwaitReceipt, TakeSignal,
           MemoryExceeded, world
  <2>6. ASSUME Watch \/ Receive \/ Tick PROVE FALSE
    BY <2>2, <2>6
       DEF Watch, WatchTurn, WatchTerminate, WatchSignal, Terminate, Receive,
           Fetch, Extract, Deliver, TransferFails, Tick, world
  <2>7. ASSUME NEW p \in Actors, PowerDown(p) \/ ForeignWork(p) \/ Crash(p)
        PROVE FALSE
    BY <2>7
       DEF PowerDown, RequestExists, ShutdownGuard, SaveRequest, Exec,
           ForeignWork, Crash, world
  <2>8. ASSUME NEW j \in Stages, RunStage(j) PROVE FALSE
    BY <2>3, <2>4, <2>8 DEF RunStage
  <2> QED BY <2>5, <2>6, <2>7, <2>8 DEF Next
<1> QED BY <1>1, Inductive, PTL DEF Spec, NoLateAdmission

-----------------------------------------------------------------------------
(* The run implements the campaign of IrisCampaign.                        *)

\* What is packaged, and so what can be delivered, follows worker-exited.json.
Packed ==
  pc["sup"] \in {"hash", "tar", "seal"} \/ packageJson => workerExited.whole

LEMMA PackedStep == IInv /\ Packed /\ [Next]_vars => Packed'
<1> SUFFICES ASSUME IInv, Packed, [Next]_vars PROVE Packed'
  OBVIOUS
<1> USE DEF Packed, At, Goto, Raise, locals, world, files
<1>1. pc \in [Actors -> PcValues]
  BY DEF IInv, TypeOK
<1>2. CASE Supervise \/ MemoryExceeded
  <2>1. CASE LaunchWatchdog \/ RecordWatchdog \/ Admit \/ NextStage \/ Popen \/ AssignChild
    BY <1>1, <2>1 DEF LaunchWatchdog, RecordWatchdog, Admit, NextStage, Popen, AssignChild,
                      Actors
  <2>2. CASE IdentifyChild \/ PublishChild \/ Poll \/ SaveDone \/ AppendCompleted \/ StopChild
             \/ MemoryExceeded
    BY <1>1, <2>2 DEF IdentifyChild, PublishChild, Poll, SaveDone, AppendCompleted, StopChild,
                      MemoryExceeded, Actors
  <2>3. CASE OpenExited \/ SaveExited
    BY <1>1, <2>3 DEF OpenExited, SaveExited, IInv, TypeOK, Actors
  <2>4. CASE HashFiles \/ WriteArchive \/ SavePackage \/ AwaitReceipt
    BY <1>1, <2>4 DEF HashFiles, WriteArchive, SavePackage, AwaitReceipt, Actors
  <2>5. CASE TakeSignal
    BY <1>1, <2>5 DEF TakeSignal, Actors
  <2> QED BY <1>2, <2>1, <2>2, <2>3, <2>4, <2>5 DEF Supervise
<1>3. CASE Watch
  BY <1>1, <1>3 DEF Watch, WatchTurn, WatchTerminate, WatchSignal, Actors
<1>4. ASSUME NEW p \in Actors, PowerDown(p) \/ ForeignWork(p) \/ Crash(p) PROVE Packed'
  BY <1>1, <1>4 DEF PowerDown, RequestExists, ShutdownGuard, SaveRequest, Exec, ForeignWork,
                    Crash, Actors
<1>5. ASSUME NEW k \in Stages, RunStage(k) PROVE Packed'
  BY <1>5 DEF RunStage, StageReadClock, StageReadEvidence, StageFindWatchdog, Advance,
              StageUseGpu, StageWrite, StageFinish, StageFail
<1>6. CASE Receive \/ Tick
  BY <1>6 DEF Receive, Fetch, Extract, Deliver, TransferFails, Tick
<1>7. CASE UNCHANGED vars
  BY <1>7 DEF vars
<1> QED BY <1>2, <1>3, <1>4, <1>5, <1>6, <1>7 DEF Next

\* What the campaign is made of.
LEMMA Stutters ==
  ASSUME UNCHANGED <<proc, output, workerExited, receipt, off>>
  PROVE  UNCHANGED Campaign!campaign
BY DEF Campaign!campaign

\* A stage that fails or is killed is lost.
LEMMA Loses ==
  ASSUME TypeOK, NEW k \in Stages, proc[k] \in Live, NEW how \in {"failed", "killed"},
         proc' = [proc EXCEPT ![k] = how], UNCHANGED <<output, workerExited, receipt, off>>,
         ~ off
  PROVE  Campaign!Next
<1>1. /\ proc'[k] = how /\ \A j \in Stages \ {k} : proc'[j] = proc[j]
  BY DEF TypeOK
<1>2. Campaign!Lose(k)
  BY <1>1 DEF Campaign!Lose, Live
<1> QED BY <1>2 DEF Campaign!Next, Stages, TypeOK

\* Killing what is not at work changes nothing.
LEMMA TerminateLoses ==
  ASSUME TypeOK, NEW pid \in 0..NStages, NEW ticks \in 0..NStages, Terminate(pid, ticks),
         UNCHANGED <<output, workerExited, receipt, off>>, ~ off
  PROVE  Campaign!Next \/ UNCHANGED Campaign!campaign
<1>1. CASE pid = ticks /\ pid # 0 /\ proc[pid] \in Live
  <2>1. pid \in Stages /\ proc' = [proc EXCEPT ![pid] = "killed"]
    BY <1>1, IrisAssumption DEF Terminate, Stages
  <2> QED BY <1>1, <2>1, Loses
<1>2. CASE ~ (pid = ticks /\ pid # 0 /\ proc[pid] \in Live)
  BY <1>2, Stutters DEF Terminate
<1> QED BY <1>1, <1>2

\* Every step is one of the campaign or leaves it as it is.
LEMMA StepsMap ==
  IInv /\ Packed /\ [Next]_vars => [Campaign!Next]_(Campaign!campaign)
<1> SUFFICES ASSUME IInv, Packed, [Next]_vars
             PROVE  Campaign!Next \/ UNCHANGED Campaign!campaign
  OBVIOUS
<1> USE DEF locals, world, files
<1>1. TypeOK /\ (~ off => off = FALSE)
  BY DEF IInv, TypeOK
<1>2. CASE Popen
  <2> SUFFICES ASSUME proc' # proc
               PROVE  Campaign!Next
    BY <1>2, Stutters DEF Popen
  <2>1. /\ ~ off /\ pc["sup"] = "popen" /\ stage \in Stages
        /\ proc' = [proc EXCEPT ![stage] = "starting"]
        /\ UNCHANGED <<off, output, workerExited, receipt>>
    BY <1>2 DEF Popen, At, IInv, Located, InLoop
  <2>2. ~ workerExited.whole
    BY <2>1 DEF IInv, Reported, Finally, PowerOff, Halted
  <2>3. /\ \A k \in Stages : k >= stage => proc[k] = "none"
        /\ \A k \in Stages : k < stage => proc[k] = "ok"
        /\ \A k \in Stages : output[k] = "final" <=> proc[k] = "ok"
    BY <2>1 DEF IInv, Located, Progressed
  <2>4. \A k \in Stages : k >= stage \/ k < stage
    BY <2>1, IrisAssumption DEF Stages
  <2>5. /\ \A k \in Stages : output[k] = "final" <=> k \in 1..(stage - 1)
        /\ 1..(stage - 1) \subseteq Stages
    BY <2>1, <2>3, IrisAssumption DEF Stages
  <2>6. /\ \A k \in Stages : proc[k] \in {"none", "ok"}
        /\ proc'[stage] = "starting" /\ \A k \in Stages \ {stage} : proc'[k] = proc[k]
    BY <1>1, <2>1, <2>3, <2>4 DEF TypeOK
  <2> PICK k \in Stages : k = stage
    BY <2>1
  <2>7. Campaign!Begin(k)
    BY <2>1, <2>2, <2>5, <2>6 DEF Campaign!Begin, Live
  <2>8. off' = FALSE /\ ~ off /\ k \in 1..NStages
    BY <1>1, <2>1 DEF Stages
  <2> QED BY <2>7, <2>8 DEF Campaign!Next
<1>3. CASE SaveExited
  <2> SUFFICES ASSUME workerExited' # workerExited
               PROVE  Campaign!Next
    BY <1>3, Stutters DEF SaveExited
  <2>1. /\ ~ off /\ pc["sup"] = "report" /\ UNCHANGED <<off, proc, output, receipt>>
        /\ workerExited'.whole /\ workerExited'.error = failed
    BY <1>1, <1>3 DEF SaveExited, At, TypeOK
  <2>2. ~ workerExited.whole
    BY <2>1 DEF IInv, Reported, Finally, PowerOff, Halted
  <2>3. CASE failed
    <3>1. Campaign!Fail
      BY <2>1, <2>2, <2>3 DEF Campaign!Fail
    <3> QED BY <1>1, <2>1, <3>1 DEF Campaign!Next
  <2>4. CASE ~ failed
    <3>1. stage = NStages + 1
      BY <2>1, <2>4 DEF IInv, Located
    <3>2. \A k \in Stages : output[k] = "final"
      BY <3>1, IrisAssumption DEF IInv, Progressed, Stages
    <3>3. Campaign!Pass
      BY <2>1, <2>2, <2>4, <3>2 DEF Campaign!Pass, Stages
    <3> QED BY <1>1, <2>1, <3>3 DEF Campaign!Next
  <2> QED BY <2>3, <2>4
<1>4. CASE StopChild
  <2>1. child \in 0..NStages /\ identity \in 0..NStages
    BY <1>1 DEF TypeOK
  <2> QED BY <1>1, <1>4, <2>1, Stutters, TerminateLoses DEF StopChild, At
<1>12. CASE OpenExited
  <2>1. /\ workerExited'.whole = workerExited.whole
        /\ workerExited'.error = workerExited.error
        /\ UNCHANGED <<off, proc, output, receipt>>
    BY <1>1, <1>12 DEF OpenExited, TypeOK
  <2> QED BY <2>1 DEF Campaign!campaign
<1>5. CASE \/ Supervise /\ ~ Popen /\ ~ OpenExited /\ ~ SaveExited /\ ~ StopChild
           \/ MemoryExceeded
  BY <1>5, Stutters
     DEF Supervise, LaunchWatchdog, RecordWatchdog, Admit, NextStage, AssignChild,
         IdentifyChild, PublishChild, Poll, SaveDone, AppendCompleted, HashFiles,
         WriteArchive, SavePackage, AwaitReceipt, TakeSignal, MemoryExceeded
<1>6. CASE Watch
  <2>1. activeChild \in 0..NStages
    BY <1>1 DEF TypeOK
  <2>2. CASE WatchTerminate
    BY <1>1, <2>1, <2>2, TerminateLoses DEF WatchTerminate, At
  <2> QED BY <1>6, <2>2, Stutters DEF Watch, WatchTurn, WatchSignal
<1>7. ASSUME NEW p \in Actors, PowerDown(p) \/ ForeignWork(p) \/ Crash(p)
      PROVE  Campaign!Next \/ UNCHANGED Campaign!campaign
  <2>1. CASE Exec(p)
    <3> SUFFICES ASSUME off' # off PROVE Campaign!Next
      BY <2>1, Stutters DEF Exec
    <3>1. ~ off /\ off' = TRUE /\ UNCHANGED <<proc, output, workerExited, receipt>>
      BY <2>1 DEF Exec, At
    <3>2. Campaign!PowerOff
      BY <3>1 DEF Campaign!PowerOff
    <3> QED BY <3>1, <3>2 DEF Campaign!Next
  <2> QED BY <1>7, <2>1, Stutters
          DEF PowerDown, RequestExists, ShutdownGuard, SaveRequest, ForeignWork, Crash
<1>8. ASSUME NEW k \in Stages, RunStage(k)
      PROVE  Campaign!Next \/ UNCHANGED Campaign!campaign
  <2>1. ASSUME NEW from \in Live, NEW to \in Live, NEW holds, Advance(k, from, holds, to)
        PROVE  Campaign!Next \/ UNCHANGED Campaign!campaign
    <3>1. CASE holds
      <4>1. /\ proc[k] \in Live /\ proc'[k] \in Live
            /\ \A j \in Stages \ {k} : proc'[j] = proc[j]
            /\ UNCHANGED <<off, output, workerExited, receipt>>
        BY <1>1, <2>1, <3>1 DEF Advance, TypeOK
      <4> QED BY <4>1 DEF Campaign!campaign, Live
    <3>2. CASE ~ holds
      BY <1>1, <2>1, <3>2, Loses DEF Advance
    <3> QED BY <3>1, <3>2
  <2>6. CASE StageReadClock(k) \/ StageReadEvidence(k) \/ StageFindWatchdog(k)
    BY <2>1, <2>6 DEF StageReadClock, StageReadEvidence, StageFindWatchdog, Live
  <2>2. CASE StageUseGpu(k)
    <3>1. /\ proc[k] = "running" /\ proc'[k] = "gpu"
          /\ \A j \in Stages \ {k} : proc'[j] = proc[j]
          /\ UNCHANGED <<off, output, workerExited, receipt>>
      BY <1>1, <2>2 DEF StageUseGpu, TypeOK
    <3> QED BY <3>1 DEF Campaign!campaign, Live
  <2>3. CASE StageWrite(k)
    <3>1. /\ output[k] = "none" /\ output'[k] = "partial"
          /\ \A j \in Stages \ {k} : output'[j] = output[j]
          /\ UNCHANGED <<off, proc, workerExited, receipt>>
      BY <1>1, <2>3 DEF StageWrite, TypeOK, FileStates
    <3> QED BY <3>1 DEF Campaign!campaign
  <2>4. CASE StageFinish(k)
    <3>1. /\ proc[k] \in Live /\ proc'[k] = "ok" /\ output'[k] = "final"
          /\ \A j \in Stages \ {k} : proc'[j] = proc[j] /\ output'[j] = output[j]
          /\ UNCHANGED <<off, workerExited, receipt>> /\ ~ off
      BY <1>1, <2>4 DEF StageFinish, TypeOK, FileStates, Live
    <3>2. Campaign!Complete(k)
      BY <3>1 DEF Campaign!Complete, Live
    <3> QED BY <1>1, <3>1, <3>2 DEF Campaign!Next, Stages
  <2>5. CASE StageFail(k)
    BY <1>1, <2>5, Loses DEF StageFail
  <2> QED BY <1>8, <2>6, <2>2, <2>3, <2>4, <2>5 DEF RunStage
<1>9. CASE Deliver
  <2>1. /\ ~ off /\ receiver = "verified" /\ receipt = {} /\ receipt' = manifest
        /\ UNCHANGED <<off, proc, output, workerExited>>
    BY <1>9 DEF Deliver
  <2>2. workerExited.whole
    BY <2>1 DEF IInv, Sealed, Packed
  <2>3. CASE manifest = {}
    BY <2>1, <2>3, Stutters
  <2>4. CASE manifest # {}
    <3>1. Campaign!Receive
      BY <2>1, <2>2, <2>4 DEF Campaign!Receive
    <3> QED BY <1>1, <2>1, <3>1 DEF Campaign!Next
  <2> QED BY <2>3, <2>4
<1>10. CASE (Receive /\ ~ Deliver) \/ Tick
  BY <1>10, Stutters DEF Receive, Fetch, Extract, TransferFails, Tick
<1>11. CASE UNCHANGED vars
  BY <1>11, Stutters DEF vars
<1> QED BY <1>2, <1>3, <1>4, <1>5, <1>6, <1>7, <1>8, <1>9, <1>10, <1>11,
           <1>12 DEF Next

\* The protected run keeps the promises of IrisCampaign: stages one at a time
\* and in order, none after a loss, one verdict, one delivery after it, and
\* nothing after power-off.
THEOREM RefinesCampaign == Spec => ImplementsCampaign
<1>1. Init => Packed /\ Campaign!Init
  BY DEF Init, Packed, Campaign!Init, Live, Actors
<1>2. Spec => []Packed
  BY <1>1, Inductive, PackedStep, PTL DEF Spec
<1> QED BY <1>1, <1>2, Inductive, StepsMap, PTL DEF Spec, ImplementsCampaign, Campaign!Spec

=============================================================================
