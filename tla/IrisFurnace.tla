---------------------------- MODULE IrisFurnace ----------------------------
(***************************************************************************)
(* The protected Iris run of scripts/run_iris_furnace.py.                  *)
(*                                                                         *)
(* A detached supervisor runs the registered stages one child process at   *)
(* a time, packages the job directory, waits for the receipt of a remote   *)
(* receiver and powers the instance off.  An independent watchdog stops    *)
(* the work at the deadline and powers the instance off at the shutdown    *)
(* deadline.  The two share nothing but files of the job directory and     *)
(* one signal: SIGTERM from the watchdog, which the supervisor's handler   *)
(* turns into a TimeoutError at whatever statement it happens to be.       *)
(*                                                                         *)
(* Every process can be delayed arbitrarily; the clock counts the moments  *)
(* the code compares against, not seconds.                                 *)
(***************************************************************************)
EXTENDS Naturals

CONSTANTS
  NStages,           \* number of registered stages (27 in the code)
  GpuStages,         \* the stages that open a CUDA context
  Deadline,          \* registration.deadline, counted from the start
  ShutdownDeadline,  \* registration.shutdown_deadline
  Patience,          \* how long the supervisor waits for a receipt
  Crashable          \* the actors that the system may kill

ASSUME IrisAssumption ==
  /\ NStages \in Nat \ {0}
  /\ GpuStages \subseteq 1..NStages
  /\ Deadline \in Nat \ {0}
  /\ ShutdownDeadline \in Nat
  /\ Deadline < ShutdownDeadline
  /\ Patience \in Nat
  /\ Crashable \subseteq {"sup", "wd"}

Stages == 1..NStages
Actors == {"sup", "wd"}

VARIABLES
  now, off,                                  \* the clock; the power
  pc,                                        \* of supervisor and watchdog
  stage, child, identity, completed, failed, stop,  \* locals of supervise()
  stopped, sigterm,                \* local of watch(); its SIGTERM, pending
  proc, output,                    \* stage processes and their written files
  activeChild, done, workerExited,                  \* files of the run
  manifest, archive, packageJson,                   \* files of package()
  receipt, request,     \* transfer-receipt.json, shutdown-request.json
  receiver                                   \* the script on the other side

locals == <<stage, child, identity, completed, failed, stop>>
world  == <<now, off, stopped, sigterm, proc, output, receiver>>
files  == <<activeChild, done, workerExited, manifest, archive, packageJson,
            receipt, request>>
vars   == <<pc, locals, world, files>>

-----------------------------------------------------------------------------
\* A stage process: started; its clock read in time; the earlier stages'
\* evidence read as well; at work without and with the GPU.
Live  == {"starting", "clocked", "verified", "running", "gpu"}
Ended == {"ok", "failed", "killed"}

\* Statements of supervise(): before its handler is installed, in the try
\* block, in the except block, in the finally block; and of shutdown().
Before  == {"launch", "record"}
Try     == {"admit", "next", "popen", "assign", "identify", "publish", "poll",
            "save", "append"}
PowerOff == {"exists", "guard", "request", "exec"}
Finally == {"exited", "report", "hash", "tar", "seal", "await"} \cup PowerOff
Watching == {"loop", "terminate", "signal"} \cup PowerOff
Halted  == {"returned", "refused", "raised", "crashed"}

Active(p) == pc[p] \notin Halted \cup {"off"}

GpuIdle == \A k \in Stages : proc[k] # "gpu"

\* A statement of the supervisor starts only when no signal is pending.
At(p, l) == ~off /\ pc[p] = l /\ (p = "sup" => ~sigterm)

Goto(p, l) == pc' = [pc EXCEPT ![p] = l]

Raise == Goto("sup", "except") /\ failed' = TRUE

\* terminate(): SIGTERM, five seconds, SIGKILL to the process group of pid,
\* if the process is alive under the recorded start ticks.  Pid and ticks
\* name one process for ever, so an identity is the stage it was taken from.
Terminate(pid, ticks) ==
  proc' = IF pid = ticks /\ pid # 0 /\ proc[pid] \in Live
          THEN [proc EXCEPT ![pid] = "killed"]
          ELSE proc

-----------------------------------------------------------------------------
(* supervise().                                                            *)

LaunchWatchdog ==
  /\ At("sup", "launch")
  /\ \/ pc' = [pc EXCEPT !["sup"] = "record", !["wd"] = "loop"]
     \/ Goto("sup", "raised")
  /\ UNCHANGED <<locals, world, files>>

\* watchdog.json, the locals, the SIGTERM handler; an error of this file
\* comes before the try block and ends the supervisor.
RecordWatchdog ==
  /\ At("sup", "record")
  /\ (Goto("sup", "admit") \/ Goto("sup", "raised"))
  /\ UNCHANGED <<locals, world, files>>

\* Disk budget, idle GPU and bound inputs: all hold, or an exception.
Admit ==
  /\ At("sup", "admit")
  /\ \/ Goto("sup", "next") /\ stage' = 1 /\ UNCHANGED failed
     \/ Raise /\ UNCHANGED stage
  /\ UNCHANGED <<child, identity, completed, stop, world, files>>

\* Wrong on purpose: one stage too many.
MoreStagesOffByOne == stage <= NStages + 1

MoreStages == stage <= NStages

\* Head of the stage loop: its end, the deadline, or the next stage.
NextStage ==
  /\ At("sup", "next")
  /\ \/ ~MoreStages /\ Goto("sup", "exited") /\ UNCHANGED failed
     \/ MoreStages /\ now >= Deadline /\ Raise
     \/ /\ MoreStages
        /\ now < Deadline
        /\ Goto("sup", "popen")
        /\ UNCHANGED failed
  /\ UNCHANGED <<stage, child, identity, completed, stop, world, files>>

\* The log file and subprocess.Popen up to the fork, unless one of them
\* fails: the process exists, but no variable of the supervisor names it yet.
Popen ==
  /\ At("sup", "popen")
  /\ \/ /\ proc' = [proc EXCEPT ![stage] = "starting"]
        /\ Goto("sup", "assign")
        /\ UNCHANGED failed
     \/ Raise /\ UNCHANGED proc
  /\ UNCHANGED <<stage, child, identity, completed, stop, now, off, stopped,
                 sigterm, output, receiver, files>>

AssignChild ==
  /\ At("sup", "assign")
  /\ child' = stage
  /\ Goto("sup", "identify")
  /\ UNCHANGED <<stage, identity, completed, failed, stop, world, files>>

IdentifyChild ==
  /\ At("sup", "identify")
  /\ identity' = child
  /\ Goto("sup", "publish")
  /\ UNCHANGED <<stage, child, completed, failed, stop, world, files>>

\* active-child.tmp replaces active-child.json, unless the disk is full.
PublishChild ==
  /\ At("sup", "publish")
  /\ \/ activeChild' = identity /\ Goto("sup", "poll") /\ UNCHANGED failed
     \/ Raise /\ UNCHANGED activeChild
  /\ UNCHANGED <<stage, child, identity, completed, stop, world, done,
                 workerExited, manifest, archive, packageJson, receipt,
                 request>>

\* Wrong on purpose: every exit counts as success; and poll()'s None, of a
\* child that still runs, is taken for the exit code 0.
ExitedAnyhow == proc[child] \in Ended
ExitedOrNone == proc[child] \in Live \cup {"ok"}

ExitedZero == proc[child] = "ok"

\* The polling loop: an exited child and its code, then the deadline.
Poll ==
  /\ At("sup", "poll")
  /\ \/ ExitedZero /\ Goto("sup", "save") /\ UNCHANGED failed
     \/ proc[child] \in Ended /\ ~ExitedZero /\ Raise
     \/ proc[child] \in Live /\ now >= Deadline /\ Raise
  /\ UNCHANGED <<stage, child, identity, completed, stop, world, files>>

\* The polling loop finds the process group above its resident memory.
MemoryExceeded ==
  /\ At("sup", "poll")
  /\ proc[child] \in Live
  /\ Raise
  /\ UNCHANGED <<stage, child, identity, completed, stop, world, files>>

\* <stage>.done.json, unless its writing fails; a torn one counts as none,
\* for nobody could read it.
SaveDone ==
  /\ At("sup", "save")
  /\ \/ done' = done \cup {stage} /\ Goto("sup", "append") /\ UNCHANGED failed
     \/ Raise /\ UNCHANGED done
  /\ UNCHANGED <<stage, child, identity, completed, stop, world, activeChild,
                 workerExited, manifest, archive, packageJson, receipt,
                 request>>

AppendCompleted ==
  /\ At("sup", "append")
  /\ completed' = completed \cup {stage}
  /\ stage' = stage + 1
  /\ Goto("sup", "next")
  /\ UNCHANGED <<child, identity, failed, stop, world, files>>

\* Wrong on purpose: the child is stopped on a timeout only.
MustStopLate == /\ child # 0 /\ identity # 0
                /\ proc[child] \in Live /\ now >= Deadline

MustStop == child # 0 /\ identity # 0 /\ proc[child] \in Live

\* The except block: the child the variables name, under the identity they
\* hold, is terminated and awaited for ten seconds at most.
StopChild ==
  /\ At("sup", "except")
  /\ IF MustStop
     THEN Terminate(child, identity)
     ELSE UNCHANGED proc
  /\ Goto("sup", "exited")
  /\ UNCHANGED <<locals, now, off, stopped, sigterm, output, receiver, files>>

\* The finally block: worker-exited.json, package(), the wait, shutdown().
\* An error in any of them leaves the block and ends the supervisor.
\* save() first creates worker-exited.json, which the watchdog then finds ...
OpenExited ==
  /\ At("sup", "exited")
  /\ \/ workerExited' = [workerExited EXCEPT !.present = TRUE]
        /\ Goto("sup", "report")
     \/ Goto("sup", "raised") /\ UNCHANGED workerExited
  /\ UNCHANGED <<locals, world, activeChild, done, manifest, archive,
                 packageJson, receipt, request>>

\* ... and then writes the report into it, or leaves it torn.
SaveExited ==
  /\ At("sup", "report")
  /\ \/ workerExited' = [present |-> TRUE, whole |-> TRUE,
                          completed |-> completed, error |-> failed]
        /\ Goto("sup", "hash")
     \/ Goto("sup", "raised") /\ UNCHANGED workerExited
  /\ UNCHANGED <<locals, world, activeChild, done, manifest, archive,
                 packageJson, receipt, request>>

\* package(): the hashes of every file, unless a bound is exceeded or the
\* manifest cannot be written.  A torn manifest, archive or package.json
\* counts as none: the receiver accepts only all three.
HashFiles ==
  /\ At("sup", "hash")
  /\ \/ manifest' = {output} /\ Goto("sup", "tar")
     \/ UNCHANGED manifest /\ Goto("sup", "raised")
  /\ UNCHANGED <<locals, world, activeChild, done, workerExited, archive,
                 packageJson, receipt, request>>

\* package(): the files are read a second time, into the archive.
WriteArchive ==
  /\ At("sup", "tar")
  /\ \/ archive' = {output} /\ Goto("sup", "seal")
     \/ UNCHANGED archive /\ Goto("sup", "raised")
  /\ UNCHANGED <<locals, world, activeChild, done, workerExited, manifest,
                 packageJson, receipt, request>>

SavePackage ==
  /\ At("sup", "seal")
  /\ \/ /\ packageJson' = TRUE
        /\ stop' = IF now + Patience < ShutdownDeadline
                   THEN now + Patience ELSE ShutdownDeadline
        /\ Goto("sup", "await")
     \/ UNCHANGED <<packageJson, stop>> /\ Goto("sup", "raised")
  /\ UNCHANGED <<stage, child, identity, completed, failed, world, activeChild,
                 done, workerExited, manifest, archive, receipt, request>>

WaitIsOver == now >= stop \/ receipt = manifest

AwaitReceipt ==
  /\ At("sup", "await")
  /\ WaitIsOver
  /\ Goto("sup", "exists")
  /\ UNCHANGED <<locals, world, files>>

\* deadline_signal(): TimeoutError at the current statement.  It leaves the
\* try block for the except block, the except block for the finally block
\* and the finally block for good; before the handler is installed the
\* default action ends the process.
TakeSignal ==
  /\ ~off
  /\ sigterm
  /\ Active("sup")
  /\ sigterm' = FALSE
  /\ \/ pc["sup"] \in Before /\ Goto("sup", "crashed") /\ UNCHANGED failed
     \/ pc["sup"] \in Try /\ Raise
     \/ pc["sup"] = "except" /\ Goto("sup", "exited") /\ UNCHANGED failed
     \/ pc["sup"] \in Finally /\ Goto("sup", "raised") /\ UNCHANGED failed
  /\ UNCHANGED <<stage, child, identity, completed, stop, now, off, stopped,
                 proc, output, receiver, files>>

-----------------------------------------------------------------------------
(* watch().                                                                *)

\* Wrong on purpose: the watchdog leaves a worker that has exited alone.
WatchSettledEarly == request # "none" \/ workerExited.present

WatchSettled == request # "none"

\* One turn of the loop, or its end at the shutdown deadline.
WatchTurn ==
  /\ At("wd", "loop")
  /\ \/ now >= ShutdownDeadline /\ Goto("wd", "exists")
     \/ /\ now < ShutdownDeadline
        /\ WatchSettled
        /\ Goto("wd", "returned")
     \/ /\ now < ShutdownDeadline
        /\ ~WatchSettled
        /\ now >= Deadline /\ ~stopped /\ ~workerExited.present
        /\ Goto("wd", "terminate")
  /\ UNCHANGED <<locals, world, files>>

\* terminate() and os.kill() test a process and then signal it; one that
\* ends in between is an error, and watch() catches none.
WatchTerminate ==
  /\ At("wd", "terminate")
  /\ Terminate(activeChild, activeChild)
  /\ (Goto("wd", "signal") \/ Goto("wd", "raised"))
  /\ UNCHANGED <<locals, now, off, stopped, sigterm, output, receiver, files>>

WatchSignal ==
  /\ At("wd", "signal")
  /\ \/ sigterm' = Active("sup") /\ stopped' = TRUE /\ Goto("wd", "loop")
     \/ ~Active("sup") /\ UNCHANGED <<sigterm, stopped>> /\ Goto("wd", "raised")
  /\ UNCHANGED <<locals, now, off, proc, output, receiver, files>>

-----------------------------------------------------------------------------
(* shutdown(), called by the supervisor and by the watchdog.               *)

RequestExists(p) ==
  /\ At(p, "exists")
  /\ Goto(p, IF request = "none" THEN "guard" ELSE "returned")
  /\ UNCHANGED <<locals, world, files>>

\* The assertions: an idle GPU, and no Trash, terminal session or other
\* project process of somebody else.
ShutdownGuard(p) ==
  /\ At(p, "guard")
  /\ \/ GpuIdle /\ Goto(p, "request")
     \/ ~GpuIdle /\ Goto(p, "refused")
  /\ UNCHANGED <<locals, world, files>>

ForeignWork(p) ==
  /\ At(p, "guard")
  /\ Goto(p, "refused")
  /\ UNCHANGED <<locals, world, files>>

\* Wrong on purpose: an existing request is overwritten.
CreatesAlways == TRUE

CreatesRequest == request = "none"

\* shutdown-request.json is created exclusively: one creator, the other's
\* FileExistsError.  The creator may fail before the file exists, or after
\* it, with a torn request in place that still settles the watchdog.
SaveRequest(p) ==
  /\ At(p, "request")
  /\ \/ CreatesRequest /\ request' = p /\ (Goto(p, "exec") \/ Goto(p, "raised"))
     \/ UNCHANGED request /\ Goto(p, "raised")
  /\ UNCHANGED <<locals, world, activeChild, done, workerExited, manifest,
                 archive, packageJson, receipt>>

\* sync, the second look at the Trash and execv of the platform's shutdown
\* wrapper, which does its work or fails.
Exec(p) ==
  /\ At(p, "exec")
  /\ \/ off' = TRUE /\ UNCHANGED pc
     \/ Goto(p, "raised") /\ UNCHANGED off
  /\ UNCHANGED <<locals, now, stopped, sigterm, proc, output, receiver, files>>

-----------------------------------------------------------------------------
(* iris_stage.py.                                                          *)

\* Wrong on purpose: the stage trusts the supervisor's check of the time.
StartsAnyTime == TRUE

StartsInTime == now < Deadline

\* The process of stage k goes on if the test holds, and fails otherwise.
Advance(k, from, holds, to) ==
  /\ ~off
  /\ proc[k] = from
  /\ proc' = [proc EXCEPT ![k] = IF holds THEN to ELSE "failed"]
  /\ UNCHANGED <<pc, locals, now, off, stopped, sigterm, output, receiver,
                 files>>

\* main() reads the clock before it calls verify_stage(): whatever time the
\* steps below take, the deadline is compared with this reading.
StageReadClock(k) == Advance(k, "starting", StartsInTime, "clocked")

\* verify_stage(): every earlier stage's done.json, the hashes of the sources.
StageReadEvidence(k) == Advance(k, "clocked", 1..(k-1) \subseteq done, "verified")

\* main(): the watchdog of watchdog.json lives; then run().
StageFindWatchdog(k) == Advance(k, "verified", Active("wd"), "running")

\* The stage opens its CUDA context.
StageUseGpu(k) ==
  /\ ~off
  /\ proc[k] = "running" /\ k \in GpuStages
  /\ proc' = [proc EXCEPT ![k] = "gpu"]
  /\ UNCHANGED <<pc, locals, now, off, stopped, sigterm, output, receiver,
                 files>>

StageWrite(k) ==
  /\ ~off
  /\ proc[k] \in {"running", "gpu"} /\ output[k] = "none"
  /\ output' = [output EXCEPT ![k] = "partial"]
  /\ UNCHANGED <<pc, locals, now, off, stopped, sigterm, proc, receiver, files>>

\* Evidence complete and exit code zero; a GPU stage has computed by then.
StageFinish(k) ==
  /\ ~off
  /\ proc[k] = IF k \in GpuStages THEN "gpu" ELSE "running"
  /\ output[k] = "partial"
  /\ output' = [output EXCEPT ![k] = "final"]
  /\ proc' = [proc EXCEPT ![k] = "ok"]
  /\ UNCHANGED <<pc, locals, now, off, stopped, sigterm, receiver, files>>

\* Any exception, budget() past the deadline included.
StageFail(k) ==
  /\ ~off
  /\ proc[k] \in Live
  /\ proc' = [proc EXCEPT ![k] = "failed"]
  /\ UNCHANGED <<pc, locals, now, off, stopped, sigterm, output, receiver,
                 files>>

-----------------------------------------------------------------------------
(* receive_iris_from_wsl.sh: one attempt, any command of which may fail.   *)

Fetch ==
  /\ ~off
  /\ receiver = "idle" /\ packageJson
  /\ receiver' = "fetched"
  /\ UNCHANGED <<pc, locals, now, off, stopped, sigterm, proc, output, files>>

\* Wrong on purpose: the extracted files are not hashed.
UnpackedOnly == archive # {}

FilesMatch == archive = manifest

\* extract(): the hash of every extracted file against the manifest.
Extract ==
  /\ ~off
  /\ receiver = "fetched"
  /\ receiver' = IF FilesMatch THEN "verified" ELSE "failed"
  /\ UNCHANGED <<pc, locals, now, off, stopped, sigterm, proc, output, files>>

\* The receipt is moved into the job directory if there is none.
Deliver ==
  /\ ~off
  /\ receiver = "verified" /\ receipt = {}
  /\ receipt' = manifest
  /\ receiver' = "delivered"
  /\ UNCHANGED <<pc, locals, now, off, stopped, sigterm, proc, output,
                 activeChild, done, workerExited, manifest, archive,
                 packageJson, request>>

TransferFails ==
  /\ ~off
  /\ receiver \in {"idle", "fetched", "verified"}
  /\ receiver' = "failed"
  /\ UNCHANGED <<pc, locals, now, off, stopped, sigterm, proc, output, files>>

-----------------------------------------------------------------------------
\* No comparison of the code tells the clock apart past ShutdownDeadline.
Tick ==
  /\ ~off
  /\ now < ShutdownDeadline
  /\ now' = now + 1
  /\ UNCHANGED <<pc, locals, off, stopped, sigterm, proc, output, receiver,
                 files>>

Crash(p) ==
  /\ ~off
  /\ p \in Crashable /\ Active(p)
  /\ \A q \in Actors : pc[q] # "crashed"
  /\ Goto(p, "crashed")
  /\ UNCHANGED <<locals, world, files>>

Init ==
  /\ now = 0 /\ off = FALSE
  /\ pc = [p \in Actors |-> IF p = "sup" THEN "launch" ELSE "off"]
  /\ stage = 0 /\ child = 0 /\ identity = 0
  /\ completed = {} /\ failed = FALSE /\ stop = 0
  /\ stopped = FALSE /\ sigterm = FALSE
  /\ proc = [k \in Stages |-> "none"]
  /\ output = [k \in Stages |-> "none"]
  /\ activeChild = 0 /\ done = {}
  /\ workerExited = [present |-> FALSE, whole |-> FALSE, completed |-> {},
                     error |-> FALSE]
  /\ manifest = {} /\ archive = {} /\ packageJson = FALSE
  /\ receipt = {} /\ request = "none"
  /\ receiver = "idle"

Supervise ==
  \/ LaunchWatchdog \/ RecordWatchdog \/ Admit \/ NextStage \/ Popen
  \/ AssignChild \/ IdentifyChild \/ PublishChild \/ Poll \/ SaveDone
  \/ AppendCompleted \/ StopChild \/ OpenExited \/ SaveExited \/ HashFiles
  \/ WriteArchive \/ SavePackage \/ AwaitReceipt \/ TakeSignal

Watch == WatchTurn \/ WatchTerminate \/ WatchSignal

PowerDown(p) ==
  RequestExists(p) \/ ShutdownGuard(p) \/ SaveRequest(p) \/ Exec(p)

RunStage(k) ==
  \/ StageReadClock(k) \/ StageReadEvidence(k) \/ StageFindWatchdog(k)
  \/ StageUseGpu(k) \/ StageWrite(k) \/ StageFinish(k) \/ StageFail(k)

Receive == Fetch \/ Extract \/ Deliver \/ TransferFails

Next ==
  \/ Supervise
  \/ MemoryExceeded
  \/ Watch
  \/ \E p \in Actors : PowerDown(p) \/ ForeignWork(p) \/ Crash(p)
  \/ \E k \in Stages : RunStage(k)
  \/ Receive
  \/ Tick

(***************************************************************************)
(* The operating system runs both processes and time passes.  Nothing is   *)
(* assumed of the stages, of the receiver or of the memory a stage takes.  *)
(***************************************************************************)
Fairness ==
  /\ WF_vars(Supervise)
  /\ WF_vars(Watch)
  /\ \A p \in Actors : WF_vars(PowerDown(p))
  /\ WF_vars(Tick)

Spec == Init /\ [][Next]_vars /\ Fairness

-----------------------------------------------------------------------------
(* Properties.                                                             *)

FileStates == [Stages -> {"none", "partial", "final"}]

PcValues == {"off", "except"} \cup Before \cup Try \cup Finally
              \cup Watching \cup Halted

\* The values every variable ranges over.
TypeOK ==
  /\ now \in 0..ShutdownDeadline /\ off \in BOOLEAN
  /\ pc \in [Actors -> PcValues]
  /\ stage \in 0..(NStages + 1)
  /\ child \in 0..NStages /\ identity \in 0..NStages
  /\ completed \subseteq Stages /\ failed \in BOOLEAN
  /\ stop \in 0..ShutdownDeadline
  /\ stopped \in BOOLEAN /\ sigterm \in BOOLEAN
  /\ proc \in [Stages -> {"none"} \cup Live \cup Ended]
  /\ output \in FileStates
  /\ activeChild \in 0..NStages /\ done \subseteq Stages
  /\ workerExited \in [present : BOOLEAN, whole : BOOLEAN,
                       completed : SUBSET Stages, error : BOOLEAN]
  /\ manifest \subseteq FileStates /\ archive \subseteq FileStates
  /\ receipt \subseteq FileStates /\ packageJson \in BOOLEAN
  /\ request \in {"none"} \cup Actors
  /\ receiver \in {"idle", "fetched", "verified", "delivered", "failed"}

\* Supervisor and watchdog may reach shutdown() together; only the one whose
\* name is in shutdown-request.json goes on to power the instance off.
OneShutdown ==
  \A p \in Actors : pc[p] = "exec" => request = p

\* worker-exited.json tells the truth whatever cut the run short: the stages
\* it lists left done.json and complete evidence, and it reports no error
\* only when every registered stage did.
ReportIsTrue ==
  workerExited.whole =>
    /\ workerExited.completed \subseteq done
    /\ \A k \in done : proc[k] = "ok" /\ output[k] = "final"
    /\ ~workerExited.error => done = Stages

\* Stages share one GPU and one memory budget and read each other's evidence:
\* a stage at work has complete evidence of all before it and is alone, even
\* when signals, crashes and failures cut in anywhere.
StagesInOrder ==
  \A k \in Stages : proc[k] \in {"running", "gpu"} =>
     /\ \A j \in 1..(k-1) : output[j] = "final"
     /\ \A j \in Stages \ {k} : proc[j] \notin Live

\* A stage process that the supervisor lost between fork and assignment goes
\* nowhere once the watchdog has stopped the run or the supervisor has begun
\* to report its end, unless it had read its clock before: the deadline keeps
\* every later starter out, and one that read the clock in time may go on.
NoLateAdmission ==
  [][\A k \in Stages :
       (workerExited.present \/ stopped) /\ proc[k] = "starting"
         => proc'[k] \in {"starting", "failed", "killed"}]_vars

\* As long as the watchdog did not have to interfere, the supervisor reports
\* its end only when no stage process is left.
ExitLeavesNoStage ==
  workerExited.present /\ ~stopped => \A k \in Stages : proc[k] \notin Live

\* A receipt vouches for the packaged files, also when a lost stage process
\* was writing while the package was made.
ReceiptIsExact ==
  receipt # {} => receipt = manifest /\ archive = manifest

\* The decision to power off is taken or was refused by its guard.
Decided == request # "none" \/ \E p \in Actors : pc[p] = "refused"

\* Ended by the system, or by an exception that nothing catches: an error of
\* a write or a call, or the watchdog's signal in the finally block.
Died(p) == pc[p] \in {"crashed", "raised"}

\* Once the watchdog runs, the decision is reached unless both processes die:
\* neither a kill, an error or a late signal of one of them, nor a settled
\* look of one at the other's files, leaves the instance undecided.
OneDecides == pc["wd"] = "loop" ~> Decided \/ \A p \in Actors : Died(p)

\* tests/test_iris_furnace.py names it for the watchdog: the transfer of a
\* worker that has exited is preserved, no signal reaches it.
TransferPreserved ==
  [][sigterm' /\ ~sigterm => ~workerExited.present]_vars

-----------------------------------------------------------------------------
(* The supervised run implements the campaign of IrisCampaign.             *)
Campaign == INSTANCE IrisCampaign WITH
  complete <- {k \in Stages : output[k] = "final"},
  working  <- {k \in Stages : proc[k] \in Live},
  lost     <- {k \in Stages : proc[k] \in {"failed", "killed"}},
  verdict  <- IF ~workerExited.whole THEN "open"
              ELSE IF workerExited.error THEN "failed" ELSE "passed",
  delivered <- receipt # {}

\* Every behaviour of the two processes, the stages and the receiver is a
\* behaviour of the abstract campaign.
ImplementsCampaign == Campaign!Spec

=============================================================================
