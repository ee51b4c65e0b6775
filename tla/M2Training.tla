----------------------------- MODULE M2Training -----------------------------
(***************************************************************************)
(* The training stage of M2, train() in scripts/train_m2.py: epochs that   *)
(* are reported and, when due, saved under create-only names, and the runs *)
(* of one run id that follow each other, each started afresh or resumed    *)
(* from a checkpoint, with or without --stop-after-epoch, and each ended   *)
(* at any statement by an exception or a signal.  What an epoch computes   *)
(* is its validation metric, which may differ when the epoch is repeated.  *)
(***************************************************************************)
EXTENDS Naturals

CONSTANTS
  MaxEpochs,  \* maximum_epochs
  Patience,   \* early_stopping_patience
  Every,      \* checkpoint_every_epochs
  Metrics,    \* values of the primary metric
  MaxRuns     \* bound on the processes that are started

ASSUME TrainingAssumption ==
  /\ MaxEpochs \in Nat \ {0} /\ Patience \in Nat \ {0} /\ Every \in Nat \ {0}
  /\ Metrics \subseteq Nat /\ Metrics # {}
  /\ MaxRuns \in Nat

Epochs == 1..MaxEpochs

VARIABLES
  \* the disk
  roots,       \* directories made: "checkpoints", "metrics"
  report,      \* epoch-NNN.json of each epoch
  checkpoint,  \* epoch-NNN.pt of each epoch
  manifest,    \* training_manifest.json
  \* the process
  pc,
  target,      \* target_epoch
  epoch,
  value,       \* validation metric of the epoch
  progress,    \* best_epoch, best_value, stale_epochs
  \* the user
  runs,        \* processes started
  outcome      \* how the last one ended

disk == <<roots, report, checkpoint, manifest>>
locals == <<target, epoch, value, progress>>
vars == <<disk, pc, locals, runs, outcome>>

Absent == [file |-> "absent"]
Torn == [file |-> "torn"]     \* created, the text not yet complete
Complete(content) == [file |-> "complete", content |-> content]

\* best = 0 stands for best_value = inf.
Untrained == [best |-> 0, bestValue |-> 0, stale |-> 0]

\* What a report and a checkpoint say of the epoch.
Result == [value |-> value, best |-> progress.best,
           bestValue |-> progress.bestValue, stale |-> progress.stale]

EndsWith(how) == pc' = "idle" /\ outcome' = how

-----------------------------------------------------------------------------
(* The head of train()                                                     *)

\* Without --resume.
StartFresh ==
  /\ pc = "idle" /\ runs < MaxRuns
  /\ runs' = runs + 1
  /\ target' \in Epochs
  /\ epoch' = 1 /\ progress' = Untrained
  /\ pc' = "mkdir" /\ outcome' = "none"
  /\ UNCHANGED <<disk, value>>

\* mkdir(exist_ok=False), twice.
MakeRoots ==
  /\ pc = "mkdir"
  /\ \/ /\ "checkpoints" \in roots /\ EndsWith("exists")
        /\ UNCHANGED roots
     \/ /\ "checkpoints" \notin roots
        /\ roots' = roots \cup {"checkpoints"}
        /\ pc' = "mkmetrics" /\ UNCHANGED outcome
  /\ UNCHANGED <<report, checkpoint, manifest, locals, runs>>

MakeMetricRoot ==
  /\ pc = "mkmetrics"
  /\ roots' = roots \cup {"metrics"}
  /\ pc' = "train"
  /\ UNCHANGED <<report, checkpoint, manifest, locals, runs, outcome>>

\* Wrong on purpose: the best of the earlier process is forgotten.
RestoredAfresh(result) == Untrained
Restored(result) ==
  [best |-> result.best, bestValue |-> result.bestValue, stale |-> result.stale]

StartResumed(e) ==
  /\ pc = "idle" /\ runs < MaxRuns
  /\ checkpoint[e] # Absent
  /\ runs' = runs + 1
  /\ target' \in Epochs
  /\ epoch' = e + 1 /\ progress' = Restored(checkpoint[e].content)
  /\ IF e + 1 > target' THEN EndsWith("beyond") ELSE pc' = "train" /\ outcome' = "none"
  /\ UNCHANGED <<disk, value>>

-----------------------------------------------------------------------------
(* The loop over the epochs                                                *)

\* Wrong on purpose: an equal value counts as better.
ImprovedOrEqual(v) == progress.best = 0 \/ v <= progress.bestValue
Improved(v) == progress.best = 0 \/ v < progress.bestValue

Train ==
  /\ pc = "train"
  /\ \E v \in Metrics :
       /\ value' = v
       /\ progress' = IF Improved(v)
                      THEN [best |-> epoch, bestValue |-> v, stale |-> 0]
                      ELSE [progress EXCEPT !.stale = @ + 1]
  /\ pc' = "report"
  /\ UNCHANGED <<disk, target, epoch, runs, outcome>>

\* create_json() writes a file that is missing and otherwise compares.
Missing(file) == file = Absent

CreateReport ==
  /\ pc = "report" /\ Missing(report[epoch])
  /\ report' = [report EXCEPT ![epoch] = Torn]
  /\ pc' = "dump"
  /\ UNCHANGED <<roots, checkpoint, manifest, locals, runs, outcome>>

FillReport ==
  /\ pc = "dump"
  /\ report' = [report EXCEPT ![epoch] = Complete(Result)]
  /\ pc' = "save"
  /\ UNCHANGED <<roots, checkpoint, manifest, locals, runs, outcome>>

\* A torn file is no JSON, another content is refused.
CompareReport ==
  /\ pc = "report" /\ ~ Missing(report[epoch])
  /\ IF report[epoch] = Complete(Result)
     THEN pc' = "save" /\ UNCHANGED outcome
     ELSE EndsWith("conflict")
  /\ UNCHANGED <<disk, locals, runs>>

OutOfPatience == progress.stale >= Patience
Terminal == epoch = target \/ OutOfPatience

\* _checkpoint_due()
Due == progress.best = epoch \/ Terminal \/ epoch % Every = 0

\* save_tensor_shard(): a complete file gets its name at once, or none.
Save ==
  /\ pc = "save"
  /\ IF Due /\ checkpoint[epoch] # Absent THEN EndsWith("conflict")
     ELSE pc' = "next" /\ UNCHANGED outcome
  /\ checkpoint' = IF Due /\ checkpoint[epoch] = Absent
                   THEN [checkpoint EXCEPT ![epoch] = Complete(Result)]
                   ELSE checkpoint
  /\ UNCHANGED <<roots, report, manifest, locals, runs>>

\* Wrong on purpose: one epoch too many.
MoreAtTarget == epoch <= target
More == epoch < target

NextEpoch ==
  /\ pc = "next"
  /\ IF More /\ ~ OutOfPatience
     THEN pc' = "train" /\ epoch' = epoch + 1
     ELSE pc' = "finish" /\ UNCHANGED epoch
  /\ UNCHANGED <<disk, target, value, progress, runs, outcome>>

-----------------------------------------------------------------------------
(* The end of train()                                                      *)

\* The intended stop before maximum_epochs, which writes no manifest.
StopPartial ==
  /\ pc = "finish" /\ epoch < MaxEpochs /\ ~ OutOfPatience
  /\ EndsWith("partial")
  /\ UNCHANGED <<disk, locals, runs>>

LoadBest ==
  /\ pc = "finish" /\ (epoch = MaxEpochs \/ OutOfPatience)
  /\ IF checkpoint[progress.best] # Absent
     THEN pc' = "manifest" /\ UNCHANGED outcome ELSE EndsWith("missing")
  /\ UNCHANGED <<disk, locals, runs>>

Summary == [completed |-> epoch, best |-> progress.best,
            bestValue |-> progress.bestValue]

CreateManifest ==
  /\ pc = "manifest" /\ Missing(manifest)
  /\ manifest' = Torn
  /\ pc' = "seal"
  /\ UNCHANGED <<roots, report, checkpoint, locals, runs, outcome>>

FillManifest ==
  /\ pc = "seal"
  /\ manifest' = Complete(Summary)
  /\ EndsWith("complete")
  /\ UNCHANGED <<roots, report, checkpoint, locals, runs>>

CompareManifest ==
  /\ pc = "manifest" /\ ~ Missing(manifest)
  /\ EndsWith(IF manifest = Complete(Summary) THEN "complete" ELSE "conflict")
  /\ UNCHANGED <<disk, locals, runs>>

\* A signal, or any exception of an epoch.
Kill ==
  /\ pc # "idle"
  /\ EndsWith("killed")
  /\ UNCHANGED <<disk, locals, runs>>

-----------------------------------------------------------------------------
Init ==
  /\ roots = {} /\ manifest = Absent
  /\ report = [e \in Epochs |-> Absent] /\ checkpoint = [e \in Epochs |-> Absent]
  /\ pc = "idle" /\ target = 1 /\ epoch = 1 /\ value \in Metrics
  /\ progress = Untrained /\ runs = 0 /\ outcome = "none"

Next ==
  \/ StartFresh \/ \E e \in Epochs : StartResumed(e)
  \/ MakeRoots \/ MakeMetricRoot
  \/ Train \/ CreateReport \/ FillReport \/ CompareReport \/ Save \/ NextEpoch
  \/ StopPartial \/ LoadBest \/ CreateManifest \/ FillManifest \/ CompareManifest
  \/ Kill

Spec == Init /\ [][Next]_vars

-----------------------------------------------------------------------------
Reported(e) == report[e].file = "complete"
Saved(e) == checkpoint[e].file = "complete"

Results == [value : Metrics, best : Epochs, bestValue : Metrics, stale : 0..MaxEpochs]

\* Every file and variable has its type; a process is always within the epochs
\* it was asked for.
TypeOK ==
  /\ roots \subseteq {"checkpoints", "metrics"}
  /\ report \in [Epochs -> {Absent, Torn} \cup {Complete(r) : r \in Results}]
  /\ checkpoint \in [Epochs -> {Absent} \cup {Complete(r) : r \in Results}]
  /\ manifest \in {Absent, Torn} \cup
       {Complete(m) : m \in [completed : Epochs, best : Epochs, bestValue : Metrics]}
  /\ pc \in {"idle", "mkdir", "mkmetrics", "train", "report", "dump", "save", "next",
            "finish", "manifest", "seal"}
  /\ target \in Epochs /\ value \in Metrics
  /\ epoch \in 1..(MaxEpochs + 1) /\ (pc # "idle" => epoch <= target)
  /\ progress \in [best : 0..MaxEpochs, bestValue : Metrics \cup {0}, stale : 0..MaxEpochs]
  /\ runs \in 0..MaxRuns
  /\ outcome \in {"none", "exists", "beyond", "conflict", "partial", "missing",
                 "complete", "killed"}

\* b is the first epoch with the smallest value v of the reports up to e.
FirstBest(b, v, e) ==
  /\ b \in 1..e /\ report[b].content.value = v
  /\ \A k \in 1..e : IF k < b THEN report[k].content.value > v
                     ELSE report[k].content.value >= v

\* A checkpoint rests on complete reports of all epochs up to its own and
\* names their first best, whatever earlier processes and repeated epochs came
\* to: no history of kills and resumes mixes two lines of training.  That best
\* epoch has its own checkpoint, which the end of train() loads ("Keep periodic,
\* best, and resumable terminal checkpoints").
ChainIsOne ==
  \A e \in Epochs : Saved(e) =>
    /\ \A k \in 1..e : Reported(k)
    /\ FirstBest(checkpoint[e].content.best, checkpoint[e].content.bestValue, e)
    /\ checkpoint[e].content.stale = e - checkpoint[e].content.best
    /\ Saved(checkpoint[e].content.best)

\* The manifest names the first best of complete reports, and training had
\* reached its last epoch or run out of patience.
ManifestIsTrue ==
  manifest.file = "complete" =>
    LET m == manifest.content
    IN  /\ \A k \in 1..m.completed : Reported(k)
        /\ FirstBest(m.best, m.bestValue, m.completed)
        /\ Saved(m.best) /\ Saved(m.completed)
        /\ m.completed = MaxEpochs \/ report[m.completed].content.stale >= Patience

\* "Keep periodic, best, and resumable terminal checkpoints": a run that has
\* no manifest yet can be resumed towards maximum_epochs from any checkpoint.
TerminalResumes ==
  outcome = "beyond" /\ target = MaxEpochs => manifest.file = "complete"

=============================================================================
