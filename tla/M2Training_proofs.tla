-------------------------- MODULE M2Training_proofs --------------------------
(***************************************************************************)
(* Proofs about M2Training, for any number of epochs and processes, any    *)
(* patience, checkpoint rhythm and metric.  The argument: what a process   *)
(* holds in memory describes the complete reports on the disk, complete    *)
(* files never change, and so does what a checkpoint handed to a process.  *)
(***************************************************************************)
EXTENDS M2Training, TLAPS

-----------------------------------------------------------------------------
(* The inductive invariant.                                                *)

\* p is the state of the training that the reports up to n came from.
Seen(p, n) ==
  /\ \A k \in 1..n : Reported(k)
  /\ FirstBest(p.best, p.bestValue, n)
  /\ p.stale = n - p.best

\* The same with the epoch whose value is not reported yet.
Pending ==
  /\ \A k \in 1..(epoch - 1) : Reported(k)
  /\ progress.best \in 1..epoch /\ progress.stale = epoch - progress.best
  /\ progress.best = epoch =>
       /\ progress.bestValue = value
       /\ \A k \in 1..(epoch - 1) : report[k].content.value > value
  /\ progress.best # epoch =>
       /\ FirstBest(progress.best, progress.bestValue, epoch - 1)
       /\ value >= progress.bestValue
       /\ Saved(progress.best)

\* What the process at each statement of train() holds.
Process ==
  /\ pc \in {"mkdir", "mkmetrics"} => epoch = 1 /\ progress = Untrained
  /\ pc = "train" => IF epoch = 1 THEN progress = Untrained
                     ELSE Seen(progress, epoch - 1) /\ Saved(progress.best)
  /\ pc \in {"report", "dump"} => Pending
  /\ pc = "dump" => report[epoch] = Torn
  /\ pc \in {"save", "next", "finish", "manifest", "seal"} =>
       /\ Seen(progress, epoch) /\ report[epoch].content.stale = progress.stale
       /\ progress.best # epoch => Saved(progress.best)
  /\ pc \in {"next", "finish", "manifest", "seal"} =>
       Saved(progress.best) /\ (Terminal => Saved(epoch))
  /\ pc \in {"finish", "manifest", "seal"} => Terminal
  /\ pc \in {"manifest", "seal"} => epoch = MaxEpochs \/ OutOfPatience

IInv == TypeOK /\ ChainIsOne /\ ManifestIsTrue /\ Process

-----------------------------------------------------------------------------
(* Files.                                                                  *)

LEMMA Files ==
  /\ Absent.file = "absent" /\ Torn.file = "torn" /\ Absent # Torn
  /\ \A c : /\ Complete(c).file = "complete" /\ Complete(c).content = c
            /\ Complete(c) # Absent /\ Complete(c) # Torn
            /\ \A d : Complete(c) = Complete(d) => c = d
BY DEF Absent, Torn, Complete

LEMMA FileTypes ==
  ASSUME TypeOK
  PROVE  /\ \A e \in Epochs : /\ Reported(e) => report[e].content \in Results
                              /\ Saved(e) => checkpoint[e].content \in Results
                              /\ Saved(e) <=> checkpoint[e] # Absent
         /\ manifest.file # "complete" <=> manifest \in {Absent, Torn}
BY Files DEF TypeOK, Reported, Saved

\* A complete file never changes, except that of a manifest that is sealed.
Grows ==
  \A e \in Epochs : /\ Reported(e) => report'[e] = report[e]
                    /\ Saved(e) => checkpoint'[e] = checkpoint[e]

LEMMA Lasts ==
  ASSUME Grows, NEW n \in 0..MaxEpochs, \A k \in 1..n : Reported(k)
  PROVE  /\ \A k \in 1..n : Reported(k)' /\ report'[k] = report[k]
         /\ \A b, v : FirstBest(b, v, n) => FirstBest(b, v, n)'
         /\ \A p : Seen(p, n) => Seen(p, n)'
         /\ \A e \in Epochs : Saved(e) => Saved(e)'
<1>1. \A k \in 1..n : k \in Epochs
  BY TrainingAssumption DEF Epochs
<1>2. \A k \in 1..n : Reported(k)' /\ report'[k] = report[k]
  BY <1>1 DEF Grows, Reported
<1>3. \A b, v : FirstBest(b, v, n) => FirstBest(b, v, n)'
  BY <1>2 DEF FirstBest
<1>4. \A p : Seen(p, n) => Seen(p, n)'
  BY <1>2, <1>3 DEF Seen
<1> QED BY <1>2, <1>3, <1>4 DEF Grows, Saved

\* So a chain of checkpoints stays one, with the checkpoint that is added.
LEMMA ChainLasts ==
  ASSUME IInv, Grows,
         \A e \in Epochs : Saved(e)' /\ ~ Saved(e) =>
            (Seen(checkpoint[e].content, e) /\ Saved(checkpoint[e].content.best))'
  PROVE  ChainIsOne'
<1> SUFFICES ASSUME NEW e \in Epochs, Saved(e)'
             PROVE  (Seen(checkpoint[e].content, e) /\ Saved(checkpoint[e].content.best))'
  BY DEF ChainIsOne, Seen
<1>1. CASE Saved(e)
  <2>1. /\ Seen(checkpoint[e].content, e) /\ Saved(checkpoint[e].content.best)
        /\ checkpoint'[e] = checkpoint[e]
    BY <1>1 DEF IInv, ChainIsOne, Grows, Seen
  <2>2. e \in 0..MaxEpochs /\ \A k \in 1..e : Reported(k)
    BY <2>1, TrainingAssumption DEF Epochs, Seen
  <2>3. checkpoint[e].content.best \in Epochs
    BY <1>1, FileTypes DEF IInv, Results
  <2> QED BY <2>1, <2>2, <2>3, Lasts
<1> QED BY <1>1

LEMMA ManifestLasts ==
  ASSUME IInv, Grows, manifest' = manifest
  PROVE  ManifestIsTrue'
<1> SUFFICES ASSUME manifest.file = "complete" PROVE ManifestIsTrue'
  BY DEF ManifestIsTrue
<1>0. PICK m : m = manifest.content
  OBVIOUS
<1>1. /\ \A k \in 1..m.completed : Reported(k)
      /\ FirstBest(m.best, m.bestValue, m.completed)
      /\ Saved(m.best) /\ Saved(m.completed)
      /\ m.completed = MaxEpochs \/ report[m.completed].content.stale >= Patience
  BY <1>0 DEF IInv, ManifestIsTrue
<1>2. m.completed \in Epochs /\ m.best \in Epochs
  BY <1>0, Files DEF IInv, TypeOK
<1>3. m.completed \in 0..MaxEpochs /\ m.completed \in 1..m.completed
  BY <1>2, TrainingAssumption DEF Epochs
<1>4. /\ \A k \in 1..m.completed : Reported(k)'
      /\ FirstBest(m.best, m.bestValue, m.completed)'
      /\ Saved(m.best)' /\ Saved(m.completed)'
      /\ report'[m.completed] = report[m.completed]
  BY <1>1, <1>2, <1>3, Lasts
<1> QED BY <1>0, <1>1, <1>4 DEF ManifestIsTrue

-----------------------------------------------------------------------------
(* The head of train().                                                    *)

\* Without a new file the chain and the manifest are what they were.
LEMMA DiskKept ==
  ASSUME IInv, UNCHANGED disk
  PROVE  Grows /\ ChainIsOne' /\ ManifestIsTrue'
BY DEF IInv, disk, Grows, ChainIsOne, ManifestIsTrue, FirstBest, Reported, Saved

LEMMA StartFreshKeeps ==
  ASSUME IInv, StartFresh
  PROVE  IInv'
<1> USE TrainingAssumption DEF Epochs
<1>1. TypeOK'
  BY DEF IInv, TypeOK, StartFresh, disk, Untrained
<1>2. Process'
  BY DEF StartFresh, Process
<1>3. ChainIsOne' /\ ManifestIsTrue'
  BY DiskKept DEF StartFresh
<1> QED BY <1>1, <1>2, <1>3 DEF IInv

LEMMA RootsKeep ==
  ASSUME IInv, MakeRoots \/ MakeMetricRoot
  PROVE  IInv'
<1> USE TrainingAssumption
<1>1. TypeOK'
  BY DEF IInv, TypeOK, MakeRoots, MakeMetricRoot, EndsWith, locals
<1>2. Process'
  BY DEF IInv, Process, MakeRoots, MakeMetricRoot, EndsWith, locals
<1>3. Grows /\ manifest' = manifest /\ checkpoint' = checkpoint
  BY DEF MakeRoots, MakeMetricRoot, Grows
<1>4. ChainIsOne' /\ ManifestIsTrue'
  BY <1>3, ChainLasts, ManifestLasts DEF Saved
<1> QED BY <1>1, <1>2, <1>4 DEF IInv

\* The checkpoint that is resumed describes the reports up to its epoch.
LEMMA StartResumedKeeps ==
  ASSUME IInv, NEW e \in Epochs, StartResumed(e)
  PROVE  IInv'
<1>1. /\ Saved(e) /\ checkpoint[e].content \in Results
      /\ Seen(checkpoint[e].content, e) /\ Saved(checkpoint[e].content.best)
  BY FileTypes DEF IInv, ChainIsOne, StartResumed, Seen
<1> DEFINE r == Restored(checkpoint[e].content)
<1>2. /\ r \in [best : 0..MaxEpochs, bestValue : Metrics \cup {0}, stale : 0..MaxEpochs]
      /\ Seen(r, e) /\ Saved(r.best)
  BY <1>1, TrainingAssumption DEF Restored, Results, Epochs, Seen
<1> HIDE DEF r
<1>3. /\ progress' = r /\ epoch' = e + 1 /\ target' \in Epochs
      /\ runs' = runs + 1 /\ runs < MaxRuns /\ UNCHANGED <<disk, value>>
      /\ \/ pc' = "idle" /\ outcome' = "beyond"
         \/ pc' = "train" /\ outcome' = "none" /\ epoch' <= target'
  BY DEF StartResumed, EndsWith, r, Epochs
<1>4. TypeOK'
  BY <1>2, <1>3, TrainingAssumption DEF IInv, TypeOK, disk, Epochs
<1>5. Process'
  <2>1. (Seen(progress, e) /\ Saved(progress.best))'
    BY <1>2, <1>3 DEF disk, Seen, FirstBest, Reported, Saved
  <2>2. epoch' - 1 = e /\ epoch' # 1
    BY <1>3 DEF Epochs
  <2>3. (Seen(progress, epoch - 1) /\ Saved(progress.best))'
    BY <2>1, <2>2 DEF Seen, FirstBest
  <2> QED BY <1>3, <2>2, <2>3 DEF Process
<1>6. ChainIsOne' /\ ManifestIsTrue'
  BY <1>3, DiskKept
<1> QED BY <1>4, <1>5, <1>6 DEF IInv

-----------------------------------------------------------------------------
(* An epoch.                                                               *)

\* Values can be compared.
LEMMA Values ==
  ASSUME TypeOK
  PROVE  /\ Metrics \subseteq Nat /\ value \in Nat /\ progress.bestValue \in Nat
         /\ \A e \in Epochs : Reported(e) => report[e].content.value \in Nat
<1>1. \A v \in Metrics \cup {0} : v \in Nat
  BY TrainingAssumption
<1>2. value \in Metrics /\ progress.bestValue \in Metrics \cup {0}
  BY DEF TypeOK
<1>3. \A e \in Epochs : Reported(e) => report[e].content.value \in Metrics
  BY FileTypes DEF Results
<1> QED BY <1>1, <1>2, <1>3

LEMMA TrainKeeps ==
  ASSUME IInv, Train
  PROVE  IInv'
<1>1. /\ pc = "train" /\ epoch \in 1..MaxEpochs /\ target \in Epochs /\ epoch <= target
      /\ IF epoch = 1 THEN progress = Untrained
         ELSE Seen(progress, epoch - 1) /\ Saved(progress.best)
  BY TrainingAssumption DEF Train, IInv, TypeOK, Process, Epochs
<1>2. PICK v \in Metrics :
        /\ value' = v
        /\ progress' = IF Improved(v)
                       THEN [best |-> epoch, bestValue |-> v, stale |-> 0]
                       ELSE [progress EXCEPT !.stale = @ + 1]
  BY DEF Train
<1>3. /\ pc' = "report" /\ UNCHANGED <<disk, target, epoch, runs, outcome>>
      /\ progress \in [best : 0..MaxEpochs, bestValue : Metrics \cup {0}, stale : 0..MaxEpochs]
      /\ v \in Nat
  BY TrainingAssumption DEF Train, IInv, TypeOK
<1>4. CASE Improved(v)
  <2>1. progress' = [best |-> epoch, bestValue |-> v, stale |-> 0]
    BY <1>2, <1>4
  <2>2. \A k \in 1..(epoch - 1) : Reported(k) /\ report[k].content.value > v
    <3>1. CASE epoch = 1
      BY <3>1
    <3>2. CASE epoch # 1
      <4>1. /\ \A k \in 1..(epoch - 1) : Reported(k)
            /\ FirstBest(progress.best, progress.bestValue, epoch - 1)
        BY <1>1, <3>2 DEF Seen
      <4>2. progress.best # 0 /\ v < progress.bestValue
        BY <1>1, <1>4, <4>1 DEF FirstBest, Improved
      <4>3. \A k \in 1..(epoch - 1) : report[k].content.value \in Nat
        BY <1>1, <4>1, Values, TrainingAssumption DEF IInv, Epochs
      <4>4. progress.bestValue \in Nat
        BY Values DEF IInv
      <4> QED BY <1>3, <4>1, <4>2, <4>3, <4>4 DEF FirstBest
    <3> QED BY <3>1, <3>2
  <2>3. Pending'
    BY <1>1, <1>2, <1>3, <2>1, <2>2 DEF Pending, disk, Reported
  <2>4. TypeOK'
    BY <1>1, <1>2, <1>3, <2>1, TrainingAssumption DEF IInv, TypeOK, disk, Epochs
  <2> QED BY <1>3, <2>3, <2>4, DiskKept DEF IInv, Process
<1>5. CASE ~ Improved(v)
  <2>1. /\ progress' = [progress EXCEPT !.stale = @ + 1]
        /\ progress'.best = progress.best /\ progress'.bestValue = progress.bestValue
        /\ progress'.stale = progress.stale + 1
    BY <1>2, <1>3, <1>5
  <2>2. epoch # 1 /\ v >= progress.bestValue
    <3>1. progress.best # 0 /\ ~ v < progress.bestValue
      BY <1>5 DEF Improved
    <3>2. epoch # 1
      BY <1>1, <3>1 DEF Untrained
    <3>3. progress.bestValue \in Nat /\ v \in Nat
      BY <1>3, Values DEF IInv
    <3> QED BY <3>1, <3>2, <3>3
  <2>3. /\ Seen(progress, epoch - 1) /\ Saved(progress.best)
        /\ progress.best \in 1..(epoch - 1) /\ progress.stale = epoch - 1 - progress.best
    BY <1>1, <2>2 DEF Seen, FirstBest
  <2>4. Pending'
    <3>1. progress'.best \in 1..epoch /\ progress'.stale = epoch - progress'.best
          /\ progress'.best # epoch
      BY <1>1, <2>1, <2>3
    <3>2. /\ \A k \in 1..(epoch - 1) : Reported(k)'
          /\ FirstBest(progress.best, progress.bestValue, epoch - 1)
          /\ Saved(progress.best)
      BY <1>3, <2>3 DEF Seen, Reported, disk
    <3>3. (FirstBest(progress.best, progress.bestValue, epoch - 1) /\ Saved(progress.best))'
      BY <1>3, <2>1, <3>2 DEF FirstBest, Saved, disk
    <3> QED BY <1>2, <1>3, <2>1, <2>2, <3>1, <3>2, <3>3 DEF Pending
  <2>5. TypeOK'
    <3>1. progress.stale + 1 \in 0..MaxEpochs
      BY <1>1, <2>3, TrainingAssumption
    <3>2. progress' \in [best : 0..MaxEpochs, bestValue : Metrics \cup {0}, stale : 0..MaxEpochs]
      BY <1>3, <2>1, <3>1
    <3> QED BY <1>1, <1>2, <1>3, <3>2, TrainingAssumption DEF IInv, TypeOK, disk, Epochs
  <2> QED BY <1>3, <2>4, <2>5, DiskKept DEF IInv, Process
<1> QED BY <1>4, <1>5

\* What a process holds of the epoch at work fits what it is to report.
LEMMA ResultTyped ==
  ASSUME TypeOK, epoch \in Epochs, Pending
  PROVE  Result \in Results
<1>1. progress.best \in Epochs /\ progress.stale \in 0..MaxEpochs
  BY TrainingAssumption DEF Pending, Epochs, TypeOK
<1>2. progress.bestValue \in Metrics
  <2>1. CASE progress.best = epoch
    BY <2>1 DEF Pending, TypeOK
  <2>2. CASE progress.best # epoch
    <3>1. /\ progress.best \in 1..(epoch - 1) /\ Reported(progress.best)
          /\ report[progress.best].content.value = progress.bestValue
      BY <2>2 DEF Pending, FirstBest
    <3> QED BY <1>1, <3>1, FileTypes DEF Results
  <2> QED BY <2>1, <2>2
<1>3. value \in Metrics
  BY DEF TypeOK
<1> QED BY <1>1, <1>2, <1>3 DEF Result, Results

LEMMA PendingLasts ==
  ASSUME IInv, Pending, epoch \in Epochs, Grows, UNCHANGED locals
  PROVE  Pending'
<1>1. epoch - 1 \in 0..MaxEpochs /\ progress.best \in Epochs
  BY TrainingAssumption DEF Epochs, Pending
<1>2. \A k \in 1..(epoch - 1) : Reported(k)
  BY DEF Pending
<1> PICK n \in 0..MaxEpochs : n = epoch - 1
  BY <1>1
<1>3. /\ \A k \in 1..n : Reported(k)' /\ report'[k] = report[k]
      /\ \A b, v : FirstBest(b, v, n) => FirstBest(b, v, n)'
  BY <1>2, Lasts
<1>4. Saved(progress.best) => checkpoint'[progress.best] = checkpoint[progress.best]
  BY <1>1 DEF Grows
<1>5. UNCHANGED <<epoch, value, progress>>
  BY DEF locals
<1> QED BY <1>2, <1>3, <1>4, <1>5 DEF Pending, FirstBest, Saved

LEMMA PendingReported ==
  ASSUME IInv, epoch \in Epochs, Pending, Grows, UNCHANGED locals,
         report'[epoch] = Complete(Result)
  PROVE  (/\ Seen(progress, epoch) /\ report[epoch].content.stale = progress.stale
          /\ progress.best # epoch => Saved(progress.best))'
<1>1. UNCHANGED <<epoch, value, progress>> /\ Pending'
  BY PendingLasts DEF locals
<1>2. /\ report'[epoch].file = "complete" /\ report'[epoch].content.value = value
      /\ report'[epoch].content.stale = progress.stale
  BY Files DEF Result
<1>3. \A k \in 1..epoch : report'[k].file = "complete" /\ report'[k].content.value \in Nat
  <2>1. \A k \in 1..(epoch - 1) : k \in Epochs /\ Reported(k) /\ report'[k] = report[k]
    BY TrainingAssumption DEF Pending, Grows, Epochs
  <2>2. \A k \in 1..epoch : k = epoch \/ k \in 1..(epoch - 1)
    BY TrainingAssumption DEF Epochs
  <2> QED BY <1>2, <2>1, <2>2, Values DEF IInv, Reported
<1>4. FirstBest(progress.best, progress.bestValue, epoch)'
  <2>1. CASE progress.best = epoch
    BY <1>1, <1>2, <1>3, <2>1, TrainingAssumption DEF Pending, FirstBest, Epochs
  <2>2. CASE progress.best # epoch
    BY <1>1, <1>2, <1>3, <2>2, TrainingAssumption DEF Pending, FirstBest, Epochs
  <2> QED BY <2>1, <2>2
<1>5. (progress.stale = epoch - progress.best /\ (progress.best # epoch => Saved(progress.best)))'
  BY <1>1 DEF Pending
<1> QED BY <1>1, <1>2, <1>3, <1>4, <1>5 DEF Seen, Reported

\* The report of an epoch is written once, so what it says is what the process
\* holds, or the process ends.
LEMMA CreateReportKeeps ==
  ASSUME IInv, CreateReport
  PROVE  IInv'
<1>1. /\ pc = "report" /\ epoch \in Epochs /\ report[epoch] = Absent
      /\ pc' = "dump" /\ UNCHANGED <<roots, checkpoint, manifest, locals, runs, outcome>>
      /\ report' = [report EXCEPT ![epoch] = Torn] /\ Pending
  BY TrainingAssumption DEF CreateReport, Missing, IInv, TypeOK, Process, Epochs
<1>2. TypeOK'
  BY <1>1 DEF IInv, TypeOK, locals
<1>3. Grows /\ \A e \in Epochs \ {epoch} : report'[e] = report[e]
  BY <1>1, Files DEF Grows, IInv, TypeOK, Reported
<1>4. Pending'
  BY <1>1, <1>3, PendingLasts
<1>5. report'[epoch] = Torn
  BY <1>1 DEF IInv, TypeOK
<1>6. Process'
  BY <1>1, <1>4, <1>5 DEF Process, locals
<1>7. ChainIsOne' /\ ManifestIsTrue'
  BY <1>1, <1>3, ChainLasts, ManifestLasts DEF Saved
<1> QED BY <1>2, <1>6, <1>7 DEF IInv

LEMMA FillReportKeeps ==
  ASSUME IInv, FillReport
  PROVE  IInv'
<1>1. /\ pc = "dump" /\ epoch \in Epochs /\ report[epoch] = Torn
      /\ pc' = "save" /\ UNCHANGED <<roots, checkpoint, manifest, locals, runs, outcome>>
      /\ report' = [report EXCEPT ![epoch] = Complete(Result)] /\ Pending
  BY TrainingAssumption DEF FillReport, IInv, TypeOK, Process, Epochs
<1>2. Grows /\ \A e \in Epochs \ {epoch} : report'[e] = report[e]
  BY <1>1, Files DEF Grows, IInv, TypeOK, Reported
<1>3. report'[epoch] = Complete(Result)
  BY <1>1 DEF IInv, TypeOK
<1>4. Pending'
  BY <1>1, <1>2, PendingLasts
<1>5. TypeOK'
  BY <1>1, ResultTyped DEF IInv, TypeOK, locals
<1>6. (/\ Seen(progress, epoch) /\ report[epoch].content.stale = progress.stale
       /\ progress.best # epoch => Saved(progress.best))'
  BY <1>1, <1>2, <1>3, PendingReported
<1>7. Process'
  BY <1>1, <1>6 DEF Process
<1>8. ChainIsOne' /\ ManifestIsTrue'
  BY <1>1, <1>2, ChainLasts, ManifestLasts DEF Saved
<1> QED BY <1>5, <1>7, <1>8 DEF IInv

\* A process that ends, whichever way, leaves the disk as it is.
LEMMA EndKeeps ==
  ASSUME IInv, NEW how, EndsWith(how), UNCHANGED <<disk, locals, runs>>,
         how \in {"exists", "beyond", "conflict", "partial", "missing",
                  "complete", "killed"}
  PROVE  IInv'
<1>1. TypeOK'
  BY DEF IInv, TypeOK, EndsWith, disk, locals
<1>2. Process'
  BY DEF Process, EndsWith
<1>3. ChainIsOne' /\ ManifestIsTrue'
  BY DiskKept
<1> QED BY <1>1, <1>2, <1>3 DEF IInv

\* What the process holds once the epoch is reported.
Holds ==
  /\ Seen(progress, epoch) /\ report[epoch].content.stale = progress.stale
  /\ progress.best # epoch => Saved(progress.best)

LEMMA CompareReportKeeps ==
  ASSUME IInv, CompareReport
  PROVE  IInv'
<1>1. /\ pc = "report" /\ epoch \in Epochs /\ Pending
      /\ UNCHANGED <<disk, locals, runs>>
  BY TrainingAssumption DEF CompareReport, IInv, TypeOK, Process, Epochs
<1>2. CASE report[epoch] = Complete(Result)
  <2>1. pc' = "save" /\ outcome' = outcome
    BY <1>2 DEF CompareReport
  <2>2. Grows /\ report'[epoch] = Complete(Result)
    BY <1>1, <1>2 DEF disk, Grows
  <2>3. (/\ Seen(progress, epoch) /\ report[epoch].content.stale = progress.stale
         /\ progress.best # epoch => Saved(progress.best))'
    BY <1>1, <2>2, PendingReported
  <2>4. TypeOK'
    BY <1>1, <2>1 DEF IInv, TypeOK, disk, locals
  <2> QED BY <1>1, <2>1, <2>3, <2>4, DiskKept DEF IInv, Process
<1>3. CASE report[epoch] # Complete(Result)
  BY <1>1, <1>3, EndKeeps DEF CompareReport
<1> QED BY <1>2, <1>3

\* A checkpoint is due when the epoch is the best so far or the last, and
\* names what its report says.
LEMMA SaveKeeps ==
  ASSUME IInv, Save
  PROVE  IInv'
<1>1. /\ pc = "save" /\ epoch \in Epochs /\ epoch <= target /\ Holds
      /\ UNCHANGED <<roots, report, manifest, locals, runs>>
  BY TrainingAssumption DEF Save, IInv, TypeOK, Process, Epochs, Holds
<1>2. CASE Due /\ checkpoint[epoch] # Absent
  BY <1>1, <1>2, EndKeeps DEF Save, disk
<1>3. CASE ~ (Due /\ checkpoint[epoch] # Absent)
  <2>1. /\ pc' = "next" /\ outcome' = outcome
        /\ checkpoint' = IF Due THEN [checkpoint EXCEPT ![epoch] = Complete(Result)]
                         ELSE checkpoint
    BY <1>3 DEF Save
  <2>2. /\ progress.best \in 1..epoch /\ Reported(progress.best)
        /\ report[progress.best].content.value = progress.bestValue
        /\ progress.stale = epoch - progress.best
    BY <1>1 DEF Holds, Seen, FirstBest
  <2>3. Result \in Results
    <3>1. progress.best \in Epochs /\ progress.stale \in 0..MaxEpochs
      BY <1>1, <2>2, TrainingAssumption DEF Epochs
    <3>2. progress.bestValue \in Metrics /\ value \in Metrics
      BY <2>2, <3>1, FileTypes DEF IInv, Results, TypeOK
    <3> QED BY <3>1, <3>2 DEF Result, Results
  <2>4. TypeOK'
    BY <1>1, <2>1, <2>3 DEF IInv, TypeOK, locals
  <2>5. /\ \A e \in Epochs \ {epoch} : checkpoint'[e] = checkpoint[e]
        /\ Due => checkpoint'[epoch] = Complete(Result)
        /\ ~ Due => checkpoint' = checkpoint
    BY <1>1, <2>1 DEF IInv, TypeOK
  <2>6. Grows
    BY <1>1, <1>3, <2>5, Files DEF Grows, Saved
  <2>7. /\ Due => Saved(epoch)'
        /\ Saved(progress.best) => Saved(progress.best)'
    BY <1>1, <2>2, <2>5, <2>6, Files, TrainingAssumption DEF Saved, Grows, Epochs, locals
  <2>8. (Holds /\ Saved(progress.best))'
    <3>1. UNCHANGED <<epoch, progress, report>>
      BY <1>1 DEF locals
    <3>2. Saved(progress.best)'
      BY <1>1, <2>7, <3>1 DEF Holds, Due, Saved
    <3> QED BY <1>1, <3>1, <3>2 DEF Holds, Seen, FirstBest, Reported
  <2>9. (Terminal => Saved(epoch))'
    BY <1>1, <2>7 DEF Due, Terminal, OutOfPatience, Saved, locals
  <2>10. Process'
    BY <2>1, <2>8, <2>9 DEF Process, Holds
  <2>11. ASSUME NEW e \in Epochs, Saved(e)', ~ Saved(e)
         PROVE  (Seen(checkpoint[e].content, e) /\ Saved(checkpoint[e].content.best))'
    <3>1. e = epoch /\ checkpoint'[e].content = Result
      BY <2>5, <2>11, Files DEF Saved
    <3>2. /\ Result.best = progress.best /\ Result.bestValue = progress.bestValue
          /\ Result.stale = progress.stale
      BY DEF Result
    <3>3. UNCHANGED <<epoch, progress>>
      BY <1>1 DEF locals
    <3> QED BY <2>8, <3>1, <3>2, <3>3 DEF Holds, Seen, FirstBest, Saved
  <2> QED BY <1>1, <2>4, <2>6, <2>10, <2>11, ChainLasts, ManifestLasts DEF IInv
<1> QED BY <1>2, <1>3

LEMMA NextEpochKeeps ==
  ASSUME IInv, NextEpoch
  PROVE  IInv'
<1>1. /\ pc = "next" /\ epoch \in Epochs /\ target \in Epochs /\ epoch <= target
      /\ Holds /\ Saved(progress.best) /\ (Terminal => Saved(epoch))
      /\ UNCHANGED <<disk, target, value, progress, runs, outcome>>
  BY TrainingAssumption DEF NextEpoch, IInv, TypeOK, Process, Epochs, Holds
<1>2. CASE More /\ ~ OutOfPatience
  <2>1. pc' = "train" /\ epoch' = epoch + 1 /\ epoch < target
    BY <1>2 DEF NextEpoch, More
  <2>2. epoch' # 1 /\ epoch' - 1 = epoch
    BY <1>1, <2>1, TrainingAssumption DEF Epochs
  <2>3. (Seen(progress, epoch - 1) /\ Saved(progress.best))'
    BY <1>1, <2>2 DEF Holds, Seen, FirstBest, Reported, Saved, disk
  <2>4. TypeOK'
    BY <1>1, <2>1, TrainingAssumption DEF IInv, TypeOK, disk, Epochs
  <2> QED BY <1>1, <2>1, <2>2, <2>3, <2>4, DiskKept DEF IInv, Process
<1>3. CASE ~ (More /\ ~ OutOfPatience)
  <2>1. pc' = "finish" /\ UNCHANGED <<disk, locals>>
    BY <1>1, <1>3 DEF NextEpoch, locals
  <2>2. Terminal
    BY <1>1, <1>3, TrainingAssumption DEF More, Terminal, Epochs
  <2>3. Process'
    BY <1>1, <2>1, <2>2 DEF Process, Holds, Seen, FirstBest, Reported, Saved, Terminal,
                            OutOfPatience, disk, locals
  <2>4. TypeOK'
    BY <1>1, <2>1 DEF IInv, TypeOK, disk, locals
  <2> QED BY <2>1, <2>3, <2>4, DiskKept DEF IInv
<1> QED BY <1>2, <1>3

-----------------------------------------------------------------------------
(* The end of train().                                                     *)

LEMMA LoadBestKeeps ==
  ASSUME IInv, LoadBest
  PROVE  IInv'
<1>1. CASE checkpoint[progress.best] # Absent
  <2>1. /\ pc = "finish" /\ pc' = "manifest" /\ outcome' = outcome
        /\ (epoch = MaxEpochs \/ OutOfPatience) /\ UNCHANGED <<disk, locals, runs>>
    BY <1>1 DEF LoadBest
  <2>2. Process'
    BY <2>1 DEF IInv, Process, Seen, FirstBest, Reported, Saved, Terminal, OutOfPatience,
                disk, locals
  <2>3. TypeOK'
    BY <2>1 DEF IInv, TypeOK, disk, locals
  <2> QED BY <2>1, <2>2, <2>3, DiskKept DEF IInv
<1>2. CASE checkpoint[progress.best] = Absent
  BY <1>2, EndKeeps DEF LoadBest
<1> QED BY <1>1, <1>2

LEMMA CreateManifestKeeps ==
  ASSUME IInv, CreateManifest
  PROVE  IInv'
<1>1. /\ pc = "manifest" /\ pc' = "seal" /\ manifest' = Torn
      /\ UNCHANGED <<roots, report, checkpoint, locals, runs, outcome>>
  BY DEF CreateManifest
<1>2. TypeOK'
  BY <1>1 DEF IInv, TypeOK, locals
<1>3. Process'
  BY <1>1 DEF IInv, Process, Seen, FirstBest, Reported, Saved, Terminal, OutOfPatience, locals
<1>4. Grows
  BY <1>1 DEF Grows
<1>5. ChainIsOne'
  BY <1>1, <1>4, ChainLasts DEF Saved
<1>6. ManifestIsTrue'
  BY <1>1, Files DEF ManifestIsTrue
<1> QED BY <1>2, <1>3, <1>5, <1>6 DEF IInv

\* What is sealed is what the reports and checkpoints say.
LEMMA FillManifestKeeps ==
  ASSUME IInv, FillManifest
  PROVE  IInv'
<1>1. /\ pc = "seal" /\ pc' = "idle" /\ outcome' = "complete"
      /\ manifest' = Complete(Summary)
      /\ UNCHANGED <<roots, report, checkpoint, locals, runs>>
  BY DEF FillManifest, EndsWith
<1>2. /\ Holds /\ Saved(progress.best) /\ Saved(epoch) /\ epoch \in Epochs
      /\ epoch = MaxEpochs \/ progress.stale >= Patience
  BY <1>1, TrainingAssumption DEF IInv, Process, TypeOK, Holds, OutOfPatience, Epochs
<1>3. /\ \A k \in 1..epoch : Reported(k)
      /\ FirstBest(progress.best, progress.bestValue, epoch)
      /\ report[epoch].content.stale = progress.stale
  BY <1>2 DEF Holds, Seen
<1>4. TypeOK'
  <2>1. progress.best \in Epochs
    BY <1>2, <1>3, TrainingAssumption DEF FirstBest, Epochs
  <2>2. progress.bestValue \in Metrics
    <3>1. Reported(progress.best) /\ report[progress.best].content.value = progress.bestValue
      BY <1>3 DEF FirstBest
    <3> QED BY <2>1, <3>1, FileTypes DEF IInv, Results
  <2>3. Summary \in [completed : Epochs, best : Epochs, bestValue : Metrics]
    BY <1>2, <2>1, <2>2 DEF Summary
  <2> QED BY <1>1, <2>3 DEF IInv, TypeOK, locals
<1>5. Process'
  BY <1>1 DEF Process
<1>6. Grows
  BY <1>1 DEF Grows
<1>7. ChainIsOne'
  BY <1>1, <1>6, ChainLasts DEF Saved
<1>8. ManifestIsTrue'
  <2>1. manifest'.content = Summary
    BY <1>1, Files
  <2>2. /\ Summary.completed = epoch /\ Summary.best = progress.best
        /\ Summary.bestValue = progress.bestValue
    BY DEF Summary
  <2> QED BY <1>1, <1>2, <1>3, <2>1, <2>2 DEF ManifestIsTrue, FirstBest, Reported, Saved
<1> QED BY <1>4, <1>5, <1>7, <1>8 DEF IInv

-----------------------------------------------------------------------------
(* The theorems.                                                           *)

LEMMA IInvInit == Init => IInv
<1> SUFFICES ASSUME Init PROVE IInv
  OBVIOUS
<1>1. TypeOK
  BY TrainingAssumption DEF Init, TypeOK, Untrained, Epochs
<1>2. ChainIsOne /\ ManifestIsTrue
  BY Files DEF Init, ChainIsOne, ManifestIsTrue, Saved
<1>3. Process
  BY DEF Init, Process
<1> QED BY <1>1, <1>2, <1>3 DEF IInv

LEMMA IInvStep == IInv /\ [Next]_vars => IInv'
<1> SUFFICES ASSUME IInv, [Next]_vars PROVE IInv'
  OBVIOUS
<1>1. CASE UNCHANGED vars
  BY <1>1 DEF IInv, TypeOK, ChainIsOne, ManifestIsTrue, FirstBest, Reported, Saved, Process,
     Pending, Seen, Terminal, OutOfPatience, vars, disk, locals
<1>2. ASSUME NEW e \in Epochs, StartResumed(e) PROVE IInv'
  BY <1>2, StartResumedKeeps
<1>3. CASE StartFresh \/ MakeRoots \/ MakeMetricRoot \/ Train
  BY <1>3, StartFreshKeeps, RootsKeep, TrainKeeps
<1>4. CASE CreateReport \/ FillReport \/ CompareReport \/ Save \/ NextEpoch
  BY <1>4, CreateReportKeeps, FillReportKeeps, CompareReportKeeps, SaveKeeps, NextEpochKeeps
<1>5. CASE LoadBest \/ CreateManifest \/ FillManifest
  BY <1>5, LoadBestKeeps, CreateManifestKeeps, FillManifestKeeps
<1>6. CASE StopPartial \/ Kill
  BY <1>6, EndKeeps DEF StopPartial, Kill
<1>7. CASE CompareManifest
  BY <1>7, EndKeeps DEF CompareManifest
<1> QED BY <1>1, <1>2, <1>3, <1>4, <1>5, <1>6, <1>7 DEF Next

\* What the process at any statement of train() holds describes the complete
\* reports and checkpoints on the disk.
THEOREM Inductive == Spec => []IInv
<1> QED BY IInvInit, IInvStep, PTL DEF Spec

\* Type correctness of the training stage: a process is within the epochs it
\* was asked for, and what it writes is a result.
THEOREM TypeCorrect == Spec => []TypeOK
<1>1. IInv => TypeOK
  BY DEF IInv
<1> QED BY <1>1, Inductive, PTL

\* No history of kills and resumes of train() mixes two lines of training.
THEOREM OneLineOfTraining == Spec => []ChainIsOne
<1>1. IInv => ChainIsOne
  BY DEF IInv
<1> QED BY <1>1, Inductive, PTL

\* training_manifest.json names the first best of complete reports.
THEOREM TrueManifest == Spec => []ManifestIsTrue
<1>1. IInv => ManifestIsTrue
  BY DEF IInv
<1> QED BY <1>1, Inductive, PTL
=============================================================================
