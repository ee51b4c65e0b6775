------------------------- MODULE FeatureStack_proofs -------------------------
(***************************************************************************)
(* Proofs about FeatureStack, of every legal plan and any number of        *)
(* interrupts and foreign replacements.  The argument: until the cleanup   *)
(* is over the installed features are the first of the plan, so that the   *)
(* wrappers of a function nobody disturbed are exactly those of its        *)
(* installed features in the order of the plan, and the restore in reverse *)
(* order finds its own wrapper on top.                                     *)
(***************************************************************************)
EXTENDS FeatureStack, SequenceTheorems, TLAPS

-----------------------------------------------------------------------------
(* The table of the features.                                              *)

LEMMA Names ==
  Features = {"train_only_statistics", "masked_camera_skip", "canonical_image_scaling",
    "action_boundary_projection", "fixed_frame_sampler", "explicit_sample_schedule",
    "horizon_weight_profile", "image_key_scene_regularization", "state_robustness_jitter",
    "state_conditioning_dropout", "vision_front_end_unfreeze", "checkpoint_memory_trim",
    "gradient_clip_diagnostics", "checkpoint_metric_snapshot", "trackio_logging"}
BY DEF Features, Slots

LEMMA SlotsAre ==
  /\ Slots["train_only_statistics"] = <<"make_train_eval_datasets">>
  /\ Slots["masked_camera_skip"] = <<"embed_prefix">>
  /\ Slots["canonical_image_scaling"] = <<"cycle">>
  /\ Slots["action_boundary_projection"] = <<"make_pre_post_processors">>
  /\ Slots["fixed_frame_sampler"] = <<"EpisodeAwareSampler">>
  /\ Slots["explicit_sample_schedule"] = <<"EpisodeAwareSampler">>
  /\ Slots["horizon_weight_profile"] = <<"model_forward", "policy_forward">>
  /\ Slots["image_key_scene_regularization"] = <<"policy_forward">>
  /\ Slots["state_robustness_jitter"] = <<"policy_forward">>
  /\ Slots["state_conditioning_dropout"] = <<"policy_forward">>
  /\ Slots["vision_front_end_unfreeze"] = <<"make_policy">>
  /\ Slots["checkpoint_memory_trim"] = <<"resume_after_prepare", "save_checkpoint">>
  /\ Slots["gradient_clip_diagnostics"] = <<"update_policy", "clip_grad_norm_">>
  /\ Slots["checkpoint_metric_snapshot"] = <<"update_policy", "save_checkpoint">>
  /\ Slots["trackio_logging"] = <<"WandBLogger">>
BY DEF Slots

LEMMA One == ASSUME NEW s PROVE Len(<<s>>) = 1 /\ ToSet(<<s>>) = {s} /\ <<s>>[1] = s
BY DEF ToSet

LEMMA Two ==
  ASSUME NEW s, NEW t
  PROVE  Len(<<s, t>>) = 2 /\ ToSet(<<s, t>>) = {s, t} /\ <<s, t>>[1] = s /\ <<s, t>>[2] = t
BY DEF ToSet

\* A feature replaces one function or two.
LEMMA OneOrTwo ==
  ASSUME NEW f \in Features
  PROVE  \/ Slots[f] = <<Slots[f][1]>>
         \/ Slots[f] = <<Slots[f][1], Slots[f][2]>> /\ Slots[f][1] # Slots[f][2]
<1>1. /\ \A s : <<s>>[1] = s
      /\ \A s, t : <<s, t>>[1] = s /\ <<s, t>>[2] = t
  BY One, Two
<1> QED BY <1>1, Names, SlotsAre

LEMMA UsesAre ==
  /\ Uses("train_only_statistics") = {"make_train_eval_datasets"}
  /\ Uses("masked_camera_skip") = {"embed_prefix"}
  /\ Uses("canonical_image_scaling") = {"cycle"}
  /\ Uses("action_boundary_projection") = {"make_pre_post_processors"}
  /\ Uses("fixed_frame_sampler") = {"EpisodeAwareSampler"}
  /\ Uses("explicit_sample_schedule") = {"EpisodeAwareSampler"}
  /\ Uses("horizon_weight_profile") = {"model_forward", "policy_forward"}
  /\ Uses("image_key_scene_regularization") = {"policy_forward"}
  /\ Uses("state_robustness_jitter") = {"policy_forward"}
  /\ Uses("state_conditioning_dropout") = {"policy_forward"}
  /\ Uses("vision_front_end_unfreeze") = {"make_policy"}
  /\ Uses("checkpoint_memory_trim") = {"resume_after_prepare", "save_checkpoint"}
  /\ Uses("gradient_clip_diagnostics") = {"update_policy", "clip_grad_norm_"}
  /\ Uses("checkpoint_metric_snapshot") = {"update_policy", "save_checkpoint"}
  /\ Uses("trackio_logging") = {"WandBLogger"}
BY SlotsAre, One, Two DEF Uses

\* Where a strict feature replaces two functions, the other features on one of
\* them replace nothing else.
LEMMA StrictShares ==
  ASSUME NEW f \in Strict, NEW s \in Uses(f), NEW t \in Uses(f), s # t,
         NEW g \in Features, t \in Uses(g)
  PROVE  Uses(g) \subseteq Uses(f)
<1>1. f = "horizon_weight_profile"
  BY UsesAre DEF Strict
<1> QED BY <1>1, Names, UsesAre

\* A function that is put back from a saved original belongs to one feature.
LEMMA SavedAlone ==
  ASSUME NEW f \in Features, NEW s \in Uses(f), Saved(f, s), NEW g \in Features, s \in Uses(g)
  PROVE  g = f
BY Names, UsesAre DEF Saved

\* No strict feature puts back a saved original.
LEMMA Kinds ==
  /\ Strict \subseteq Features /\ "foreign" \notin Features
  /\ \A f \in Strict, s \in Functions : ~ Saved(f, s)
  /\ \A f \in Features : Uses(f) \subseteq Functions
BY Names DEF Strict, Saved, Functions

LEMMA SlotsShape ==
  ASSUME NEW f \in Features
  PROVE  /\ Len(Slots[f]) \in Nat \ {0}
         /\ \A k \in 1..Len(Slots[f]) : Slots[f][k] \in Uses(f)
         /\ \A s \in Uses(f) : \E k \in 1..Len(Slots[f]) : Slots[f][k] = s
         /\ \A k, m \in 1..Len(Slots[f]) : Slots[f][k] = Slots[f][m] => k = m
<1>1. CASE Slots[f] = <<Slots[f][1]>>
  <2> PICK s : Slots[f] = <<s>>
    BY <1>1
  <2> QED BY One DEF Uses
<1>2. CASE Slots[f] = <<Slots[f][1], Slots[f][2]>> /\ Slots[f][1] # Slots[f][2]
  <2> PICK s, t : Slots[f] = <<s, t>> /\ s # t
    BY <1>2
  <2> QED BY Two DEF Uses
<1> QED BY <1>1, <1>2, OneOrTwo
-----------------------------------------------------------------------------
(* Sequences.                                                              *)

LEMMA InSet ==
  ASSUME NEW S, NEW q \in Seq(S)
  PROVE  /\ Len(q) \in Nat /\ DOMAIN q = 1..Len(q)
         /\ \A i \in 1..Len(q) : q[i] \in ToSet(q)
         /\ \A e \in ToSet(q) : e \in S /\ \E i \in 1..Len(q) : q[i] = e
         /\ q = <<>> <=> Len(q) = 0
BY DEF ToSet

LEMMA Appended ==
  ASSUME NEW S, NEW q \in Seq(S), NEW e \in S
  PROVE  /\ Append(q, e) \in Seq(S) /\ Len(Append(q, e)) = Len(q) + 1
         /\ \A i \in 1..Len(q) : Append(q, e)[i] = q[i]
         /\ Append(q, e)[Len(q) + 1] = e
         /\ ToSet(Append(q, e)) = ToSet(q) \cup {e}
<1>1. /\ Append(q, e) \in Seq(S) /\ Len(Append(q, e)) = Len(q) + 1 /\ Len(q) \in Nat
      /\ \A i \in 1..Len(q) : Append(q, e)[i] = q[i]
      /\ Append(q, e)[Len(q) + 1] = e
  BY AppendProperties, InSet
<1>2. /\ DOMAIN Append(q, e) = 1..(Len(q) + 1) /\ DOMAIN q = 1..Len(q)
  BY <1>1, InSet
<1>3. 1..(Len(q) + 1) = (1..Len(q)) \cup {Len(q) + 1}
  BY <1>1
<1> QED BY <1>1, <1>2, <1>3 DEF ToSet

LEMMA InjectiveAppended ==
  ASSUME NEW S, NEW q \in Seq(S), NEW e \in S, IsInjective(q), e \notin ToSet(q)
  PROVE  IsInjective(Append(q, e))
<1>1. Len(q) \in Nat /\ DOMAIN q = 1..Len(q) /\ DOMAIN Append(q, e) = 1..(Len(q) + 1)
  BY InSet, Appended
<1> SUFFICES ASSUME NEW i \in 1..(Len(q) + 1), NEW j \in 1..(Len(q) + 1),
                    Append(q, e)[i] = Append(q, e)[j]
             PROVE  i = j
  BY <1>1 DEF IsInjective
<1>2. \A k \in 1..Len(q) : Append(q, e)[k] = q[k] /\ q[k] # e
  BY Appended, InSet
<1>3. Append(q, e)[Len(q) + 1] = e
  BY Appended
<1>4. \A k \in 1..(Len(q) + 1) : k = Len(q) + 1 \/ k \in 1..Len(q)
  BY <1>1
<1> QED BY <1>1, <1>2, <1>3, <1>4 DEF IsInjective

LEMMA Popped ==
  ASSUME NEW S, NEW q \in Seq(S), q # <<>>
  PROVE  /\ Front(q) \in Seq(S) /\ Len(Front(q)) = Len(q) - 1
         /\ \A i \in 1..(Len(q) - 1) : Front(q)[i] = q[i]
         /\ Last(q) = q[Len(q)] /\ Last(q) \in ToSet(q)
         /\ RemoveAt(q, Newest(q)) = Front(q)
<1>1. Len(q) \in Nat \ {0}
  BY InSet
<1>2. /\ Front(q) \in Seq(S) /\ Len(Front(q)) = Len(q) - 1
      /\ \A i \in 1..(Len(q) - 1) : Front(q)[i] = q[i]
  <2>1. \A i \in 1..(Len(q) - 1) : q[i] \in S
    BY <1>1, InSet
  <2>2. /\ SubSeq(q, 1, Len(q) - 1) \in Seq(S)
        /\ Len(SubSeq(q, 1, Len(q) - 1)) =
             IF 1 <= Len(q) - 1 THEN (Len(q) - 1) - 1 + 1 ELSE 0
        /\ \A i \in 1..((Len(q) - 1) - 1 + 1) : SubSeq(q, 1, Len(q) - 1)[i] = q[1 + i - 1]
    <3>1. 1 \in Int /\ Len(q) - 1 \in Int
      BY <1>1
    <3> QED BY <2>1, <3>1, SubSeqProperties
  <2>3. (Len(q) - 1) - 1 + 1 = Len(q) - 1 /\ \A i \in 1..(Len(q) - 1) : 1 + i - 1 = i
    BY <1>1
  <2> QED BY <1>1, <2>2, <2>3 DEF Front
<1>3. SubSeq(q, Len(q) + 1, Len(q)) = <<>>
  BY <1>1, SubSeqEmpty
<1>4. RemoveAt(q, Newest(q)) = Front(q) \o <<>>
  BY <1>3 DEF RemoveAt, Newest, Front
<1>5. Front(q) \o <<>> = Front(q)
  BY <1>2, ConcatEmptySeq
<1>6. Last(q) = q[Len(q)] /\ Last(q) \in ToSet(q)
  BY <1>1, InSet DEF Last
<1>7. RemoveAt(q, Newest(q)) = Front(q)
  BY <1>4, <1>5
<1> QED BY <1>2, <1>6, <1>7

-----------------------------------------------------------------------------
(* The inductive invariant.                                                *)

Indices == 1..Len(plan)

\* The statements of install_all() before it calls anything else.
Fresh == pc \in {"install", "train"}
Loop == pc \in {"rollback", "restore"}
Over == pc \in {"finish", "done"}

\* What an install under way has replaced so far.
Begun(s) == \E k \in 1..half : Slots[Feature][k] = s

\* The features marked are those listed, and perhaps one cut off.
Marked ==
  /\ ToSet(installed) \cup ToSet(remaining) \subseteq marker
  /\ marker \subseteq ToSet(installed) \cup ToSet(remaining) \cup CutOff

\* The values of the variables.
Shape ==
  /\ plan \in Seq(Universe) /\ Legal(plan)
  /\ pc \in {"install", "train", "rollback", "restore", "finish", "done", "abandoned"}
  /\ next \in 1..(Len(plan) + 1) /\ half \in Nat
  /\ next <= Len(plan) => half <= Len(Slots[Feature])
  /\ next = Len(plan) + 1 => half = 0
  /\ installed \in Seq(ToSet(plan)) /\ remaining \in Seq(ToSet(plan))
  /\ Marked
  /\ layers \in [Functions -> Seq(ToSet(plan) \cup {"foreign"})]
  /\ foreign \subseteq Functions /\ interrupts \in 0..MaxInterrupts

\* What ended the installation or the trainer so far.
Errors ==
  /\ error \in {"none", "install", "trainer", "cleanup"}
  /\ Fresh => error = "none" /\ interrupts = 0
  /\ pc = "install" => foreign = {}
  /\ pc = "rollback" => error = "install"
  /\ pc = "restore" => next = Len(plan) + 1
  /\ pc = "train" => next = Len(plan) + 1
  /\ interrupts > 0 => error # "none"
  /\ interrupts > 0 /\ pc # "abandoned" => next <= Len(plan)
  /\ ~ Fresh /\ half > 0 => interrupts > 0
  /\ Over /\ error = "none" => remaining = <<>>

\* The installed features are the first of the plan; those that could not be
\* restored come after them.
Progress ==
  /\ ~ Over =>
       /\ Len(installed) <= Len(plan)
       /\ Len(installed) < next
       /\ \A i \in 1..Len(installed) : installed[i] = plan[i]
       /\ \A k \in 1..Len(remaining) : \E i \in Indices :
             Len(installed) < i /\ i < next /\ remaining[k] = plan[i]
       /\ IsInjective(remaining)
  /\ Fresh => next = Len(installed) + 1 /\ remaining = <<>>
  /\ Over => ToSet(installed) = ToSet(remaining)
             /\ (remaining = <<>> => installed = <<>>)

\* Every wrapper is once on a function, one that its feature replaces.
Layered ==
  \A s \in Functions :
    /\ IsInjective(layers[s])
    /\ "foreign" \in ToSet(layers[s]) => s \in foreign
    /\ \A f \in ToSet(layers[s]) \ {"foreign"} : s \in Uses(f)

\* Functions all of whose features replace only functions nobody disturbed.
Safe(s) ==
  /\ s \notin Disturbed
  /\ \A f \in ToSet(plan) : s \in Uses(f) => Uses(f) \cap Disturbed = {}

\* The features on such a function, by their place in the plan; its wrappers
\* are exactly theirs, in the order of the plan.
On(s) == {i \in Indices : \/ i <= Len(installed) /\ s \in Uses(plan[i])
                          \/ i = next /\ Begun(s)}
Ordered(s) ==
  /\ ToSet(layers[s]) = {plan[i] : i \in On(s)}
  /\ \A a, b \in 1..Len(layers[s]) : \A i, j \in Indices :
       a < b /\ plan[i] = layers[s][a] /\ plan[j] = layers[s][b] => i < j
Exact ==
  \A s \in Functions : Safe(s) =>
    IF Over THEN layers[s] = <<>> ELSE Ordered(s)

\* The wrapper of a strict feature stays no longer than the feature is listed.
Listed ==
  \A s \in Functions : \A f \in Strict \cap ToSet(layers[s]) :
    f \in marker \/ (half > 0 /\ f = Feature)

\* A feature is missed only where somebody disturbed a function.
Untouched == foreign = {} /\ interrupts = 0 => remaining = <<>>

\* An interrupt outside install() leaves everything as it is.
Abandoned == pc = "abandoned" => interrupts > 0 /\ error = "install" /\ remaining = <<>>

IInv ==
  Abandoned /\ Shape /\ Errors /\ Progress /\ Layered /\ Exact /\ Listed /\ Untouched

LEMMA Planned ==
  ASSUME Shape
  PROVE  /\ Len(plan) \in Nat \ {0} /\ next \in Nat
         /\ \A i \in Indices : plan[i] \in ToSet(plan)
         /\ \A f \in ToSet(plan) : f \in Features /\ f # "foreign" /\ \E i \in Indices : plan[i] = f
         /\ \A i, j \in Indices : plan[i] = plan[j] => i = j
         /\ ToSet(plan) \subseteq Universe
<1>1. /\ Len(plan) \in Nat /\ DOMAIN plan = Indices
      /\ \A i \in Indices : plan[i] \in ToSet(plan)
      /\ \A f \in ToSet(plan) : f \in Universe /\ \E i \in Indices : plan[i] = f
      /\ plan = <<>> <=> Len(plan) = 0
  BY InSet DEF Shape, Indices
<1>2. plan # <<>> /\ IsInjective(plan)
  BY DEF Shape, Legal
<1>3. \A i, j \in Indices : plan[i] = plan[j] => i = j
  BY <1>1, <1>2 DEF IsInjective
<1>4. \A f \in ToSet(plan) : f \in Features /\ f # "foreign"
  BY <1>1, Kinds, StackAssumption
<1>5. next \in Nat
  BY <1>1 DEF Shape
<1> QED BY <1>1, <1>2, <1>3, <1>4, <1>5

LEMMA PlanKept ==
  ASSUME IInv, [Next]_vars
  PROVE  plan' = plan /\ Disturbed \subseteq Disturbed'
<1>1. plan' = plan /\ foreign \subseteq foreign'
  BY DEF Next, vars, Assign, Mark, Installed, InstallFails, Abandon, InstalledAll, Drift, Train, Restore,
         RestoreFails, Restored, Finish
<1>2. interrupts # 0 => interrupts' # 0 /\ next' = next
  BY DEF Next, vars, Assign, Mark, Installed, InstallFails, Abandon, InstalledAll, Drift, Train, Restore,
         RestoreFails, Restored, Finish, IInv, Errors, Fresh, Shape
<1> QED BY <1>1, <1>2 DEF Disturbed, Feature

\* Nothing follows an interrupt outside install().
LEMMA AbandonedKept ==
  ASSUME IInv, Next
  PROVE  Abandoned'
<1>1. CASE Abandon
  <2>1. remaining = <<>>
    BY <1>1 DEF Abandon, IInv, Progress, Fresh
  <2>2. interrupts' > 0
    BY <1>1, StackAssumption DEF Abandon, IInv, Shape
  <2> QED BY <1>1, <2>1, <2>2 DEF Abandon, Abandoned
<1>2. CASE ~ Abandon
  <2>1. pc' # "abandoned"
    BY <1>2 DEF Next, Assign, Mark, Installed, InstallFails, InstalledAll, Drift, Train,
                Restore, RestoreFails, Restored, Finish
  <2> QED BY <2>1 DEF Abandoned
<1> QED BY <1>1, <1>2

LEMMA SafeShrinks ==
  ASSUME IInv, [Next]_vars, NEW s, Safe(s)'
  PROVE  Safe(s)
BY PlanKept DEF Safe

LEMMA AllSafe ==
  ASSUME foreign = {}, interrupts = 0, NEW s
  PROVE  Safe(s)
BY DEF Safe, Disturbed

-----------------------------------------------------------------------------
(* Each step keeps the invariant.                                          *)

\* install_all() or the trainer ends; nothing on the functions changes.
LEMMA QuietKeeps ==
  ASSUME IInv, InstallFails \/ Abandon \/ InstalledAll \/ Train
  PROVE  IInv'
<1>1. /\ plan' = plan /\ next' = next /\ half' = half /\ installed' = installed
      /\ remaining' = remaining /\ layers' = layers /\ marker' = marker /\ foreign' = foreign
      /\ ~ Over /\ ~ Over' /\ Feature' = Feature
  BY DEF InstallFails, Abandon, InstalledAll, Train, Over, Feature
<1>2. Len(plan) \in Nat \ {0} /\ next \in Nat
  BY Planned DEF IInv
<1>3. interrupts' \in 0..MaxInterrupts /\ (interrupts > 0 => interrupts' > 0)
  BY StackAssumption DEF InstallFails, Abandon, InstalledAll, Train, IInv, Shape
<1>4. Shape'
  <2>1. CutOff' = CutOff
    BY <1>1 DEF CutOff
  <2>2. Marked'
    BY <1>1, <2>1 DEF IInv, Shape, Marked
  <2> QED BY <1>1, <1>3, <2>2 DEF InstallFails, Abandon, InstalledAll, Train, IInv, Shape
<1>5. Errors'
  <2> USE DEF IInv, Errors, Shape, Fresh, Over
  <2>1. CASE InstallFails
    BY <1>1, <1>2, <1>3, <2>1 DEF InstallFails
  <2>2. CASE InstalledAll
    BY <1>1, <1>2, <1>3, <2>2 DEF InstalledAll
  <2>3. CASE Train
    BY <1>1, <1>2, <1>3, <2>3 DEF Train
  <2>4. CASE Abandon
    BY <1>1, <1>2, <1>3, <2>4 DEF Abandon
  <2> QED BY <2>1, <2>2, <2>3, <2>4
<1>6. Progress'
  BY <1>1 DEF InstallFails, Abandon, InstalledAll, Train, IInv, Progress, Fresh, Indices
<1>7. Layered'
  BY <1>1 DEF IInv, Layered
<1>8. Exact'
  <2> SUFFICES ASSUME NEW s \in Functions, Safe(s)' PROVE Ordered(s)'
    BY <1>1 DEF Exact
  <2>1. Ordered(s)
    BY <1>1, SafeShrinks DEF IInv, Exact, Next
  <2> QED BY <1>1, <2>1 DEF Ordered, On, Begun, Indices
<1>9. Listed'
  BY <1>1 DEF IInv, Listed
<1>10. Untouched'
  BY <1>1, <1>3 DEF InstallFails, Abandon, InstalledAll, Train, IInv, Untouched, Progress, Fresh
<1>20. Abandoned'
  BY AbandonedKept DEF Next
<1> QED BY <1>4, <1>5, <1>6, <1>7, <1>8, <1>9, <1>10, <1>20 DEF IInv

\* Somebody else replaces a function, which is no longer safe.
LEMMA DriftKeeps ==
  ASSUME IInv, NEW t \in Functions, Drift(t)
  PROVE  IInv'
<1>1. /\ plan' = plan /\ next' = next /\ half' = half /\ installed' = installed
      /\ remaining' = remaining /\ marker' = marker /\ foreign' = foreign \cup {t}
      /\ pc' = pc /\ error' = error /\ interrupts' = interrupts
      /\ pc = "train" /\ Fresh /\ ~ Over /\ ~ Over' /\ Feature' = Feature /\ t \notin foreign
      /\ layers' = [layers EXCEPT ![t] = Append(@, "foreign")]
  BY DEF Drift, Over, Fresh, Feature
<1>2. /\ layers'[t] = Append(layers[t], "foreign")
      /\ \A s \in Functions \ {t} : layers'[s] = layers[s]
      /\ layers[t] \in Seq(ToSet(plan) \cup {"foreign"})
  BY <1>1 DEF IInv, Shape
<1>3. /\ Append(layers[t], "foreign") \in Seq(ToSet(plan) \cup {"foreign"})
      /\ ToSet(layers'[t]) = ToSet(layers[t]) \cup {"foreign"}
  BY <1>2, Appended
<1>4. Shape'
  <2>1. Marked'
    BY <1>1 DEF IInv, Shape, Marked, CutOff
  <2> QED BY <1>1, <1>3, <2>1 DEF IInv, Shape
<1>5. Errors'
  BY <1>1 DEF IInv, Errors, Fresh, Over
<1>6. Progress'
  BY <1>1 DEF IInv, Progress, Fresh, Indices, Over
<1>7. Layered'
  <2>1. "foreign" \notin ToSet(layers[t])
    BY <1>1 DEF IInv, Layered
  <2>2. IsInjective(layers'[t])
    BY <1>2, <2>1, InjectiveAppended DEF IInv, Layered
  <2> QED BY <1>1, <1>2, <1>3, <2>2 DEF IInv, Layered
<1>8. Exact'
  <2> SUFFICES ASSUME NEW s \in Functions, Safe(s)' PROVE Ordered(s)'
    BY <1>1 DEF Exact
  <2>1. Ordered(s)
    BY <1>1, SafeShrinks DEF IInv, Exact, Next
  <2>2. s # t
    BY <1>1 DEF Safe, Disturbed
  <2> QED BY <1>1, <1>2, <2>1, <2>2 DEF Ordered, On, Begun, Indices
<1>9. Listed'
  BY <1>1, <1>2, <1>3, Kinds DEF IInv, Listed
<1>10. Untouched'
  BY <1>1 DEF IInv, Untouched
<1>20. Abandoned'
  BY AbandonedKept DEF Next
<1> QED BY <1>4, <1>5, <1>6, <1>7, <1>8, <1>9, <1>10, <1>20 DEF IInv

\* One assignment of an install: nothing is disturbed yet, so the feature has no
\* wrapper on the function, and its own goes on top of those of earlier features.
LEMMA AssignKeeps ==
  ASSUME IInv, Assign
  PROVE  IInv'
<1> DEFINE t == Slots[Feature][half + 1]
<1>1. /\ plan' = plan /\ next' = next /\ half' = half + 1 /\ installed' = installed
      /\ remaining' = remaining /\ marker' = marker /\ foreign' = foreign
      /\ pc' = pc /\ error' = error /\ interrupts' = interrupts
      /\ pc = "install" /\ Fresh /\ ~ Over /\ ~ Over' /\ Feature' = Feature
      /\ next <= Len(plan) /\ half < Len(Slots[Feature])
      /\ layers' = [layers EXCEPT ![t] = Append(@, Feature)]
  BY DEF Assign, Over, Fresh, Feature
<1>2. /\ next \in Indices /\ Feature = plan[next] /\ Feature \in ToSet(plan)
      /\ Feature \in Features /\ Feature # "foreign" /\ half \in Nat
  BY <1>1, Planned DEF IInv, Shape, Indices, Feature
<1>3. /\ half + 1 \in 1..Len(Slots[Feature]) /\ t \in Uses(Feature) /\ t \in Functions
  BY <1>1, <1>2, SlotsShape, Kinds
<1> HIDE DEF t
<1>4. /\ layers'[t] = Append(layers[t], Feature)
      /\ \A s \in Functions \ {t} : layers'[s] = layers[s]
      /\ layers[t] \in Seq(ToSet(plan) \cup {"foreign"})
  BY <1>1, <1>3 DEF IInv, Shape
<1>5. /\ Append(layers[t], Feature) \in Seq(ToSet(plan) \cup {"foreign"})
      /\ ToSet(layers'[t]) = ToSet(layers[t]) \cup {Feature}
  BY <1>2, <1>4, Appended
<1>6. \A s \in Functions : Ordered(s)
  BY <1>1, AllSafe DEF IInv, Exact, Errors, Fresh
<1> DEFINE More(s) == \E k \in 1..(half + 1) : Slots[Feature][k] = s
<1> DEFINE After(s) ==
      {i \in Indices : \/ i <= Len(installed) /\ s \in Uses(plan[i])
                       \/ i = next /\ More(s)}
<1>7. \A s : More(s) <=> Begun(s) \/ s = t
  <2>1. 1..(half + 1) = (1..half) \cup {half + 1}
    BY <1>2
  <2> QED BY <2>1 DEF Begun, t
<1>8. ~ Begun(t)
  <2>1. \A k \in 1..half : k \in 1..Len(Slots[Feature]) /\ k # half + 1
    BY <1>1, <1>2, SlotsShape
  <2> QED BY <1>2, <1>3, <2>1, SlotsShape DEF Begun, t
<1>9. next = Len(installed) + 1 /\ Len(installed) \in Nat /\ Len(plan) \in Nat
  BY <1>1, Planned, InSet DEF IInv, Progress, Shape
<1> HIDE DEF More
<1>10. /\ \A i \in On(t) : i < next
       /\ After(t) = On(t) \cup {next}
       /\ \A s \in Functions \ {t} : After(s) = On(s)
  <2>1. \A i \in On(t) : i < next
    BY <1>8, <1>9 DEF On, Indices
  <2>2. \A s \in Functions \ {t} : After(s) = On(s)
    <3> SUFFICES ASSUME NEW s \in Functions \ {t} PROVE After(s) = On(s)
      OBVIOUS
    <3>1. More(s) <=> Begun(s)
      BY <1>7
    <3> QED BY <3>1 DEF On
  <2>3. After(t) = On(t) \cup {next}
    BY <1>2, <1>7, <1>8 DEF On
  <2> QED BY <2>1, <2>2, <2>3
<1> HIDE DEF After
<1>11. Feature \notin ToSet(layers[t])
  <2> SUFFICES ASSUME Feature \in ToSet(layers[t]) PROVE FALSE
    OBVIOUS
  <2>1. PICK i \in On(t) : plan[i] = Feature
    BY <1>3, <1>6 DEF Ordered
  <2>2. i \in Indices /\ i < next /\ i # next
    BY <1>9, <1>10, <2>1 DEF On
  <2> QED BY <1>2, <2>1, <2>2, Planned DEF IInv
<1>12. Shape'
  <2>1. CutOff \subseteq CutOff'
    BY <1>1, <1>2 DEF CutOff
  <2>2. Marked'
    BY <1>1, <2>1 DEF IInv, Shape, Marked
  <2> QED BY <1>1, <1>2, <1>3, <1>4, <1>5, <2>2 DEF IInv, Shape
<1>13. Errors'
  BY <1>1 DEF IInv, Errors, Fresh, Over
<1>14. Progress'
  BY <1>1 DEF IInv, Progress, Fresh, Indices, Over
<1>15. Layered'
  <2>1. IsInjective(layers'[t])
    <3>1. IsInjective(layers[t]) /\ Feature \in ToSet(plan) \cup {"foreign"}
      BY <1>2, <1>3 DEF IInv, Layered
    <3> QED BY <1>4, <1>11, <3>1, InjectiveAppended
  <2> QED BY <1>1, <1>2, <1>3, <1>4, <1>5, <2>1 DEF IInv, Layered
<1>16. Exact'
  <2> SUFFICES ASSUME NEW s \in Functions PROVE Ordered(s)'
    BY <1>1 DEF Exact
  <2>after. On(s)' = After(s)
    <3>1. Begun(s)' <=> More(s)
      BY <1>1 DEF Begun, More
    <3>2. Indices' = Indices
      BY <1>1 DEF Indices
    <3> QED BY <1>1, <3>1, <3>2 DEF On, After
  <2>1. CASE s # t
    <3>1. Ordered(s) /\ layers'[s] = layers[s] /\ On(s)' = On(s)
      BY <1>4, <1>6, <1>10, <2>1, <2>after
    <3> QED BY <1>1, <3>1 DEF Ordered, Indices
  <2>2. CASE s = t
    <3>1. ToSet(layers'[t]) = {plan[i] : i \in After(t)}
      <4>1. ToSet(layers[t]) = {plan[i] : i \in On(t)}
        BY <1>3, <1>6 DEF Ordered
      <4>2. {plan[i] : i \in On(t) \cup {next}} = {plan[i] : i \in On(t)} \cup {Feature}
        BY <1>2
      <4> QED BY <1>1, <1>5, <1>10, <4>1, <4>2
    <3>2. ASSUME NEW a \in 1..Len(layers'[t]), NEW b \in 1..Len(layers'[t]),
                 NEW i \in Indices, NEW j \in Indices,
                 a < b, plan[i] = layers'[t][a], plan[j] = layers'[t][b]
          PROVE  i < j
      <4>1. Len(layers'[t]) = Len(layers[t]) + 1 /\ Len(layers[t]) \in Nat
        BY <1>2, <1>4, Appended, InSet
      <4>2. a \in 1..Len(layers[t]) /\ layers'[t][a] = layers[t][a]
        BY <1>2, <1>4, <3>2, <4>1, Appended
      <4>3. CASE b = Len(layers[t]) + 1
        <5>1. plan[j] = Feature
          BY <1>2, <1>4, <3>2, <4>3, Appended
        <5>2. j = next
          BY <1>2, <5>1, Planned DEF IInv
        <5>3. plan[i] \in ToSet(layers[t])
          BY <1>4, <3>2, <4>2, InSet
        <5>4. i \in On(t)
          <6>0. Ordered(t)
            BY <1>3, <1>6
          <6>1. PICK m \in On(t) : plan[m] = plan[i]
            BY <5>3, <6>0 DEF Ordered
          <6>2. m = i
            BY <6>1, Planned DEF On, IInv
          <6> QED BY <6>1, <6>2
        <5> QED BY <1>10, <5>2, <5>4
      <4>4. CASE b \in 1..Len(layers[t])
        <5>1. layers'[t][b] = layers[t][b]
          BY <1>2, <1>4, <4>4, Appended
        <5> QED BY <1>3, <1>6, <3>2, <4>2, <4>4, <5>1 DEF Ordered
      <4> QED BY <4>1, <4>3, <4>4
    <3> QED BY <1>1, <2>after, <2>2, <3>1, <3>2 DEF Ordered, Indices
  <2> QED BY <2>1, <2>2
<1>17. Listed'
  BY <1>1, <1>2, <1>3, <1>4, <1>5 DEF IInv, Listed
<1>18. Untouched'
  BY <1>1 DEF IInv, Untouched
<1>20. Abandoned'
  BY AbandonedKept DEF Next
<1> QED BY <1>12, <1>13, <1>14, <1>15, <1>16, <1>17, <1>18, <1>20 DEF IInv

\* The mark of a feature is the last it gets.
LEMMA MarkKeeps ==
  ASSUME IInv, Mark
  PROVE  IInv'
<1>1. /\ plan' = plan /\ next' = next /\ half' = half /\ installed' = installed
      /\ remaining' = remaining /\ marker' = marker \cup {Feature} /\ foreign' = foreign
      /\ pc' = pc /\ error' = error /\ interrupts' = interrupts /\ layers' = layers
      /\ pc = "install" /\ Fresh /\ ~ Over /\ ~ Over' /\ Feature' = Feature
      /\ next <= Len(plan) /\ half = Len(Slots[Feature])
  BY DEF Mark, Over, Fresh, Feature
<1>2. next \in Nat /\ Len(plan) \in Nat /\ half \in Nat /\ half # 0
  <2>1. next \in Indices /\ next \in Nat /\ Len(plan) \in Nat
    BY <1>1, Planned DEF IInv, Shape, Indices
  <2>2. Feature \in Features
    BY <2>1, Planned DEF IInv, Feature
  <2> QED BY <1>1, <2>1, <2>2, SlotsShape
<1>3. CutOff = {Feature} /\ CutOff' = {Feature}
  BY <1>1, <1>2 DEF CutOff
<1>4. Shape'
  <2>1. Marked'
    BY <1>1, <1>3 DEF IInv, Shape, Marked
  <2> QED BY <1>1, <2>1 DEF IInv, Shape
<1>5. Errors'
  BY <1>1 DEF IInv, Errors, Fresh, Over
<1>6. Progress'
  BY <1>1 DEF IInv, Progress, Fresh, Indices, Over
<1>7. Layered'
  BY <1>1 DEF IInv, Layered
<1>8. Exact'
  <2> SUFFICES ASSUME NEW s \in Functions, Safe(s)' PROVE Ordered(s)'
    BY <1>1 DEF Exact
  <2>1. Ordered(s)
    BY <1>1, SafeShrinks DEF IInv, Exact, Next
  <2> QED BY <1>1, <2>1 DEF Ordered, On, Begun, Indices
<1>9. Listed'
  BY <1>1 DEF IInv, Listed
<1>10. Untouched'
  BY <1>1 DEF IInv, Untouched
<1>20. Abandoned'
  BY AbandonedKept DEF Next
<1> QED BY <1>4, <1>5, <1>6, <1>7, <1>8, <1>9, <1>10, <1>20 DEF IInv

\* A feature is listed when all its assignments are made and it is marked.
LEMMA InstalledKeeps ==
  ASSUME IInv, Installed
  PROVE  IInv'
<1>1. /\ plan' = plan /\ next' = next + 1 /\ half' = 0
      /\ installed' = Append(installed, Feature)
      /\ remaining' = remaining /\ marker' = marker /\ foreign' = foreign
      /\ pc' = pc /\ error' = error /\ interrupts' = interrupts /\ layers' = layers
      /\ pc = "install" /\ Fresh /\ ~ Over /\ ~ Over'
      /\ next <= Len(plan) /\ half = Len(Slots[Feature]) /\ Feature \in marker
  BY DEF Installed, Returned, Advance, Over, Fresh
<1>2. /\ next \in Indices /\ Feature = plan[next] /\ Feature \in ToSet(plan)
      /\ Feature \in Features /\ next \in Nat /\ Len(plan) \in Nat
  BY <1>1, Planned DEF IInv, Shape, Indices, Feature
<1>3. /\ installed' \in Seq(ToSet(plan)) /\ Len(installed') = Len(installed) + 1
      /\ \A i \in 1..Len(installed) : installed'[i] = installed[i]
      /\ installed'[Len(installed) + 1] = Feature
      /\ ToSet(installed') = ToSet(installed) \cup {Feature}
      /\ next = Len(installed) + 1 /\ Len(installed) \in Nat /\ remaining = <<>>
  BY <1>1, <1>2, Appended, InSet DEF IInv, Shape, Progress
<1>4. Shape'
  <2>1. next' \in 1..(Len(plan') + 1) /\ (next' = Len(plan') + 1 => half' = 0)
    BY <1>1, <1>2
  <2>2. next' <= Len(plan') => half' <= Len(Slots[Feature'])
    <3> SUFFICES ASSUME next + 1 <= Len(plan) PROVE 0 <= Len(Slots[Feature'])
      BY <1>1
    <3>1. Feature' = plan[next + 1] /\ next + 1 \in Indices
      BY <1>1, <1>2 DEF Feature, Indices
    <3>2. Feature' \in Features
      BY <3>1, Planned DEF IInv
    <3> QED BY <3>2, SlotsShape
  <2>3. Marked'
    <3>1. CutOff \subseteq {Feature}
      BY DEF CutOff
    <3> QED BY <1>1, <1>3, <3>1 DEF IInv, Shape, Marked
  <2> QED BY <1>1, <1>3, <2>1, <2>2, <2>3 DEF IInv, Shape
<1>5. Errors'
  BY <1>1 DEF IInv, Errors, Fresh, Over
<1>6. Progress'
  <2>1. Len(installed') <= Len(plan) /\ Len(installed') < next' /\ next' = Len(installed') + 1
    BY <1>1, <1>2, <1>3
  <2>2. \A i \in 1..Len(installed') : installed'[i] = plan[i]
    <3> SUFFICES ASSUME NEW i \in 1..(Len(installed) + 1) PROVE installed'[i] = plan[i]
      BY <1>3
    <3>1. CASE i = Len(installed) + 1
      BY <1>2, <1>3, <3>1
    <3>2. CASE i \in 1..Len(installed)
      BY <1>1, <1>3, <3>2 DEF IInv, Progress
    <3> QED BY <1>3, <3>1, <3>2
  <2>3. remaining' = <<>> /\ IsInjective(remaining') /\ Len(remaining') = 0
    BY <1>1, <1>3 DEF IInv, Progress
  <2> QED BY <1>1, <2>1, <2>2, <2>3 DEF Progress, Fresh
<1>7. Layered'
  BY <1>1 DEF IInv, Layered
<1>8. Exact'
  <2> SUFFICES ASSUME NEW s \in Functions PROVE Ordered(s)'
    BY <1>1 DEF Exact
  <2>1. Ordered(s)
    BY <1>1, AllSafe DEF IInv, Exact, Errors, Fresh
  <2>2. Indices' = Indices /\ ~ Begun(s)'
    BY <1>1 DEF Indices, Begun
  <2>3. Begun(s) <=> s \in Uses(Feature)
    BY <1>1, <1>2, SlotsShape DEF Begun
  <2>4. On(s)' = {i \in Indices : i <= Len(installed) + 1 /\ s \in Uses(plan[i])}
    BY <1>1, <1>3, <2>2 DEF On
  <2>5. On(s)' = On(s)
    <3>1. \A i \in Indices : i <= Len(installed) + 1 <=> i <= Len(installed) \/ i = next
      BY <1>3 DEF Indices
    <3> QED BY <1>2, <2>3, <2>4, <3>1 DEF On
  <2> QED BY <1>1, <2>1, <2>2, <2>5 DEF Ordered
<1>9. Listed'
  BY <1>1 DEF IInv, Listed
<1>10. Untouched'
  BY <1>1 DEF IInv, Untouched
<1>20. Abandoned'
  BY AbandonedKept DEF Next
<1> QED BY <1>4, <1>5, <1>6, <1>7, <1>8, <1>9, <1>10, <1>20 DEF IInv

\* What restore_all() takes is the last of the plan that is still listed.
LEMMA Newer ==
  ASSUME IInv, Loop, installed # <<>>
  PROVE  /\ installed[Newest(installed)] = plan[Len(installed)]
         /\ Len(installed) \in Indices /\ Len(installed) < next
         /\ Front(installed) \in Seq(ToSet(plan)) /\ Len(Front(installed)) = Len(installed) - 1
         /\ \A i \in 1..(Len(installed) - 1) : Front(installed)[i] = plan[i]
         /\ RemoveAt(installed, Newest(installed)) = Front(installed)
         /\ plan[Len(installed)] \notin ToSet(Front(installed))
         /\ plan[Len(installed)] \notin ToSet(remaining)
         /\ ToSet(installed) = ToSet(Front(installed)) \cup {plan[Len(installed)]}
<1> DEFINE n == Len(installed)
<1>1. /\ n \in Nat \ {0} /\ n <= Len(plan) /\ n < next /\ Len(plan) \in Nat
      /\ \A i \in 1..n : installed[i] = plan[i]
  BY Planned, InSet DEF IInv, Shape, Progress, Loop, Over
<1>2. n \in Indices /\ installed[Newest(installed)] = plan[n]
  BY <1>1 DEF Indices, Newest
<1>3. /\ Front(installed) \in Seq(ToSet(plan)) /\ Len(Front(installed)) = n - 1
      /\ \A i \in 1..(n - 1) : Front(installed)[i] = installed[i]
      /\ RemoveAt(installed, Newest(installed)) = Front(installed)
  BY Popped DEF IInv, Shape
<1>4. \A i \in 1..(n - 1) : Front(installed)[i] = plan[i]
  BY <1>1, <1>3
<1>5. \A e : e \in ToSet(Front(installed)) <=> \E i \in 1..(n - 1) : plan[i] = e
  BY <1>3, <1>4, InSet
<1>6. \A e : e \in ToSet(installed) <=> \E i \in 1..n : plan[i] = e
  <2>1. installed \in Seq(ToSet(plan))
    BY DEF IInv, Shape
  <2>2. /\ \A i \in 1..n : installed[i] \in ToSet(installed)
        /\ \A e \in ToSet(installed) : \E i \in 1..n : installed[i] = e
    BY <2>1, InSet
  <2> QED BY <1>1, <2>2
<1>7. plan[n] \notin ToSet(Front(installed))
  <2>1. \A i \in 1..(n - 1) : i \in Indices /\ i # n
    BY <1>1 DEF Indices
  <2> QED BY <1>2, <1>5, <2>1, Planned DEF IInv
<1>8. plan[n] \notin ToSet(remaining)
  <2> SUFFICES ASSUME plan[n] \in ToSet(remaining) PROVE FALSE
    OBVIOUS
  <2>1. PICK k \in 1..Len(remaining) : remaining[k] = plan[n]
    <3>1. remaining \in Seq(ToSet(plan))
      BY DEF IInv, Shape
    <3>2. \A e \in ToSet(remaining) : \E i \in 1..Len(remaining) : remaining[i] = e
      BY <3>1, InSet
    <3> QED BY <3>2
  <2>2. PICK i \in Indices : n < i /\ remaining[k] = plan[i]
    BY DEF IInv, Progress, Loop, Over
  <2>3. \A j \in Indices : plan[n] = plan[j] => n = j
    BY <1>2, Planned DEF IInv
  <2>4. n = i
    BY <2>1, <2>2, <2>3
  <2> QED BY <1>1, <2>2, <2>4
<1>9. ToSet(installed) = ToSet(Front(installed)) \cup {plan[n]}
  <2>1. \A i : i \in 1..n <=> i \in 1..(n - 1) \/ i = n
    BY <1>1
  <2> QED BY <1>5, <1>6, <2>1
<1> QED BY <1>1, <1>2, <1>3, <1>4, <1>7, <1>8, <1>9

\* On a safe function nothing is half installed when features are restored.
LEMMA OnIsInstalled ==
  ASSUME IInv, Loop, NEW s \in Functions, Safe(s)
  PROVE  /\ On(s) = {i \in Indices : i <= Len(installed) /\ s \in Uses(plan[i])}
         /\ ~ Begun(s)
<1>1. ~ Begun(s)
  <2> SUFFICES ASSUME NEW k \in 1..half, Slots[Feature][k] = s PROVE FALSE
    BY DEF Begun
  <2>1. half > 0 /\ interrupts > 0 /\ next <= Len(plan) /\ half \in Nat /\ interrupts # 0
    BY DEF IInv, Errors, Shape, Loop, Fresh
  <2>2. Feature \in Features /\ k \in 1..Len(Slots[Feature])
    <3>1. next \in Indices /\ Feature = plan[next]
      BY <2>1, Planned DEF IInv, Shape, Indices, Feature
    <3>2. Feature \in Features
      BY <3>1, Planned DEF IInv
    <3> QED BY <2>1, <3>2, SlotsShape DEF IInv, Shape
  <2>3. s \in Uses(Feature)
    BY <2>2, SlotsShape
  <2> QED BY <2>1, <2>3 DEF Safe, Disturbed
<1> QED BY <1>1 DEF On

\* The last of the features on a safe function has its wrapper on top, and below
\* it are those of the others.
LEMMA OnTop ==
  ASSUME IInv, Loop, installed # <<>>, NEW s \in Functions, Safe(s),
         s \in Uses(plan[Len(installed)])
  PROVE  /\ layers[s] # <<>> /\ Last(layers[s]) = plan[Len(installed)]
         /\ \A a \in 1..(Len(layers[s]) - 1) :
              \E i \in Indices : i < Len(installed) /\ layers[s][a] = plan[i] /\ s \in Uses(plan[i])
         /\ \A i \in Indices : i < Len(installed) /\ s \in Uses(plan[i]) =>
              \E a \in 1..(Len(layers[s]) - 1) : layers[s][a] = plan[i]
<1> DEFINE n == Len(installed)
<1>1. n \in Indices /\ n \in Nat
  BY Newer, Planned DEF IInv, Indices
<1>2. ~ Fresh /\ ~ Over
  BY DEF Loop, Fresh, Over
<1>3. On(s) = {i \in Indices : i <= n /\ s \in Uses(plan[i])}
  BY <1>2, OnIsInstalled
<1>4. Ordered(s)
  BY <1>2 DEF IInv, Exact
<1>5. /\ layers[s] \in Seq(ToSet(plan) \cup {"foreign"}) /\ Len(layers[s]) \in Nat
      /\ DOMAIN layers[s] = 1..Len(layers[s])
  BY InSet DEF IInv, Shape
<1>6. /\ \A i \in On(s) : \E b \in 1..Len(layers[s]) : layers[s][b] = plan[i]
      /\ \A b \in 1..Len(layers[s]) : \E i \in On(s) : plan[i] = layers[s][b]
  <2>1. ToSet(layers[s]) = {plan[i] : i \in On(s)}
    BY <1>4 DEF Ordered
  <2>2. /\ \A b \in 1..Len(layers[s]) : layers[s][b] \in ToSet(layers[s])
        /\ \A e \in ToSet(layers[s]) : \E b \in 1..Len(layers[s]) : layers[s][b] = e
    BY <1>5, InSet
  <2> QED BY <2>1, <2>2
<1>7. n \in On(s)
  BY <1>1, <1>3
<1>8. PICK a \in 1..Len(layers[s]) : layers[s][a] = plan[n]
  BY <1>6, <1>7
<1>9. \A b \in 1..Len(layers[s]) : \E i \in On(s) : plan[i] = layers[s][b]
  BY <1>6
<1>10. a = Len(layers[s])
  <2> SUFFICES ASSUME a < Len(layers[s]) PROVE FALSE
    BY <1>5
  <2>1. Len(layers[s]) \in 1..Len(layers[s])
    BY <1>5
  <2>2. PICK j \in On(s) : plan[j] = layers[s][Len(layers[s])]
    BY <1>9, <2>1
  <2>3. j \in Indices /\ j <= n
    BY <1>3, <2>2
  <2>4. n < j
    BY <1>1, <1>4, <1>8, <2>1, <2>2, <2>3 DEF Ordered
  <2> QED BY <1>1, <2>3, <2>4 DEF Indices
<1>11. layers[s] # <<>> /\ Last(layers[s]) = plan[n]
  BY <1>5, <1>8, <1>10, InSet DEF Last
<1>12. ASSUME NEW b \in 1..(Len(layers[s]) - 1)
       PROVE  \E i \in Indices : i < n /\ layers[s][b] = plan[i] /\ s \in Uses(plan[i])
  <2>1. b \in 1..Len(layers[s]) /\ b # Len(layers[s])
    BY <1>5
  <2>2. PICK i \in On(s) : plan[i] = layers[s][b]
    BY <1>9, <2>1
  <2>3. i \in Indices /\ i <= n /\ s \in Uses(plan[i])
    BY <1>3, <2>2
  <2>4. i # n
    BY <1>5, <1>8, <1>10, <2>1, <2>2 DEF IInv, Layered, IsInjective
  <2> QED BY <1>1, <2>2, <2>3, <2>4 DEF Indices
<1>13. ASSUME NEW i \in Indices, i < n, s \in Uses(plan[i])
       PROVE  \E b \in 1..(Len(layers[s]) - 1) : layers[s][b] = plan[i]
  <2>1. i \in On(s)
    BY <1>1, <1>3, <1>13 DEF Indices
  <2>2. PICK b \in 1..Len(layers[s]) : layers[s][b] = plan[i]
    BY <1>6, <2>1
  <2>3. b # Len(layers[s])
    BY <1>1, <1>8, <1>10, <1>13, <2>2, Planned DEF IInv, Indices
  <2> QED BY <1>5, <2>2, <2>3
<1> QED BY <1>11, <1>12, <1>13

\* A feature with a safe function finds what it looks for.
LEMMA SafeIsIntact ==
  ASSUME IInv, Loop, installed # <<>>, NEW s \in Functions, Safe(s),
         s \in Uses(plan[Len(installed)])
  PROVE  Intact(plan[Len(installed)])
<1> DEFINE f == plan[Len(installed)]
<1>1. /\ f \in ToSet(installed) /\ f \in ToSet(plan) /\ f \in Features
  BY Newer, Planned DEF IInv
<1>2. CASE f \notin Strict
  BY <1>1, <1>2 DEF Intact, IInv, Shape, Marked
<1>3. CASE f \in Strict
  <2> SUFFICES ASSUME NEW t \in Uses(f) PROVE layers[t] # <<>> /\ Last(layers[t]) = f
    BY <1>3 DEF Intact
  <2>1. t \in Functions
    BY <1>1, Kinds
  <2>2. Safe(t)
    <3>1. CASE t = s
      BY <3>1
    <3>2. CASE t # s
      <4>1. Uses(f) \cap Disturbed = {}
        BY <1>1 DEF Safe
      <4>2. ASSUME NEW g \in ToSet(plan), t \in Uses(g) PROVE Uses(g) \cap Disturbed = {}
        <5>1. g \in Features
          BY Planned DEF IInv
        <5>2. Uses(g) \subseteq Uses(f)
          BY <1>3, <3>2, <4>2, <5>1, StrictShares
        <5> QED BY <4>1, <5>2
      <4> QED BY <4>1, <4>2 DEF Safe
    <3> QED BY <3>1, <3>2
  <2> QED BY <2>1, <2>2, OnTop
<1> QED BY <1>2, <1>3

\* A restore takes nothing but the outermost wrappers off.
LEMMA PeeledShape ==
  ASSUME IInv, NEW f, NEW s \in Functions
  PROVE  /\ Peeled(f, s) \in Seq(ToSet(plan) \cup {"foreign"})
         /\ ToSet(Peeled(f, s)) \subseteq ToSet(layers[s])
         /\ IsInjective(Peeled(f, s))
<1>1. layers[s] \in Seq(ToSet(plan) \cup {"foreign"}) /\ IsInjective(layers[s])
  BY DEF IInv, Shape, Layered
<1>2. CASE Peeled(f, s) = layers[s]
  BY <1>1, <1>2
<1>3. CASE Peeled(f, s) = <<>>
  <2>1. DOMAIN <<>> = {} /\ <<>> \in Seq(ToSet(plan) \cup {"foreign"})
    OBVIOUS
  <2> QED BY <1>3, <2>1 DEF IsInjective, ToSet
<1>4. CASE Peeled(f, s) = Front(layers[s]) /\ layers[s] # <<>>
  <2> DEFINE q == layers[s]
  <2>1. /\ Front(q) \in Seq(ToSet(plan) \cup {"foreign"}) /\ Len(Front(q)) = Len(q) - 1
        /\ \A i \in 1..(Len(q) - 1) : Front(q)[i] = q[i]
    BY <1>1, <1>4, Popped
  <2>2. /\ DOMAIN Front(q) = 1..(Len(q) - 1) /\ DOMAIN q = 1..Len(q) /\ Len(q) \in Nat
    BY <1>1, <2>1, InSet
  <2>3. 1..(Len(q) - 1) \subseteq 1..Len(q)
    BY <2>2
  <2> HIDE DEF q
  <2>4. ToSet(Front(q)) \subseteq ToSet(q)
    BY <2>1, <2>2, <2>3 DEF ToSet
  <2>5. IsInjective(q)
    BY <1>1 DEF q
  <2>6. IsInjective(Front(q))
    BY <2>1, <2>2, <2>3, <2>5 DEF IsInjective
  <2> QED BY <1>4, <2>1, <2>4, <2>6 DEF q
<1> QED BY <1>2, <1>3, <1>4 DEF Peeled

\* The last feature is restored and its wrappers come off.
LEMMA RestoreKeeps ==
  ASSUME IInv, Restore
  PROVE  IInv'
<1> DEFINE n == Len(installed)
<1> DEFINE f == plan[Len(installed)]
<1>1. /\ plan' = plan /\ next' = next /\ half' = half /\ remaining' = remaining
      /\ foreign' = foreign /\ pc' = pc /\ error' = error /\ interrupts' = interrupts
      /\ Loop /\ installed # <<>> /\ ~ Fresh /\ ~ Over /\ ~ Over' /\ ~ Fresh' /\ Feature' = Feature
  BY DEF Restore, Loop, Over, Fresh, Feature
<1>2. /\ f = installed[Newest(installed)] /\ n \in Indices /\ n < next
      /\ Front(installed) \in Seq(ToSet(plan)) /\ Len(Front(installed)) = n - 1
      /\ \A i \in 1..(n - 1) : Front(installed)[i] = plan[i]
      /\ f \notin ToSet(Front(installed)) /\ f \notin ToSet(remaining)
      /\ ToSet(installed) = ToSet(Front(installed)) \cup {f}
      /\ RemoveAt(installed, Newest(installed)) = Front(installed)
  BY <1>1, Newer
<1>3. /\ Intact(f) /\ installed' = Front(installed) /\ marker' = marker \ {f}
      /\ layers' = [s \in Functions |-> Peeled(f, s)]
  BY <1>2 DEF Restore
<1>4. f \in ToSet(plan) /\ f \in Features /\ f # "foreign" /\ n \in Nat /\ Len(plan) \in Nat
  BY <1>2, Planned DEF IInv, Indices
<1>5. \A s \in Functions : layers'[s] = Peeled(f, s)
  BY <1>3
<1> HIDE DEF f, n
<1>6. Shape'
  <2>1. layers' \in [Functions -> Seq(ToSet(plan) \cup {"foreign"})]
    BY <1>3, PeeledShape
  <2>2. Marked'
    <3>1. CutOff' = CutOff
      BY <1>1 DEF CutOff
    <3> QED BY <1>1, <1>2, <1>3, <3>1 DEF IInv, Shape, Marked
  <2> QED BY <1>1, <1>2, <1>3, <2>1, <2>2 DEF IInv, Shape
<1>7. Errors'
  BY <1>1 DEF IInv, Errors
<1>8. Progress'
  <2>1. Len(installed') = n - 1 /\ n - 1 <= Len(plan) /\ n - 1 < next
    BY <1>1, <1>2, <1>3, <1>4, Planned DEF IInv, Progress, Indices
  <2>2. \A k \in 1..Len(remaining) : \E i \in Indices :
           n - 1 < i /\ i < next /\ remaining[k] = plan[i]
    BY <1>1, <1>4 DEF IInv, Progress, Indices, n
  <2> QED BY <1>1, <1>2, <1>3, <2>1, <2>2 DEF IInv, Progress, Indices
<1>9. Layered'
  BY <1>1, <1>5, PeeledShape DEF IInv, Layered
<1>10. Exact'
  <2> SUFFICES ASSUME NEW s \in Functions, Safe(s)' PROVE Ordered(s)'
    BY <1>1 DEF Exact
  <2>1. Safe(s) /\ Ordered(s)
    BY <1>1, SafeShrinks DEF IInv, Exact, Next
  <2>2. /\ On(s) = {i \in Indices : i <= n /\ s \in Uses(plan[i])}
        /\ ~ Begun(s)
    BY <1>1, <2>1, OnIsInstalled DEF n
  <2>3. On(s)' = {i \in Indices : i <= n - 1 /\ s \in Uses(plan[i])}
    <3>1. Begun(s)' <=> Begun(s)
      BY <1>1 DEF Begun
    <3>2. Indices' = Indices
      BY <1>1 DEF Indices
    <3> QED BY <1>1, <1>2, <1>3, <2>2, <3>1, <3>2 DEF On
  <2> DEFINE Rest == {i \in Indices : i < n /\ s \in Uses(plan[i])}
  <2>4. On(s)' = Rest
    BY <1>4, <2>3 DEF Indices
  <2> SUFFICES /\ ToSet(layers'[s]) = {plan[i] : i \in Rest}
               /\ \A a, b \in 1..Len(layers'[s]) : \A i, j \in Indices :
                    a < b /\ plan[i] = layers'[s][a] /\ plan[j] = layers'[s][b] => i < j
    BY <1>1, <2>4 DEF Ordered, Indices
  <2>5. CASE s \notin Uses(f)
    <3>1. layers'[s] = layers[s]
      BY <1>5, <2>5 DEF Peeled
    <3>2. On(s) = Rest
      BY <1>2, <1>4, <2>2, <2>5 DEF Indices, f, n
    <3> QED BY <2>1, <3>1, <3>2 DEF Ordered
  <2>6. CASE s \in Uses(f) /\ Saved(f, s)
    <3>1. layers'[s] = <<>>
      BY <1>5, <2>6 DEF Peeled
    <3>2. Rest = {}
      <4> SUFFICES ASSUME NEW i \in Rest PROVE FALSE
        OBVIOUS
      <4>1. plan[i] = f
        BY <1>4, <2>6, SavedAlone, Planned DEF IInv
      <4>2. i = n
        BY <1>2, <4>1, Planned DEF IInv, f, n
      <4> QED BY <1>4, <4>2 DEF Indices
    <3>3. ToSet(<<>>) = {} /\ 1..Len(<<>>) = {}
      BY DEF ToSet
    <3> QED BY <3>1, <3>2, <3>3
  <2>7. CASE s \in Uses(f) /\ ~ Saved(f, s)
    <3> DEFINE q == layers[s]
    <3>1. /\ q # <<>> /\ Last(q) = f
          /\ \A a \in 1..(Len(q) - 1) : \E i \in Rest : q[a] = plan[i]
          /\ \A i \in Rest : \E a \in 1..(Len(q) - 1) : q[a] = plan[i]
      BY <1>1, <2>1, <2>7, OnTop DEF f, n
    <3>2. layers'[s] = Front(q)
      BY <1>4, <1>5, <2>7, <3>1 DEF Peeled
    <3>3. q \in Seq(ToSet(plan) \cup {"foreign"})
      BY DEF IInv, Shape
    <3>4. /\ Len(Front(q)) = Len(q) - 1 /\ Len(q) \in Nat
          /\ DOMAIN Front(q) = 1..(Len(q) - 1)
          /\ \A a \in 1..(Len(q) - 1) : Front(q)[a] = q[a] /\ a \in 1..Len(q)
      <4>1. Front(q) \in Seq(ToSet(plan) \cup {"foreign"})
        BY <3>1, <3>3, Popped
      <4>2. Len(q) \in Nat /\ DOMAIN Front(q) = 1..Len(Front(q))
        BY <3>3, <4>1, InSet
      <4> QED BY <3>1, <3>3, <4>2, Popped
    <3>5. \A a, b \in 1..Len(q) : \A i, j \in Indices :
             a < b /\ plan[i] = q[a] /\ plan[j] = q[b] => i < j
      BY <2>1 DEF Ordered
    <3> HIDE DEF q, Rest
    <3>6. ToSet(Front(q)) = {plan[i] : i \in Rest}
      <4>1. ToSet(Front(q)) = {Front(q)[a] : a \in 1..(Len(q) - 1)}
        BY <3>4 DEF ToSet
      <4>2. \A a \in 1..(Len(q) - 1) : \E i \in Rest : Front(q)[a] = plan[i]
        BY <3>1, <3>4
      <4>3. \A i \in Rest : \E a \in 1..(Len(q) - 1) : Front(q)[a] = plan[i]
        BY <3>1, <3>4
      <4> QED BY <4>1, <4>2, <4>3
    <3> QED BY <3>2, <3>4, <3>5, <3>6
  <2> QED BY <2>5, <2>6, <2>7
<1>11. Listed'
  <2> SUFFICES ASSUME NEW s \in Functions, f \in Strict, f \in ToSet(layers'[s]) PROVE FALSE
    <3>1. \A s \in Functions : \A g \in Strict \cap ToSet(layers'[s]) :
             g \in marker \/ (half > 0 /\ g = Feature)
      BY <1>5, PeeledShape DEF IInv, Listed
    <3>2. \A s \in Functions : \A g \in Strict \cap ToSet(layers'[s]) : g # f
      OBVIOUS
    <3> QED BY <1>1, <1>3, <3>1, <3>2 DEF Listed
  <2> DEFINE q == layers[s]
  <2>1. f \in ToSet(q)
    BY <1>5, PeeledShape
  <2>2. s \in Uses(f) /\ ~ Saved(f, s)
    BY <1>4, <2>1, Kinds DEF IInv, Layered
  <2>3. q # <<>> /\ Last(q) = f
    BY <1>3, <2>2 DEF Intact
  <2>4. layers'[s] = Front(q)
    BY <1>4, <1>5, <2>2, <2>3 DEF Peeled
  <2>5. q \in Seq(ToSet(plan) \cup {"foreign"}) /\ IsInjective(q)
    BY DEF IInv, Shape, Layered
  <2> HIDE DEF q
  <2>6. /\ Len(Front(q)) = Len(q) - 1 /\ Len(q) \in Nat \ {0}
        /\ Front(q) \in Seq(ToSet(plan) \cup {"foreign"}) /\ q[Len(q)] = f
        /\ \A a \in 1..(Len(q) - 1) : Front(q)[a] = q[a]
    BY <2>3, <2>5, Popped, InSet
  <2>7. PICK a \in 1..(Len(q) - 1) : q[a] = f
    <3>1. \A e \in ToSet(Front(q)) : \E a \in 1..Len(Front(q)) : Front(q)[a] = e
      BY <2>6, InSet
    <3>2. f \in ToSet(Front(q))
      BY <2>4
    <3> QED BY <2>6, <3>1, <3>2
  <2>8. a \in DOMAIN q /\ Len(q) \in DOMAIN q /\ a # Len(q)
    BY <2>5, <2>6, InSet
  <2> QED BY <2>5, <2>6, <2>7, <2>8 DEF IsInjective
<1>12. Untouched'
  BY <1>1 DEF IInv, Untouched
<1>20. Abandoned'
  BY AbandonedKept DEF Next
<1> QED BY <1>6, <1>7, <1>8, <1>9, <1>10, <1>11, <1>12, <1>20 DEF IInv

\* The last feature does not find what it looks for: one of its functions was
\* disturbed, so that none of them is safe.
LEMMA RestoreFailsKeeps ==
  ASSUME IInv, RestoreFails
  PROVE  IInv'
<1> DEFINE n == Len(installed)
<1> DEFINE f == plan[Len(installed)]
<1>1. /\ plan' = plan /\ next' = next /\ half' = half /\ layers' = layers /\ marker' = marker
      /\ foreign' = foreign /\ pc' = pc /\ error' = error /\ interrupts' = interrupts
      /\ Loop /\ installed # <<>> /\ ~ Fresh /\ ~ Over /\ ~ Over' /\ ~ Fresh' /\ Feature' = Feature
  BY DEF RestoreFails, Loop, Over, Fresh, Feature
<1>2. /\ f = installed[Newest(installed)] /\ n \in Indices /\ n < next
      /\ Front(installed) \in Seq(ToSet(plan)) /\ Len(Front(installed)) = n - 1
      /\ \A i \in 1..(n - 1) : Front(installed)[i] = plan[i]
      /\ f \notin ToSet(remaining)
      /\ ToSet(installed) = ToSet(Front(installed)) \cup {f}
      /\ RemoveAt(installed, Newest(installed)) = Front(installed)
  BY <1>1, Newer
<1>3. ~ Intact(f) /\ installed' = Front(installed) /\ remaining' = Append(remaining, f)
  BY <1>2 DEF RestoreFails, Others
<1>4. f \in ToSet(plan) /\ f \in Features /\ n \in Nat /\ Len(plan) \in Nat /\ next \in Nat
  BY <1>2, Planned DEF IInv, Indices
<1>5. \A s \in Functions : Safe(s) => s \notin Uses(f)
  BY <1>1, <1>3, SafeIsIntact
<1>6. /\ remaining' \in Seq(ToSet(plan)) /\ Len(remaining') = Len(remaining) + 1
      /\ \A k \in 1..Len(remaining) : remaining'[k] = remaining[k]
      /\ remaining'[Len(remaining) + 1] = f /\ Len(remaining) \in Nat
      /\ ToSet(remaining') = ToSet(remaining) \cup {f}
      /\ IsInjective(remaining) => IsInjective(remaining')
  <2>1. remaining \in Seq(ToSet(plan))
    BY DEF IInv, Shape
  <2> HIDE DEF f
  <2> QED BY <1>2, <1>3, <1>4, <2>1, Appended, InjectiveAppended, InSet
<1> HIDE DEF f
<1>7. Shape'
  <2>1. Marked'
    <3>1. CutOff' = CutOff
      BY <1>1 DEF CutOff
    <3> QED BY <1>1, <1>2, <1>3, <1>6, <3>1 DEF IInv, Shape, Marked
  <2> QED BY <1>1, <1>2, <1>3, <1>6, <2>1 DEF IInv, Shape
<1>8. Errors'
  BY <1>1 DEF IInv, Errors
<1>9. Progress'
  <2>1. Len(installed') = n - 1 /\ n - 1 <= Len(plan) /\ n - 1 < next
    BY <1>1, <1>2, <1>3, <1>4 DEF IInv, Progress
  <2>2. \A k \in 1..Len(remaining) : \E i \in Indices :
           n - 1 < i /\ i < next /\ remaining[k] = plan[i]
    BY <1>1, <1>4 DEF IInv, Progress, Indices
  <2>3. n - 1 < n /\ f = plan[n]
    BY <1>4 DEF f
  <2>4. \A k \in 1..(Len(remaining) + 1) : k \in 1..Len(remaining) \/ k = Len(remaining) + 1
    BY <1>6
  <2> HIDE DEF n
  <2>5. \A k \in 1..Len(remaining') : \E i \in Indices :
           n - 1 < i /\ i < next /\ remaining'[k] = plan[i]
    BY <1>2, <1>6, <2>2, <2>3, <2>4
  <2> QED BY <1>1, <1>2, <1>3, <1>6, <2>1, <2>5 DEF IInv, Progress, Indices
<1>10. Layered'
  BY <1>1 DEF IInv, Layered
<1>11. Exact'
  <2> SUFFICES ASSUME NEW s \in Functions, Safe(s)' PROVE Ordered(s)'
    BY <1>1 DEF Exact
  <2>1. Safe(s) /\ Ordered(s)
    BY <1>1, SafeShrinks DEF IInv, Exact, Next
  <2>2. /\ On(s) = {i \in Indices : i <= n /\ s \in Uses(plan[i])}
        /\ ~ Begun(s)
    BY <1>1, <2>1, OnIsInstalled
  <2>3. On(s)' = {i \in Indices : i <= n - 1 /\ s \in Uses(plan[i])}
    <3>1. Begun(s)' <=> Begun(s)
      BY <1>1 DEF Begun
    <3>2. Indices' = Indices
      BY <1>1 DEF Indices
    <3> QED BY <1>1, <1>2, <1>3, <2>2, <3>1, <3>2 DEF On
  <2>4. s \notin Uses(plan[n])
    BY <1>5, <2>1 DEF f
  <2>5. \A i \in Indices : i <= n <=> i <= n - 1 \/ i = n
    BY <1>4 DEF Indices
  <2> HIDE DEF n
  <2>6. On(s)' = On(s)
    BY <2>2, <2>3, <2>4, <2>5
  <2> QED BY <1>1, <2>1, <2>6 DEF Ordered, Indices
<1>12. Listed'
  BY <1>1 DEF IInv, Listed
<1>13. Untouched'
  <2> SUFFICES ASSUME foreign = {}, interrupts = 0 PROVE FALSE
    BY <1>1 DEF Untouched
  <2>1. PICK s \in Uses(f) : s \in Functions
    <3>1. 1 \in 1..Len(Slots[f]) /\ Slots[f][1] \in Uses(f)
      BY <1>4, SlotsShape
    <3> QED BY <1>4, <3>1, Kinds
  <2> QED BY <1>5, <2>1, AllSafe
<1>20. Abandoned'
  BY AbandonedKept DEF Next
<1> QED BY <1>7, <1>8, <1>9, <1>10, <1>11, <1>12, <1>13, <1>20 DEF IInv

LEMMA Reversed ==
  ASSUME NEW S, NEW q \in Seq(S)
  PROVE  Kept(q) \in Seq(S) /\ ToSet(Kept(q)) = ToSet(q) /\ (q = <<>> => Kept(q) = <<>>)
<1>1. Kept(q) = [i \in 1..Len(q) |-> q[(Len(q) - i) + 1]] /\ Len(q) \in Nat
  BY InSet DEF Kept, Reverse
<1>2. /\ \A i \in 1..Len(q) : (Len(q) - i) + 1 \in 1..Len(q)
      /\ \A i \in 1..Len(q) : (Len(q) - ((Len(q) - i) + 1)) + 1 = i
  BY <1>1
<1>3. \A i \in 1..Len(q) : q[i] \in S
  BY InSet
<1>4. Kept(q) \in [1..Len(q) -> S]
  BY <1>1, <1>2, <1>3
<1>5. Kept(q) \in Seq(S) /\ DOMAIN Kept(q) = 1..Len(q) /\ DOMAIN q = 1..Len(q)
  BY <1>1, <1>4, InSet
<1>6. Len(Kept(q)) = Len(q)
  BY <1>1, <1>5, InSet
<1>7. ToSet(Kept(q)) \subseteq ToSet(q)
  BY <1>1, <1>2, <1>5 DEF ToSet
<1>8. ToSet(q) \subseteq ToSet(Kept(q))
  <2> SUFFICES ASSUME NEW i \in 1..Len(q) PROVE q[i] \in ToSet(Kept(q))
    BY <1>5 DEF ToSet
  <2>1. Kept(q)[(Len(q) - i) + 1] = q[i]
    BY <1>1, <1>2
  <2> QED BY <1>2, <1>5, <2>1 DEF ToSet
<1>9. q = <<>> => Kept(q) = <<>>
  BY <1>5, <1>6, InSet
<1> QED BY <1>5, <1>7, <1>8, <1>9

\* Nothing is listed any more, so nothing is left on a safe function.
LEMMA RestoredKeeps ==
  ASSUME IInv, Restored
  PROVE  IInv'
<1>1. /\ plan' = plan /\ next' = next /\ half' = half /\ layers' = layers /\ marker' = marker
      /\ foreign' = foreign /\ remaining' = remaining /\ interrupts' = interrupts
      /\ Loop /\ installed = <<>> /\ ~ Fresh /\ ~ Over /\ Over' /\ ~ Fresh' /\ Feature' = Feature
      /\ pc' \in {"finish", "done"} /\ installed' = Kept(remaining)
      /\ error' = IF remaining = <<>> THEN error ELSE FirstError(error)
  BY DEF Restored, Loop, Over, Fresh, Feature
<1>2. /\ installed' \in Seq(ToSet(plan)) /\ ToSet(installed') = ToSet(remaining)
      /\ remaining = <<>> => installed' = <<>>
  BY <1>1, Reversed DEF IInv, Shape
<1>3. ToSet(installed) = {} /\ Len(installed) = 0
  BY <1>1 DEF ToSet
<1>4. Shape'
  <2>1. CutOff' = CutOff
    BY <1>1 DEF CutOff
  <2>2. Marked'
    BY <1>1, <1>2, <1>3, <2>1 DEF IInv, Shape, Marked
  <2> QED BY <1>1, <1>2, <2>2 DEF IInv, Shape
<1>5. Errors'
  BY <1>1 DEF IInv, Errors, FirstError, Fresh, Over, Loop
<1>6. Progress'
  BY <1>1, <1>2 DEF Progress
<1>7. Layered'
  BY <1>1 DEF IInv, Layered
<1>8. Exact'
  <2> SUFFICES ASSUME NEW s \in Functions, Safe(s)' PROVE layers[s] = <<>>
    BY <1>1 DEF Exact
  <2>1. Safe(s) /\ Ordered(s)
    BY <1>1, SafeShrinks DEF IInv, Exact, Next
  <2>2. On(s) = {}
    <3>1. On(s) = {i \in Indices : i <= 0 /\ s \in Uses(plan[i])}
      BY <1>1, <1>3, <2>1, OnIsInstalled
    <3> QED BY <3>1 DEF Indices
  <2>3. ToSet(layers[s]) = {}
    BY <2>1, <2>2 DEF Ordered
  <2>4. layers[s] \in Seq(ToSet(plan) \cup {"foreign"})
    BY DEF IInv, Shape
  <2>5. /\ Len(layers[s]) \in Nat /\ (layers[s] = <<>> <=> Len(layers[s]) = 0)
        /\ \A i \in 1..Len(layers[s]) : layers[s][i] \in ToSet(layers[s])
    BY <2>4, InSet
  <2>6. Len(layers[s]) # 0 => 1 \in 1..Len(layers[s])
    BY <2>5
  <2> QED BY <2>3, <2>5, <2>6
<1>9. Listed'
  BY <1>1 DEF IInv, Listed
<1>10. Untouched'
  BY <1>1 DEF IInv, Untouched
<1>20. Abandoned'
  BY AbandonedKept DEF Next
<1> QED BY <1>4, <1>5, <1>6, <1>7, <1>8, <1>9, <1>10, <1>20 DEF IInv

LEMMA FinishKeeps ==
  ASSUME IInv, Finish
  PROVE  IInv'
<1>1. /\ plan' = plan /\ next' = next /\ half' = half /\ layers' = layers /\ marker' = marker
      /\ foreign' = foreign /\ remaining' = remaining /\ interrupts' = interrupts
      /\ installed' = installed /\ ~ Fresh /\ Over /\ Over' /\ ~ Fresh' /\ Feature' = Feature
      /\ pc' = "done" /\ error' \in {error, FirstError(error)}
  BY DEF Finish, Over, Fresh, Feature
<1>2. Shape'
  <2>1. Marked'
    BY <1>1 DEF IInv, Shape, Marked, CutOff
  <2> QED BY <1>1, <2>1 DEF IInv, Shape
<1>3. Errors'
  BY <1>1 DEF IInv, Errors, FirstError, Finish, Over, Fresh
<1>4. Progress' /\ Layered' /\ Listed' /\ Untouched'
  BY <1>1 DEF IInv, Progress, Layered, Listed, Untouched
<1>5. Exact'
  <2> SUFFICES ASSUME NEW s \in Functions, Safe(s)' PROVE layers[s] = <<>>
    BY <1>1 DEF Exact
  <2>1. Safe(s)
    BY SafeShrinks DEF Next
  <2> QED BY <1>1, <2>1 DEF IInv, Exact
<1>20. Abandoned'
  BY AbandonedKept DEF Next
<1> QED BY <1>2, <1>3, <1>4, <1>5, <1>20 DEF IInv

-----------------------------------------------------------------------------
(* The theorems.                                                           *)

LEMMA IInvInit == Init => IInv
<1> SUFFICES ASSUME Init PROVE IInv
  OBVIOUS
<1>1. /\ plan \in Seq(Universe) /\ Legal(plan) /\ Len(plan) \in Nat
  <2>1. plan \in UNION {[1..m -> Universe] : m \in 0..MaxFeatures} /\ Legal(plan)
    BY DEF Init, SeqOf
  <2>2. PICK m \in 0..MaxFeatures : plan \in [1..m -> Universe]
    BY <2>1
  <2>3. m \in Nat
    BY StackAssumption
  <2>4. plan \in Seq(Universe)
    BY <2>2, <2>3
  <2> QED BY <2>1, <2>4, InSet
<1>2. /\ pc = "install" /\ next = 1 /\ half = 0 /\ installed = <<>> /\ remaining = <<>>
      /\ marker = {} /\ error = "none" /\ foreign = {} /\ interrupts = 0
      /\ layers = [s \in Functions |-> <<>>] /\ Fresh /\ ~ Over
  BY DEF Init, Fresh, Over
<1>3. ToSet(<<>>) = {} /\ Len(<<>>) = 0 /\ (\A S : <<>> \in Seq(S)) /\ IsInjective(<<>>)
  BY DEF ToSet, IsInjective
<1>4. plan # <<>> /\ Len(plan) \in Nat \ {0}
  BY <1>1, InSet DEF Legal
<1>5. Shape
  <2>1. plan[1] \in Features
    BY <1>1, <1>4, InSet, StackAssumption
  <2>2. 0 <= Len(Slots[Feature])
    BY <1>2, <2>1, SlotsShape DEF Feature
  <2>3. Marked
    BY <1>2, <1>3 DEF Marked
  <2> QED BY <1>1, <1>2, <1>3, <1>4, <2>2, <2>3, StackAssumption DEF Shape
<1>6. Errors
  BY <1>2 DEF Errors
<1>7. Progress
  BY <1>2, <1>3, <1>4 DEF Progress
<1>8. Layered /\ Listed /\ Untouched /\ Abandoned
  BY <1>2, <1>3 DEF Layered, Listed, Untouched, Abandoned
<1>9. Exact
  <2> SUFFICES ASSUME NEW s \in Functions PROVE Ordered(s)
    BY <1>2 DEF Exact
  <2>1. On(s) = {}
    BY <1>2, <1>3 DEF On, Indices, Begun
  <2>2. layers[s] = <<>> /\ 1..Len(layers[s]) = {}
    BY <1>2, <1>3
  <2> QED BY <1>3, <2>1, <2>2 DEF Ordered
<1> QED BY <1>5, <1>6, <1>7, <1>8, <1>9 DEF IInv

LEMMA IInvStep == IInv /\ [Next]_vars => IInv'
<1> SUFFICES ASSUME IInv, [Next]_vars PROVE IInv'
  OBVIOUS
<1>1. CASE UNCHANGED vars
  <2> USE <1>1 DEF vars, IInv, Feature, Fresh, Over, Indices
  <2>1. Shape' /\ Errors' /\ Abandoned'
    BY DEF Shape, Errors, Marked, CutOff, Abandoned
  <2>2. Progress' /\ Layered' /\ Listed' /\ Untouched'
    BY DEF Progress, Layered, Listed, Untouched
  <2>3. Exact'
    BY DEF Exact, Safe, Disturbed, Ordered, On, Begun
  <2> QED BY <2>1, <2>2, <2>3
<1>2. ASSUME NEW s \in Functions, Drift(s) PROVE IInv'
  BY <1>2, DriftKeeps
<1> QED BY <1>1, <1>2, QuietKeeps, AssignKeeps, MarkKeeps, InstalledKeeps, RestoreKeeps,
           RestoreFailsKeeps, RestoredKeeps, FinishKeeps DEF Next

\* The inductive invariant holds of every run.
THEOREM Inductive == Spec => []IInv
BY IInvInit, IInvStep, PTL DEF Spec

LEMMA IInvTypes == IInv => TypeOK
<1> SUFFICES ASSUME IInv PROVE TypeOK
  OBVIOUS
<1>1. installed \in Seq(ToSet(plan)) /\ remaining \in Seq(ToSet(plan))
  BY DEF IInv, Shape
<1> DEFINE q == installed \o remaining
<1>2. /\ q \in Seq(ToSet(plan)) /\ Len(q) = Len(installed) + Len(remaining)
      /\ Len(installed) \in Nat /\ Len(remaining) \in Nat
      /\ \A i \in 1..(Len(installed) + Len(remaining)) :
           q[i] = IF i <= Len(installed) THEN installed[i] ELSE remaining[i - Len(installed)]
  BY <1>1, ConcatProperties, InSet
<1>3. ToSet(q) \subseteq ToSet(plan) /\ DOMAIN q = 1..(Len(installed) + Len(remaining))
  BY <1>2, InSet
<1>4. ToSet(installed) \subseteq ToSet(plan) /\ ToSet(remaining) \subseteq ToSet(plan)
  BY <1>1, InSet
<1>5. ~ Over => IsInjective(q)
  <2> SUFFICES ASSUME ~ Over, NEW a \in DOMAIN q, NEW b \in DOMAIN q, q[a] = q[b] PROVE a = b
    BY DEF IsInjective
  <2> DEFINE n == Len(installed)
  <2>1. /\ n \in Nat /\ n <= Len(plan) /\ Len(plan) \in Nat
        /\ \A i \in 1..n : installed[i] = plan[i] /\ i \in Indices
        /\ \A k \in 1..Len(remaining) : \E i \in Indices : n < i /\ remaining[k] = plan[i]
        /\ \A k, m \in 1..Len(remaining) : remaining[k] = remaining[m] => k = m
    <3>1. DOMAIN remaining = 1..Len(remaining)
      BY <1>1, InSet
    <3>2. \A k, m \in 1..Len(remaining) : remaining[k] = remaining[m] => k = m
      BY <3>1 DEF IInv, Progress, IsInjective
    <3>3. n <= Len(plan) /\ \A i \in 1..n : installed[i] = plan[i]
      BY DEF IInv, Progress
    <3>4. \A k \in 1..Len(remaining) : \E i \in Indices : n < i /\ remaining[k] = plan[i]
      BY DEF IInv, Progress
    <3>5. Len(plan) \in Nat /\ n \in Nat
      BY <1>2, Planned DEF IInv
    <3>6. \A i \in 1..n : i \in Indices
      BY <3>3, <3>5 DEF Indices
    <3> QED BY <3>2, <3>3, <3>4, <3>5, <3>6
  <2>2. \A i, j \in Indices : plan[i] = plan[j] => i = j
    BY Planned DEF IInv
  <2> HIDE DEF q
  <2>3. \A c \in DOMAIN q : \/ c \in 1..n /\ q[c] = installed[c]
                            \/ c - n \in 1..Len(remaining) /\ q[c] = remaining[c - n]
    BY <1>2, <1>3
  <2>4. \A c \in DOMAIN q : c \in Nat
    BY <1>2, <1>3
  <2>5. CASE a \in 1..n /\ b \in 1..n
    <3>1. q[a] = plan[a] /\ q[b] = plan[b]
      BY <1>2, <1>3, <2>1, <2>5
    <3> QED BY <2>1, <2>2, <2>5, <3>1
  <2>6. CASE a \notin 1..n /\ b \notin 1..n
    <3>1. a - n \in 1..Len(remaining) /\ b - n \in 1..Len(remaining) /\ a - n = b - n
      BY <2>1, <2>3, <2>6
    <3> QED BY <1>2, <2>4, <3>1
  <2>7. ASSUME NEW c \in DOMAIN q, NEW d \in DOMAIN q, c \in 1..n, d \notin 1..n PROVE q[c] # q[d]
    <3>1. q[c] = plan[c] /\ c \in Indices /\ c <= n
      BY <1>2, <1>3, <2>1, <2>7
    <3>2. PICK i \in Indices : n < i /\ q[d] = plan[i]
      BY <2>1, <2>3, <2>7
    <3> QED BY <1>2, <2>2, <3>1, <3>2 DEF Indices
  <2> QED BY <2>5, <2>6, <2>7
<1>6. \A s \in Functions : ToSet(layers[s]) \subseteq ToSet(plan) \cup {"foreign"}
  <2> SUFFICES ASSUME NEW s \in Functions PROVE ToSet(layers[s]) \subseteq ToSet(plan) \cup {"foreign"}
    OBVIOUS
  <2>1. layers[s] \in Seq(ToSet(plan) \cup {"foreign"})
    BY DEF IInv, Shape
  <2> QED BY <2>1, InSet
<1>7. marker \subseteq ToSet(plan) /\ ToSet(plan) \subseteq Universe
  <2>1. CutOff \subseteq ToSet(plan)
    BY Planned DEF CutOff, Feature, IInv, Shape, Indices
  <2> QED BY <1>4, <2>1, Planned DEF IInv, Shape, Marked
<1> HIDE DEF q
<1>8. ToSet(q) \cup marker \subseteq ToSet(plan) /\ (IsInjective(q) \/ pc \in {"finish", "done"})
  BY <1>3, <1>5, <1>7 DEF Over
<1> QED BY <1>6, <1>7, <1>8 DEF TypeOK, IInv, Shape, Errors, q

\* Of every plan: the stack lists features of the plan without repetition, and an
\* install under way has made at most its own assignments.
THEOREM TypeCorrect == Spec => []TypeOK
BY Inductive, IInvTypes, PTL

\* The process ends with every function as it was, of every plan and wherever the
\* installation failed, when nobody else touched them; with the stack listing what
\* is still marked; and after success without the wrapper of a strict feature.
THEOREM EndsClean == Spec => []CleanExit
<1>1. IInv => CleanExit
  <2> SUFFICES ASSUME IInv, pc \in {"done", "abandoned"} PROVE CleanExit
    BY DEF CleanExit
  <2>1. ~ Fresh /\ (pc = "done" => Over) /\ (pc = "abandoned" => ~ Over)
    BY DEF Over, Fresh
  <2>2. pc = "abandoned" => interrupts # 0 /\ error # "none" /\ remaining = <<>>
    BY DEF IInv, Abandoned
  <2>3. ASSUME foreign = {}, interrupts = 0
        PROVE  (\A s \in Functions : layers[s] = <<>>) /\ installed = <<>>
    <3>1. \A s \in Functions : layers[s] = <<>>
      BY <2>1, <2>2, <2>3, AllSafe DEF IInv, Exact
    <3>2. installed = <<>>
      BY <2>1, <2>2, <2>3 DEF IInv, Untouched, Progress
    <3> QED BY <3>1, <3>2
  <2>4. ToSet(remaining) \subseteq ToSet(installed)
    <3>1. pc = "abandoned" => ToSet(remaining) = {}
      BY <2>2 DEF ToSet
    <3> QED BY <2>1, <3>1 DEF IInv, Progress
  <2>5. ToSet(installed) \subseteq marker /\ marker \subseteq ToSet(installed) \cup CutOff
    BY <2>4 DEF IInv, Shape, Marked
  <2>6. ASSUME error = "none", NEW s \in Functions PROVE ToSet(layers[s]) \cap Strict = {}
    <3>1. remaining = <<>> /\ ~ half > 0 /\ Over
      BY <2>1, <2>2, <2>6 DEF IInv, Errors
    <3>2. CutOff = {}
      BY <3>1 DEF CutOff, IInv, Shape
    <3>3. marker = {}
      BY <2>5, <3>1, <3>2 DEF IInv, Progress, ToSet
    <3> QED BY <3>1, <3>3 DEF IInv, Listed
  <2> QED BY <2>3, <2>5, <2>6 DEF CleanExit
<1> QED BY <1>1, Inductive, PTL

\* What somebody else replaced, or a cut off install left behind, keeps no
\* function that shares no feature with it from being put back.
THEOREM FailuresStayLocal == Spec => []Independent
<1>1. IInv => Independent
  <2> SUFFICES ASSUME IInv, pc = "done", NEW s \in Functions, Safe(s) PROVE layers[s] = <<>>
    BY DEF Independent, Safe
  <2> QED BY DEF IInv, Exact, Over
<1> QED BY <1>1, Inductive, PTL

\* The first error is the one the process ends with.
THEOREM FirstErrorKept == Spec => PrimaryErrorKept
<1>1. IInv /\ [Next]_vars => [error # "none" => error' = error]_vars
  <2> SUFFICES ASSUME IInv, Next, error # "none" PROVE error' = error
    OBVIOUS
  <2>1. ~ Fresh
    BY DEF IInv, Errors
  <2> QED BY <2>1 DEF Next, Assign, Mark, Installed, InstallFails, Abandon, InstalledAll, Drift, Train, Restore,
                      RestoreFails, Restored, Finish, FirstError, Fresh
<1> QED BY <1>1, Inductive, PTL DEF Spec, PrimaryErrorKept
=============================================================================
