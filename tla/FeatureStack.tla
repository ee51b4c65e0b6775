---------------------------- MODULE FeatureStack ----------------------------
(***************************************************************************)
(* The training feature stack of vla/training/features.py and the process  *)
(* that runs it, scripts/train_smolvla_v2.py: features are installed in    *)
(* the order of the plan by replacing functions of the upstream trainer,   *)
(* the trainer runs, and the functions are put back in reverse order.      *)
(* Several features replace the same function, every feature recognises    *)
(* its own wrapper in its own way, an install may fail or be interrupted   *)
(* and a function may be replaced by someone else while the trainer runs.  *)
(***************************************************************************)
EXTENDS Naturals, Sequences, SequencesExt, FiniteSets

CONSTANTS
  Universe,       \* features a plan may declare
  MaxFeatures,    \* bound on the length of a plan
  MaxDrifts,      \* functions replaced by others while the trainer runs
  MaxInterrupts   \* interrupts of the installation, between any two statements

\* The functions a feature replaces, in the order of its assignments.
Slots == [
  train_only_statistics          |-> <<"make_train_eval_datasets">>,
  masked_camera_skip             |-> <<"embed_prefix">>,
  canonical_image_scaling        |-> <<"cycle">>,
  action_boundary_projection     |-> <<"make_pre_post_processors">>,
  fixed_frame_sampler            |-> <<"EpisodeAwareSampler">>,
  explicit_sample_schedule       |-> <<"EpisodeAwareSampler">>,
  horizon_weight_profile         |-> <<"model_forward", "policy_forward">>,
  image_key_scene_regularization |-> <<"policy_forward">>,
  state_robustness_jitter        |-> <<"policy_forward">>,
  state_conditioning_dropout     |-> <<"policy_forward">>,
  vision_front_end_unfreeze      |-> <<"make_policy">>,
  checkpoint_memory_trim         |-> <<"resume_after_prepare", "save_checkpoint">>,
  gradient_clip_diagnostics      |-> <<"update_policy", "clip_grad_norm_">>,
  checkpoint_metric_snapshot     |-> <<"update_policy", "save_checkpoint">>,
  trackio_logging                |-> <<"WandBLogger">>]

Features == DOMAIN Slots
Uses(f) == ToSet(Slots[f])
Functions == UNION {Uses(f) : f \in Features}

\* These look for their own wrapper on top of the function and raise when
\* another one is there; the others trust a marker of the module.
Strict == {"masked_camera_skip", "canonical_image_scaling",
           "explicit_sample_schedule", "horizon_weight_profile",
           "image_key_scene_regularization", "state_robustness_jitter",
           "state_conditioning_dropout"}

\* These put back the function they saved, whatever is there now.
Saved(f, s) == \/ f = "trackio_logging"
               \/ f = "gradient_clip_diagnostics" /\ s = "clip_grad_norm_"

ASSUME StackAssumption ==
  /\ Universe \subseteq Features
  /\ MaxFeatures \in Nat /\ MaxDrifts \in Nat /\ MaxInterrupts \in Nat

\* _validate_features(): no feature twice, and the exclusive ones.
Exclusive == {
  {"state_robustness_jitter", "state_conditioning_dropout"},
  {"fixed_frame_sampler", "explicit_sample_schedule"},
  {"image_key_scene_regularization", "explicit_sample_schedule"},
  {"image_key_scene_regularization", "horizon_weight_profile"},
  {"image_key_scene_regularization", "state_robustness_jitter"},
  {"image_key_scene_regularization", "state_conditioning_dropout"},
  {"image_key_scene_regularization", "vision_front_end_unfreeze"}}
Legal(p) ==
  /\ p # <<>> /\ IsInjective(p)
  /\ "action_boundary_projection" \in ToSet(p)
  /\ \A pair \in Exclusive : ~ (pair \subseteq ToSet(p))

VARIABLES
  plan,       \* features in the order of the plan
  pc,         \* what the process does
  next,       \* feature being installed
  half,       \* assignments of that install already made
  installed,  \* FeatureStack.installed
  remaining,  \* names that restore_all() could not restore
  layers,     \* wrappers on each function, the outermost last
  marker,     \* features whose install() has marked them as installed
  error,      \* the exception the process ends with
  foreign,    \* functions replaced by others
  interrupts  \* interrupts so far

vars == <<plan, pc, next, half, installed, remaining, layers, marker, error,
          foreign, interrupts>>

-----------------------------------------------------------------------------
(* install_all()                                                           *)

Feature == plan[next]

\* One assignment of install().
Assign ==
  /\ pc = "install" /\ next <= Len(plan) /\ half < Len(Slots[Feature])
  /\ layers' = [layers EXCEPT ![Slots[Feature][half + 1]] = Append(@, Feature)]
  /\ half' = half + 1
  /\ UNCHANGED <<plan, pc, next, installed, remaining, marker, error, foreign,
                 interrupts>>

\* Wrong on purpose: the count of assignments is not reset.
AdvanceOnly == next' = next + 1 /\ UNCHANGED half
Advance == next' = next + 1 /\ half' = 0

\* The last statement of install() marks the feature.
Mark ==
  /\ pc = "install" /\ next <= Len(plan) /\ half = Len(Slots[Feature])
  /\ Feature \notin marker
  /\ marker' = marker \cup {Feature}
  /\ UNCHANGED <<plan, pc, next, half, installed, remaining, layers, error, foreign,
                 interrupts>>

\* install() has returned, and install_all() lists the feature.
Returned == next <= Len(plan) /\ half = Len(Slots[Feature]) /\ Feature \in marker

Installed ==
  /\ pc = "install" /\ Returned
  /\ installed' = Append(installed, Feature)
  /\ Advance
  /\ UNCHANGED <<plan, pc, remaining, layers, marker, error, foreign, interrupts>>

\* install() raises: by itself only before its first assignment, interrupted
\* after any statement.  install_all() rolls back the features listed so far.
InstallFails ==
  /\ pc = "install" /\ next <= Len(plan)
  /\ \/ half = 0 /\ UNCHANGED interrupts
     \/ half > 0 /\ interrupts < MaxInterrupts /\ interrupts' = interrupts + 1
  /\ pc' = "rollback" /\ error' = "install"
  /\ UNCHANGED <<plan, next, half, installed, remaining, layers, marker, foreign>>

\* An interrupt outside install() is caught by nobody: neither the features
\* listed so far nor one not yet listed are restored.
Abandon ==
  /\ pc = "install" /\ (half = 0 \/ Returned)
  /\ interrupts < MaxInterrupts /\ interrupts' = interrupts + 1
  /\ pc' = "abandoned" /\ error' = "install"
  /\ UNCHANGED <<plan, next, half, installed, remaining, layers, marker, foreign>>

InstalledAll ==
  /\ pc = "install" /\ next > Len(plan)
  /\ pc' = "train"
  /\ UNCHANGED <<plan, next, half, installed, remaining, layers, marker, error,
                 foreign, interrupts>>

-----------------------------------------------------------------------------
(* lerobot_train.main()                                                    *)

Drift(s) ==
  /\ pc = "train" /\ Cardinality(foreign) < MaxDrifts /\ s \notin foreign
  /\ foreign' = foreign \cup {s}
  /\ layers' = [layers EXCEPT ![s] = Append(@, "foreign")]
  /\ UNCHANGED <<plan, pc, next, half, installed, remaining, marker, error,
                 interrupts>>

Train ==
  /\ pc = "train"
  /\ pc' = "restore"
  /\ error' \in {"none", "trainer"}
  /\ UNCHANGED <<plan, next, half, installed, remaining, layers, marker,
                 foreign, interrupts>>

-----------------------------------------------------------------------------
(* restore_all()                                                           *)

\* The check before a restore: a strict feature finds its wrapper on top of
\* every function it replaced, the others find their marker.
Intact(f) ==
  IF f \in Strict
  THEN \A s \in Uses(f) : layers[s] # <<>> /\ Last(layers[s]) = f
  ELSE f \in marker

\* The function after its restore: a saved original drops every layer, and
\* _rosetta_v2_original leads one layer down from a wrapper and is missing
\* from a function that is none.
Peeled(f, s) ==
  IF s \notin Uses(f) \/ layers[s] = <<>> THEN layers[s]
  ELSE IF Saved(f, s) THEN <<>>
  ELSE IF Last(layers[s]) = "foreign" THEN layers[s]
  ELSE Front(layers[s])

\* Wrong on purpose: features are restored in the order of installation; and
\* the first failure ends the loop.
Oldest(seq) == 1
NothingLeft(seq) == <<>>

\* installed.pop(): which one it takes, and what it leaves.
Newest(seq) == Len(seq)
Others(seq) == RemoveAt(seq, Newest(seq))

Restore ==
  /\ pc \in {"rollback", "restore"} /\ installed # <<>>
  /\ LET name == installed[Newest(installed)]
     IN  /\ Intact(name)
         /\ installed' = RemoveAt(installed, Newest(installed))
         /\ layers' = [s \in Functions |-> Peeled(name, s)]
         /\ marker' = marker \ {name}
  /\ UNCHANGED <<plan, pc, next, half, remaining, error, foreign, interrupts>>

RestoreFails ==
  /\ pc \in {"rollback", "restore"} /\ installed # <<>>
  /\ LET name == installed[Newest(installed)]
     IN  /\ ~ Intact(name)
         /\ installed' = Others(installed)
         /\ remaining' = Append(remaining, name)
  /\ UNCHANGED <<plan, pc, next, half, layers, marker, error, foreign, interrupts>>

\* Wrong on purpose: the last error wins.
LastError(e) == "cleanup"

\* An error of the cleanup never replaces the one that caused it.
FirstError(e) == IF e = "none" THEN "cleanup" ELSE e
Kept(seq) == Reverse(seq)

Restored ==
  /\ pc \in {"rollback", "restore"} /\ installed = <<>>
  /\ installed' = Kept(remaining)
  /\ error' = IF remaining = <<>> THEN error ELSE FirstError(error)
  /\ pc' = IF pc = "restore" /\ "trackio_logging" \in ToSet(plan)
           THEN "finish" ELSE "done"
  /\ UNCHANGED <<plan, next, half, remaining, layers, marker, foreign, interrupts>>

\* finish_trackio(), which may raise.
Finish ==
  /\ pc = "finish"
  /\ pc' = "done"
  /\ error' \in {error, FirstError(error)}
  /\ UNCHANGED <<plan, next, half, installed, remaining, layers, marker,
                 foreign, interrupts>>

-----------------------------------------------------------------------------
Init ==
  /\ plan \in {p \in SeqOf(Universe, MaxFeatures) : Legal(p)}
  /\ pc = "install" /\ next = 1 /\ half = 0
  /\ installed = <<>> /\ remaining = <<>>
  /\ layers = [s \in Functions |-> <<>>]
  /\ marker = {} /\ error = "none" /\ foreign = {} /\ interrupts = 0

Next ==
  \/ Assign \/ Mark \/ Installed \/ InstallFails \/ Abandon \/ InstalledAll
  \/ \E s \in Functions : Drift(s)
  \/ Train \/ Restore \/ RestoreFails \/ Restored \/ Finish

Spec == Init /\ [][Next]_vars

-----------------------------------------------------------------------------
\* Plans and stacks hold features without repetition; an install under way
\* has made at most its own assignments.
TypeOK ==
  /\ Legal(plan) /\ ToSet(plan) \subseteq Universe
  /\ pc \in {"install", "train", "rollback", "restore", "finish", "done", "abandoned"}
  /\ next \in 1..(Len(plan) + 1)
  /\ half \in Nat /\ (next <= Len(plan) => half <= Len(Slots[Feature]))
  /\ IsInjective(installed \o remaining) \/ pc \in {"finish", "done"}
  /\ ToSet(installed \o remaining) \cup marker \subseteq ToSet(plan)
  /\ DOMAIN layers = Functions
  /\ \A s \in Functions : ToSet(layers[s]) \subseteq ToSet(plan) \cup {"foreign"}
  /\ error \in {"none", "install", "trainer", "cleanup"}
  /\ foreign \subseteq Functions /\ interrupts \in 0..MaxInterrupts

\* The feature whose install was begun and never listed.
CutOff == IF next > Len(plan) \/ half = 0 THEN {} ELSE {Feature}

\* "An ordered set of features with rollback and reverse-order restore": when
\* nobody else replaced a function, the process ends with every function of
\* the trainer as it was, whatever was installed over it and wherever the
\* installation failed.  An interrupted install is excepted: install_all()
\* does not yet list its feature.  In any case the stack lists features that
\* are still marked, and all of them but a cut-off one; and without an error
\* the wrapper of every feature that recognises its own is gone.
CleanExit ==
  pc \in {"done", "abandoned"} =>
     /\ foreign = {} /\ interrupts = 0 =>
          /\ \A s \in Functions : layers[s] = <<>>
          /\ installed = <<>>
     /\ ToSet(installed) \subseteq marker
     /\ marker \subseteq ToSet(installed) \cup CutOff
     /\ error = "none" => \A s \in Functions : ToSet(layers[s]) \cap Strict = {}

\* Functions that others replaced, or that an install was cut off from.
Disturbed == foreign \cup IF interrupts = 0 THEN {} ELSE Uses(Feature)

\* test_restore_attempts_all_features_after_one_failure: a function replaced
\* by others, or left half installed, keeps nobody from restoring the
\* functions it does not share a feature with.
Independent ==
  pc = "done" => \A s \in Functions :
     layers[s] = <<>> \/ s \in Disturbed
       \/ \E f \in ToSet(plan) : s \in Uses(f) /\ Uses(f) \cap Disturbed # {}

\* test_cleanup_preserves_primary_failure: no failure of the cleanup hides
\* the error of the installation or of the trainer.
PrimaryErrorKept == [][error # "none" => error' = error]_vars

=============================================================================
