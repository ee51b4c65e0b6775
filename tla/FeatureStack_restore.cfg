\* Every legal plan of up to four of eight features that share functions; one
\* function is replaced by others while the trainer runs, and the installation
\* is interrupted once, inside an install or outside of it.
SPECIFICATION Spec
CONSTANTS
  Universe = {"action_boundary_projection", "horizon_weight_profile",
    "state_robustness_jitter", "checkpoint_memory_trim",
    "gradient_clip_diagnostics", "checkpoint_metric_snapshot",
    "trackio_logging", "canonical_image_scaling"}
  MaxFeatures = 4
  MaxDrifts = 1
  MaxInterrupts = 1
INVARIANTS TypeOK CleanExit Independent
PROPERTY PrimaryErrorKept
\* The process ends.
CHECK_DEADLOCK FALSE
