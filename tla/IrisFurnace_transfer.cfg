\* The race between the watchdog and a worker that has exited.
SPECIFICATION Spec
CONSTANTS
  NStages = 2
  GpuStages = {2}
  Deadline = 1
  ShutdownDeadline = 2
  Patience = 1
  Crashable = {}
PROPERTY TransferPreserved

\* The instance goes off, or both processes have ended.
CHECK_DEADLOCK FALSE
