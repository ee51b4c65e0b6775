\* Either process may be killed at any statement.
SPECIFICATION Spec
CONSTANTS
  NStages = 3
  GpuStages = {2}
  Deadline = 1
  ShutdownDeadline = 2
  Patience = 1
  Crashable = {"sup", "wd"}
INVARIANT TypeOK
INVARIANT OneShutdown
INVARIANT ReportIsTrue
INVARIANT ExitLeavesNoStage
INVARIANT ReceiptIsExact
PROPERTY NoLateAdmission
PROPERTY ImplementsCampaign
PROPERTY OneDecides

\* The instance goes off, or both processes have ended.
CHECK_DEADLOCK FALSE
