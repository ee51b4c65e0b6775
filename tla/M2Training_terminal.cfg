\* A process killed between the checkpoint of the last epoch and the manifest.
SPECIFICATION Spec
CONSTANTS
  MaxEpochs = 4
  Patience = 2
  Every = 3
  Metrics = {1, 2, 3}
  MaxRuns = 4
INVARIANT TerminalResumes
\* Nobody starts another process.
CHECK_DEADLOCK FALSE
