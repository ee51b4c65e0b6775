\* Four epochs with patience for two and a checkpoint every third, four
\* processes one after the other, each ended anywhere.
SPECIFICATION Spec
CONSTANTS
  MaxEpochs = 4
  Patience = 2
  Every = 3
  Metrics = {1, 2, 3}
  MaxRuns = 4
INVARIANTS TypeOK ChainIsOne ManifestIsTrue
\* Nobody starts another process.
CHECK_DEADLOCK FALSE
