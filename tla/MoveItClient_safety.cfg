\* Five requests, one of them the shutdown, and two lines that answer nothing;
\* a sidecar that does not read stops the third one.
SPECIFICATION FairSpec
CONSTANTS
  MaxRequests = 5
  MaxNoise = 2
  PipeCapacity = 2
INVARIANTS TypeOK Matched CloseEnds
PROPERTIES OneMissIsFinal CallReturns
\* A closed client and an exited sidecar have nothing left to do.
CHECK_DEADLOCK FALSE
