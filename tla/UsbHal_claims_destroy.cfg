SPECIFICATION FairSpec
CONSTANTS
  Heuristics = FALSE
  port0 = port0
  Ports <- OnePort
  MaxRequests = 2
  MaxUevents = 1
PROPERTY
  DestroyEndsThread
\* MaxRequests bounds the calls; then the threads may rest.
CHECK_DEADLOCK FALSE
