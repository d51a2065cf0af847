SPECIFICATION Spec
CONSTANTS
  Heuristics = TRUE
  port0 = port0
  Ports <- OnePort
  MaxRequests = 3
  MaxUevents = 2
INVARIANTS
  NoLostPartnerSignal
  PollFollowsCallback
  FailedSwitchIsDual
  DoneMeansArrival
  ReportIsCurrent
  DisconnectedPortIsDual
PROPERTY
  ReportsAsOne
\* MaxRequests bounds the calls; then the threads may rest.
CHECK_DEADLOCK FALSE
