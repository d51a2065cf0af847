SPECIFICATION FairSpec
CONSTANTS
  MaxChanges = 2
INVARIANTS
  ReportedOnce
  OwnStatesOnly
  RoleFollowsFile
  HostsWatched
  UdcBindIsCurrent
PROPERTIES
  TellsOfSessions
  RoleConverges
\* The bound on changes stops the kernel, and then the monitor has nothing to do.
CHECK_DEADLOCK FALSE
