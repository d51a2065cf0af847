SPECIFICATION Spec
CONSTANTS
  MaxChanges = 3
INVARIANT
  DeviceMonitoredLater
\* The bound on changes stops the kernel, and then the monitor has nothing to do.
CHECK_DEADLOCK FALSE
