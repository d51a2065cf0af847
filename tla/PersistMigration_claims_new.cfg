SPECIFICATION Spec
CONSTANTS
  Retries = 3
  MaxBoots = 3
  MaxWrites = 2
INVARIANT
  UnknownMeansNew
\* The bound on boots stops the system.
CHECK_DEADLOCK FALSE
