SPECIFICATION Spec
CONSTANTS
  Retries = 3
  MaxBoots = 3
  MaxWrites = 2
PROPERTY
  FormatsEfsForF2fs
\* The bound on boots stops the system.
CHECK_DEADLOCK FALSE
