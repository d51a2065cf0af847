SPECIFICATION FairSpec
CONSTANTS
  Retries = 3
  MaxBoots = 4
  MaxWrites = 2

  
PROPERTIES
  EraseOnlyACopy
  
  ScriptEnds
\* The bound on boots stops the system.
CHECK_DEADLOCK FALSE
