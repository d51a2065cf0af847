SPECIFICATION Spec
CONSTANTS
  Ports <- SomePorts
  Flags = TRUE
  MaxDisturbances = 3
INVARIANTS
  TypeOK
  StatusIsPorts
  RolesTogether
