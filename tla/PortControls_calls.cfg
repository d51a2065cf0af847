SPECIFICATION Spec
CONSTANT
  MaxCalls = 2
INVARIANTS
  TypeOK
  LookupWrongOnlyIfMet
  ToldIsTrue
  ReportedLimitIsCurrent
  ForbiddenStaysOff
