SPECIFICATION FairSpec
CONSTANTS
  MaxCalls = 4
INVARIANTS
  FlagIsDataNode
  SuccessIsTrue
  ReportFollowsFlag
PROPERTY
  CallsEnd
