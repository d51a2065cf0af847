SPECIFICATION FairSpec
CONSTANTS
  Requests <- AllRequests
  Vendors <- TwoVendors
  MaxCalls = 3
INVARIANTS
  AppliedMeansUp
  PresentedAsAsked
  NotifiedOnce
  LeftoversGone
PROPERTIES
  SeenAsAsked
  SuccessMeansUp
  RequestsEnd
  FfsConverges
