CONSTANTS
  TextOrder <- MCTextOrder
  Histories <- MCHistories
  Requests <- MCRequests
  Profiles <- MCProfiles
  Connectors <- MCConnectors
  Runtime <- RUNTIME
  Approved <- MCApproved
  Intervals = {10, 20, 40}
  MaxParts = 7
  MaxSteps = 100
  MaxPlans = 3
SPECIFICATION Spec
INVARIANTS OfferedStaysAcceptable HardwareVouched
PROPERTY AnswersExact
CHECK_DEADLOCK FALSE
