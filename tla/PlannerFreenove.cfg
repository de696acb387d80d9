CONSTANTS
  TextOrder <- MCTextOrder
  Histories <- FreenoveHistories
  Requests <- FreenoveRequests
  Profiles <- FreenoveProfiles
  Connectors <- MCConnectors
  Runtime <- RUNTIME
  Approved = {}
  Intervals = {10, 20, 40}
  MaxParts = 7
  MaxSteps = 200
  MaxPlans = 3
SPECIFICATION Spec
INVARIANT ReviewedBusCompiles
CHECK_DEADLOCK FALSE
